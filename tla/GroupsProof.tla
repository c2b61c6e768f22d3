----------------------------- MODULE GroupsProof -----------------------------
(***************************************************************************)
(* Proofs about Groups: invitations are known on both sides, a group that  *)
(* has members is led by one of them, and storage identifiers are unique.  *)
(* The operations of the model take a world, the record of the variables,  *)
(* to a world: for each of them one lemma says what it changes and one     *)
(* that it keeps the world well formed; each handler is a step of its own. *)
(* The second half is about memory and tables: there is a history of the   *)
(* tables, one per statement of the queue, that ends in what memory holds, *)
(* and every table of it fits. Each operation extends it, the worker takes *)
(* its first step, and a restart may begin at any of its tables.           *)
(***************************************************************************)
EXTENDS Groups, FiniteSetTheorems, WellFoundedInduction, TLAPS

\* The groups in memory; the pointers of the players; the world.
Groupings == [Objects -> {None} \cup GroupRecs]
Pointers == [Players -> {None} \cup Objects]

Worlds == [grp : Groupings, link : Pointers, orig : Pointers, invite : Pointers,
           store : [Ids -> {None} \cup Objects], next : Ids, queue : Seq(Statements)]

\* A world from its parts.
LEMMA WorldParts ==
    ASSUME NEW w \in Worlds
    PROVE  /\ w.grp \in Groupings
           /\ w.link \in Pointers /\ w.orig \in Pointers /\ w.invite \in Pointers
           /\ w.store \in [Ids -> {None} \cup Objects] /\ w.next \in Ids /\ w.queue \in Seq(Statements)
BY DEF Worlds

\* NULL is none of the groups, identifiers, subgroups, players and rows, and
\* there is a first group, identifier and subgroup.
LEMMA Nulls ==
    /\ None \notin Objects /\ None \notin Ids /\ None \notin Subs /\ None \notin Players
    /\ None \notin GroupRecs /\ None \notin GroupRows /\ None \notin MemberRows
    /\ Objects \subseteq Nat /\ Ids \subseteq Nat /\ Subs \subseteq Nat /\ Objects \subseteq Ids
    /\ 0 \in Subs /\ 1 \in Ids /\ 1 \in Objects
BY GroupsAssumption, NullAssumption DEF Objects, Ids, Subs

\* AddInvite changes the list of the group and the invitation of the player.
LEMMA AddInviteParts ==
    ASSUME NEW w \in Worlds, NEW g \in Objects, w.grp[g] # None, NEW p \in Players,
           NEW u, u = AddInvite(w, g, p)
    PROVE  /\ u \in Worlds
           /\ u.grp = [w.grp EXCEPT ![g] = [w.grp[g] EXCEPT !.invitees = @ \cup {p}]]
           /\ u.invite = [w.invite EXCEPT ![p] = g]
           /\ u.link = w.link /\ u.orig = w.orig /\ u.store = w.store /\ u.next = w.next /\ u.queue = w.queue
<1>1. w.grp[g] \in GroupRecs
  BY WorldParts DEF Groupings
<1>2. PICK r : r = [w.grp[g] EXCEPT !.invitees = @ \cup {p}]
  OBVIOUS
<1>3. r \in GroupRecs
  BY <1>1, <1>2 DEF GroupRecs
<1>4. /\ u.grp = [w.grp EXCEPT ![g] = r]
      /\ u.invite = [w.invite EXCEPT ![p] = g]
      /\ u.link = w.link /\ u.orig = w.orig /\ u.store = w.store /\ u.next = w.next /\ u.queue = w.queue
  BY <1>2 DEF AddInvite, Worlds
<1>5. u = [grp |-> [w.grp EXCEPT ![g] = r], link |-> w.link, orig |-> w.orig,
           invite |-> [w.invite EXCEPT ![p] = g], store |-> w.store, next |-> w.next, queue |-> w.queue]
  BY <1>2 DEF AddInvite, Worlds
<1>6. u \in Worlds
  BY <1>3, <1>5, WorldParts DEF Worlds, Groupings, Pointers
<1> QED BY <1>2, <1>4, <1>6

\* A group that exists has its fields.
LEMMA GroupAt ==
    ASSUME NEW w \in Worlds, NEW g \in Objects, w.grp[g] # None
    PROVE  w.grp[g] \in GroupRecs
BY WorldParts DEF Groupings

\* RemoveInvite changes the list of the group and the invitation of the
\* player.
LEMMA RemoveInviteParts ==
    ASSUME NEW w \in Worlds, NEW g \in Objects, w.grp[g] # None, NEW p \in Players,
           NEW u, u = RemoveInvite(w, g, p)
    PROVE  /\ u \in Worlds
           /\ u.grp = [w.grp EXCEPT ![g] = [w.grp[g] EXCEPT !.invitees = @ \ {p}]]
           /\ u.invite = [w.invite EXCEPT ![p] = None]
           /\ u.link = w.link /\ u.orig = w.orig /\ u.store = w.store /\ u.next = w.next /\ u.queue = w.queue
<1>1. w.grp[g] \in GroupRecs
  BY GroupAt
<1>2. PICK r : r = [w.grp[g] EXCEPT !.invitees = @ \ {p}]
  OBVIOUS
<1>3. r \in GroupRecs
  BY <1>1, <1>2 DEF GroupRecs
<1>5. u = [grp |-> [w.grp EXCEPT ![g] = r], link |-> w.link, orig |-> w.orig,
           invite |-> [w.invite EXCEPT ![p] = None], store |-> w.store, next |-> w.next, queue |-> w.queue]
  BY <1>2 DEF RemoveInvite, Worlds
<1>6. u \in Worlds
  BY <1>3, <1>5, WorldParts DEF Worlds, Groupings, Pointers
<1> QED BY <1>2, <1>5, <1>6

\* What is left of the invitations when those of g are gone.
Uninvited(w, g) == [p \in Players |-> IF p \in w.grp[g].invitees THEN None ELSE w.invite[p]]

\* RemoveAllInvites empties the list and takes the invitation of everybody on
\* it.
LEMMA RemoveAllInvitesParts ==
    ASSUME NEW w \in Worlds, NEW g \in Objects, w.grp[g] # None, 
           NEW u, u = RemoveAllInvites(w, g)
    PROVE  /\ u \in Worlds
           /\ u.grp = [w.grp EXCEPT ![g] = [w.grp[g] EXCEPT !.invitees = {}]]
           /\ u.invite = Uninvited(w, g)
           /\ u.link = w.link /\ u.orig = w.orig /\ u.store = w.store /\ u.next = w.next /\ u.queue = w.queue
<1>1. w.grp[g] \in GroupRecs
  BY GroupAt
<1>2. PICK r : r = [w.grp[g] EXCEPT !.invitees = {}]
  OBVIOUS
<1>3. r \in GroupRecs
  BY <1>1, <1>2 DEF GroupRecs
<1>5. u = [grp |-> [w.grp EXCEPT ![g] = r], link |-> w.link, orig |-> w.orig,
           invite |-> Uninvited(w, g), store |-> w.store, next |-> w.next, queue |-> w.queue]
  BY <1>2 DEF RemoveAllInvites, Worlds, Uninvited
<1>6. Uninvited(w, g) \in Pointers
  BY WorldParts DEF Uninvited, Pointers
<1>7. u \in Worlds
  BY <1>3, <1>5, <1>6, WorldParts DEF Worlds, Groupings
<1> QED BY <1>2, <1>5, <1>7

\* Unlinked references still refer to groups, or to none.
LEMMA WithoutType ==
    ASSUME NEW ref \in Pointers, NEW g \in Objects
    PROVE  Without(ref, g) \in Pointers
BY DEF Without, Pointers

\* ~Group takes the object and the links to it, and nothing else.
LEMMA DeleteGroupParts ==
    ASSUME NEW w \in Worlds, NEW g \in Objects, NEW u, u = DeleteGroup(w, g)
    PROVE  /\ u \in Worlds
           /\ u.grp = [w.grp EXCEPT ![g] = None]
           /\ u.link = Without(w.link, g) /\ u.orig = Without(w.orig, g)
           /\ u.invite = w.invite /\ u.store = w.store /\ u.next = w.next /\ u.queue = w.queue
<1>5. u = [grp |-> [w.grp EXCEPT ![g] = None], link |-> Without(w.link, g), orig |-> Without(w.orig, g),
           invite |-> w.invite, store |-> w.store, next |-> w.next, queue |-> w.queue]
  BY DEF DeleteGroup, Worlds
<1>6. u \in Worlds
  BY <1>5, WorldParts, WithoutType DEF Worlds, Groupings
<1> QED BY <1>5, <1>6

\* FreeGroupDbStoreId clears one place of GroupDbStore and lowers the next
\* identifier.
LEMMA FreeParts ==
    ASSUME NEW w \in Worlds, NEW i \in Ids, NEW u, u = FreeGroupDbStoreId(w, i)
    PROVE  /\ u \in Worlds
           /\ u.store = [w.store EXCEPT ![i] = None]
           /\ u.next = IF i < w.next THEN i ELSE w.next
           /\ u.grp = w.grp /\ u.link = w.link /\ u.orig = w.orig /\ u.invite = w.invite /\ u.queue = w.queue
<1>5. u = [grp |-> w.grp, link |-> w.link, orig |-> w.orig, invite |-> w.invite,
           store |-> [w.store EXCEPT ![i] = None], next |-> IF i < w.next THEN i ELSE w.next, queue |-> w.queue]
  BY DEF FreeGroupDbStoreId, Worlds
<1>6. u \in Worlds
  BY <1>5, WorldParts DEF Worlds
<1> QED BY <1>5, <1>6

\* Enqueue changes the queue alone.
LEMMA QueueParts ==
    ASSUME NEW w \in Worlds, NEW o \in Statements, NEW u, u = Queue(w, o)
    PROVE  /\ u \in Worlds
           /\ u.queue = Append(w.queue, o)
           /\ u.grp = w.grp /\ u.link = w.link /\ u.orig = w.orig /\ u.invite = w.invite
           /\ u.store = w.store /\ u.next = w.next
<1>1. Append(w.queue, o) \in Seq(Statements)
  BY WorldParts
<1>5. u = [grp |-> w.grp, link |-> w.link, orig |-> w.orig, invite |-> w.invite,
           store |-> w.store, next |-> w.next, queue |-> Append(w.queue, o)]
  BY DEF Queue, Worlds
<1>6. u \in Worlds
  BY <1>1, <1>5, WorldParts DEF Worlds
<1> QED BY <1>5, <1>6

\* The statements, with the arguments the code gives them.
LEMMA OpTypes ==
    ASSUME NEW i \in Ids, NEW p \in Players, NEW s \in Subs, NEW b \in BOOLEAN
    PROVE  /\ Op("ins_group", i, p, b) \in Statements
           /\ Op("ins_member", i, p, s) \in Statements
           /\ Op("del_member", None, p, None) \in Statements
           /\ Op("load", None, p, None) \in Statements
           /\ Op("leader", i, p, None) \in Statements
           /\ Op("type", i, None, b) \in Statements
           /\ Op("del_group", i, None, None) \in Statements
BY DEF Op, Statements

\* u is w after the group g has gone, with its invitations and the links to it.
Gone(w, u, g) ==
    /\ u \in Worlds
    /\ u.grp = [w.grp EXCEPT ![g] = None]
    /\ \A p \in Players : u.link[p] \in {None, w.link[p]} \ {g} /\ u.orig[p] \in {None, w.orig[p]} \ {g}
    /\ \A p \in Players : w.link[p] # g /\ w.grp[g].slots[p] = None => u.link[p] = w.link[p]
    /\ u.invite = Uninvited(w, g)
    /\ w.grp[g].id = None => u.store = w.store /\ u.next = w.next /\ u.queue = w.queue
    /\ w.grp[g].id # None =>
          /\ u.queue = Append(w.queue, Op("del_group", w.grp[g].id, None, None))
          /\ u.store = [w.store EXCEPT ![w.grp[g].id] = None]
          /\ u.next = IF w.grp[g].id < w.next THEN w.grp[g].id ELSE w.next

\* Disband of a created group takes it away, with its invitations, its links
\* and its identifier.
LEMMA DisbandGone ==
    ASSUME NEW w \in Worlds, NEW g \in Objects, w.grp[g] # None, w.grp[g].id # None
    PROVE  Gone(w, Disband(w, g), g)
<1>1. PICK links : links = [p \in Players |->
                        IF p \in Members(w, g) /\ FindPlayer(p) /\ w.orig[p] # g THEN None ELSE w.link[p]]
  OBVIOUS
<1>2. links \in Pointers
  BY <1>1, WorldParts DEF Pointers
<1>3. PICK a : a = [w EXCEPT !.link = links]
  OBVIOUS
<1>4. a = [grp |-> w.grp, link |-> links, orig |-> w.orig, invite |-> w.invite,
           store |-> w.store, next |-> w.next, queue |-> w.queue]
  BY <1>3 DEF Worlds
<1>5. a \in Worlds
  BY <1>2, <1>4, WorldParts DEF Worlds
<1>6. PICK i \in Ids : i = w.grp[g].id
  BY GroupAt DEF GroupRecs
<1>7. PICK b : b = RemoveAllInvites(a, g)
  OBVIOUS
<1>8. /\ b \in Worlds
      /\ b.grp = [w.grp EXCEPT ![g] = [w.grp[g] EXCEPT !.invitees = {}]]
      /\ b.invite = Uninvited(a, g)
      /\ b.link = links /\ b.orig = w.orig /\ b.store = w.store /\ b.next = w.next /\ b.queue = w.queue
  BY <1>4, <1>5, <1>7, RemoveAllInvitesParts
<1>9. Uninvited(a, g) = Uninvited(w, g)
  BY <1>4 DEF Uninvited
<1>10. PICK o \in Statements : o = Op("del_group", i, None, None)
  BY DEF Op, Statements
<1>11. PICK c : c = Queue(b, o)
  OBVIOUS
<1>12. /\ c \in Worlds
       /\ c.grp = b.grp /\ c.link = links /\ c.orig = w.orig /\ c.invite = Uninvited(w, g)
       /\ c.store = w.store /\ c.next = w.next /\ c.queue = Append(w.queue, o)
  <2>1. /\ c \in Worlds /\ c.queue = Append(b.queue, o)
        /\ c.grp = b.grp /\ c.link = b.link /\ c.orig = b.orig /\ c.invite = b.invite
        /\ c.store = b.store /\ c.next = b.next
    BY <1>8, <1>11, QueueParts
  <2> QED BY <1>8, <1>9, <2>1
<1>13. PICK d : d = FreeGroupDbStoreId(c, i)
  OBVIOUS
<1>14. /\ d \in Worlds
       /\ d.grp = b.grp /\ d.link = links /\ d.orig = w.orig /\ d.invite = Uninvited(w, g)
       /\ d.store = [w.store EXCEPT ![i] = None] /\ d.next = IF i < w.next THEN i ELSE w.next
       /\ d.queue = Append(w.queue, o)
  <2>1. c \in Worlds
    BY <1>12
  <2>2. /\ d \in Worlds
        /\ d.store = [c.store EXCEPT ![i] = None]
        /\ d.next = IF i < c.next THEN i ELSE c.next
        /\ d.grp = c.grp /\ d.link = c.link /\ d.orig = c.orig /\ d.invite = c.invite /\ d.queue = c.queue
    BY <1>13, <2>1, FreeParts
  <2> QED BY <1>12, <2>2
<1>15. PICK e : e = DeleteGroup(d, g)
  OBVIOUS
<1>16. /\ e \in Worlds
       /\ e.grp = [b.grp EXCEPT ![g] = None] /\ e.link = Without(links, g) /\ e.orig = Without(w.orig, g)
       /\ e.invite = Uninvited(w, g)
       /\ e.store = [w.store EXCEPT ![i] = None] /\ e.next = IF i < w.next THEN i ELSE w.next
       /\ e.queue = Append(w.queue, o)
  <2>1. d \in Worlds
    BY <1>14
  <2>2. /\ e \in Worlds
        /\ e.grp = [d.grp EXCEPT ![g] = None]
        /\ e.link = Without(d.link, g) /\ e.orig = Without(d.orig, g)
        /\ e.invite = d.invite /\ e.store = d.store /\ e.next = d.next /\ e.queue = d.queue
    BY <1>15, <2>1, DeleteGroupParts
  <2> QED BY <1>14, <2>2
<1>17. e = Disband(w, g)
  BY <1>1, <1>3, <1>6, <1>7, <1>11, <1>10, <1>13, <1>15 DEF Disband
<1>18. [b.grp EXCEPT ![g] = None] = [w.grp EXCEPT ![g] = None]
  BY <1>8, WorldParts DEF Groupings
<1>19. \A p \in Players : e.link[p] \in {None, w.link[p]} \ {g} /\ e.orig[p] \in {None, w.orig[p]} \ {g}
  BY <1>1, <1>16, WorldParts, Nulls DEF Without, Pointers
<1>20. \A p \in Players : w.link[p] # g /\ w.grp[g].slots[p] = None => e.link[p] = w.link[p]
  BY <1>1, <1>16, WorldParts DEF Without, Members
<1> QED BY <1>6, <1>10, <1>16, <1>17, <1>18, <1>19, <1>20 DEF Gone

\* RemoveAllInvites and a deletion take a group that was never created away.
LEMMA DeleteGone ==
    ASSUME NEW w \in Worlds, NEW g \in Objects, w.grp[g] # None, w.grp[g].id = None
    PROVE  Gone(w, DeleteGroup(RemoveAllInvites(w, g), g), g)
<1>1. PICK b : b = RemoveAllInvites(w, g)
  OBVIOUS
<1>2. /\ b \in Worlds
      /\ b.grp = [w.grp EXCEPT ![g] = [w.grp[g] EXCEPT !.invitees = {}]]
      /\ b.invite = Uninvited(w, g)
      /\ b.link = w.link /\ b.orig = w.orig /\ b.store = w.store /\ b.next = w.next /\ b.queue = w.queue
  BY <1>1, RemoveAllInvitesParts
<1>3. PICK e : e = DeleteGroup(b, g)
  OBVIOUS
<1>4. /\ e \in Worlds
      /\ e.grp = [b.grp EXCEPT ![g] = None] /\ e.link = Without(w.link, g) /\ e.orig = Without(w.orig, g)
      /\ e.invite = Uninvited(w, g) /\ e.store = w.store /\ e.next = w.next /\ e.queue = w.queue
  BY <1>2, <1>3, DeleteGroupParts
<1>5. [b.grp EXCEPT ![g] = None] = [w.grp EXCEPT ![g] = None]
  BY <1>2, WorldParts DEF Groupings
<1>6. \A p \in Players : e.link[p] \in {None, w.link[p]} \ {g} /\ e.orig[p] \in {None, w.orig[p]} \ {g}
  BY <1>4, WorldParts, Nulls DEF Without, Pointers
<1>7. \A p \in Players : w.link[p] # g => e.link[p] = w.link[p]
  BY <1>4 DEF Without
<1> QED BY <1>1, <1>3, <1>4, <1>5, <1>6, <1>7 DEF Gone

\* The subgroup counters stay numbers (SubGroupCounterIncrease,
\* SubGroupCounterDecrease).
LEMMA CounterTypes ==
    ASSUME NEW c \in [Subs -> Int], NEW s \in Subs
    PROVE  /\ SubGroupCounterIncrease(c, s) \in [Subs -> Int]
           /\ SubGroupCounterDecrease(c, s) \in [Subs -> Int]
BY DEF SubGroupCounterIncrease, SubGroupCounterDecrease

\* u is w after p has been given the place s in the created group g.
Joined(w, u, g, p, s) ==
    /\ u \in Worlds /\ s \in Subs
    /\ \E r \in GroupRecs :
          /\ u.grp = [w.grp EXCEPT ![g] = r]
          /\ r.leader = w.grp[g].leader /\ r.invitees = w.grp[g].invitees /\ r.raid = w.grp[g].raid
          /\ r.id = w.grp[g].id
          /\ r.slots = [w.grp[g].slots EXCEPT ![p] = s]
          /\ r.counts = IF r.raid THEN SubGroupCounterIncrease(w.grp[g].counts, s) ELSE w.grp[g].counts
    /\ u.invite = [w.invite EXCEPT ![p] = None]
    /\ u.link = [w.link EXCEPT ![p] = IF @ = None THEN g ELSE @]
    /\ u.orig = [w.orig EXCEPT ![p] = IF w.link[p] = None THEN @ ELSE g]
    /\ u.store = w.store /\ u.next = w.next
    /\ u.queue = Append(w.queue, Op("ins_member", w.grp[g].id, p, s))

\* AddMember gives the player the first subgroup with a place, if there is
\* one, and stores it.
LEMMA AddMemberJoins ==
    ASSUME NEW w \in Worlds, NEW g \in Objects, w.grp[g] # None, w.grp[g].id # None, NEW p \in Players
    PROVE  /\ FreeSub(w, g) \notin Subs => AddMember(w, g, p) = w
           /\ FreeSub(w, g) \in Subs => Joined(w, AddMember(w, g, p), g, p, FreeSub(w, g))
           /\ ~w.grp[g].raid => FreeSub(w, g) = 0
<1>1. FreeSub(w, g) \notin Subs => AddMember(w, g, p) = w
  BY DEF AddMember
<1>2. ~w.grp[g].raid => FreeSub(w, g) = 0
  BY DEF FreeSub
<1>3. ASSUME FreeSub(w, g) \in Subs
      PROVE  Joined(w, AddMember(w, g, p), g, p, FreeSub(w, g))
  <2>1. PICK s \in Subs : s = FreeSub(w, g)
    BY <1>3
  <2>2. w.grp[g] \in GroupRecs
    BY GroupAt
  <2>3. PICK c : c = IF w.grp[g].raid THEN SubGroupCounterIncrease(w.grp[g].counts, s) ELSE w.grp[g].counts
    OBVIOUS
  <2>4. c \in [Subs -> Int]
    BY <2>2, <2>3, CounterTypes DEF GroupRecs
  <2>5. PICK t : t = [w.grp[g].slots EXCEPT ![p] = s]
    OBVIOUS
  <2>6. t \in [Players -> {None} \cup Subs]
    BY <2>2, <2>5 DEF GroupRecs
  <2>7. PICK r : r = [w.grp[g] EXCEPT !.slots = t, !.counts = c]
    OBVIOUS
  <2>8. /\ r \in GroupRecs
        /\ r.leader = w.grp[g].leader /\ r.invitees = w.grp[g].invitees /\ r.raid = w.grp[g].raid
        /\ r.id = w.grp[g].id /\ r.slots = t /\ r.counts = c
    BY <2>2, <2>4, <2>6, <2>7 DEF GroupRecs
  <2>9. PICK v : v = [w EXCEPT !.grp[g].slots[p] = s,
                       !.grp[g].counts = IF w.grp[g].raid THEN SubGroupCounterIncrease(@, s) ELSE @,
                       !.invite[p] = None,
                       !.link[p] = IF @ = None THEN g ELSE @,
                       !.orig[p] = IF w.link[p] = None THEN @ ELSE g]
    OBVIOUS
  <2>10. PICK links, origs, invites :
             /\ links = [w.link EXCEPT ![p] = IF @ = None THEN g ELSE @]
             /\ origs = [w.orig EXCEPT ![p] = IF w.link[p] = None THEN @ ELSE g]
             /\ invites = [w.invite EXCEPT ![p] = None]
    OBVIOUS
  <2>11. links \in Pointers /\ origs \in Pointers /\ invites \in Pointers
    BY <2>10, WorldParts DEF Pointers
  <2>12. PICK gg : gg = [w.grp EXCEPT ![g] = r]
    OBVIOUS
  <2>13. gg \in Groupings
    BY <2>8, <2>12, WorldParts DEF Groupings
  <2>14. v = [grp |-> gg, link |-> links, orig |-> origs, invite |-> invites,
              store |-> w.store, next |-> w.next, queue |-> w.queue]
    <3>1. v.grp = gg
      BY <2>2, <2>3, <2>5, <2>7, <2>9, <2>12 DEF Worlds, Groupings, GroupRecs
    <3>2. v.invite = invites /\ v.link = links /\ v.orig = origs
      BY <2>9, <2>10 DEF Worlds
    <3>3. v.store = w.store /\ v.next = w.next /\ v.queue = w.queue
      BY <2>9 DEF Worlds
    <3>4. v = [grp |-> v.grp, link |-> v.link, orig |-> v.orig, invite |-> v.invite,
               store |-> v.store, next |-> v.next, queue |-> v.queue]
      BY <2>9 DEF Worlds
    <3> QED BY <3>1, <3>2, <3>3, <3>4
  <2>15. v \in Worlds
    BY <2>11, <2>13, <2>14, WorldParts DEF Worlds
  <2>16. PICK i \in Ids : i = w.grp[g].id
    BY <2>2 DEF GroupRecs
  <2>17. PICK u : u = Queue(v, Op("ins_member", i, p, s))
    OBVIOUS
  <2>18. Op("ins_member", i, p, s) \in Statements
    BY DEF Op, Statements
  <2>19. /\ u \in Worlds
         /\ u.queue = Append(w.queue, Op("ins_member", i, p, s))
         /\ u.grp = gg /\ u.link = links /\ u.orig = origs /\ u.invite = invites
         /\ u.store = w.store /\ u.next = w.next
    BY <2>14, <2>15, <2>17, <2>18, QueueParts
  <2>20. u = AddMember(w, g, p)
    BY <2>1, <2>9, <2>16, <2>17 DEF AddMember
  <2>21. \E x \in GroupRecs :
          /\ u.grp = [w.grp EXCEPT ![g] = x]
          /\ x.leader = w.grp[g].leader /\ x.invitees = w.grp[g].invitees /\ x.raid = w.grp[g].raid
          /\ x.id = w.grp[g].id
          /\ x.slots = [w.grp[g].slots EXCEPT ![p] = s]
          /\ x.counts = IF x.raid THEN SubGroupCounterIncrease(w.grp[g].counts, s) ELSE w.grp[g].counts
    BY <2>3, <2>5, <2>8, <2>12, <2>19
  <2> QED BY <2>1, <2>10, <2>16, <2>19, <2>20, <2>21 DEF Joined
<1> QED BY <1>1, <1>2, <1>3

\* u is w after g, which has nobody, has been given the identifier of next.
Numbering(w, u, g) ==
    /\ u \in Worlds
    /\ \E r \in GroupRecs :
          /\ u.grp = [w.grp EXCEPT ![g] = r]
          /\ r.leader = w.grp[g].leader /\ r.invitees = w.grp[g].invitees /\ r.raid = w.grp[g].raid
          /\ r.slots = w.grp[g].slots /\ r.counts = w.grp[g].counts /\ r.id = w.next
    /\ u.invite = w.invite /\ u.link = w.link /\ u.orig = w.orig
    /\ u.store = [w.store EXCEPT ![w.next] = g] /\ u.next = NextStoreId(w)
    /\ u.queue = Append(w.queue, Op("ins_group", w.next, w.grp[g].leader, w.grp[g].raid))

\* Create takes the next identifier and then adds the leader as a member.
LEMMA CreateNumbers ==
    ASSUME NEW w \in Worlds, NEW g \in Objects, w.grp[g] # None, NextStoreId(w) \in Ids
    PROVE  \E u : Numbering(w, u, g) /\ Create(w, g) = AddMember(u, g, w.grp[g].leader)
<1>2. w.grp[g] \in GroupRecs
  BY GroupAt
<1>3. PICK i \in Ids : i = w.next
  BY WorldParts
<1>4. PICK r : r = [w.grp[g] EXCEPT !.id = i]
  OBVIOUS
<1>5. /\ r \in GroupRecs
      /\ r.leader = w.grp[g].leader /\ r.invitees = w.grp[g].invitees /\ r.raid = w.grp[g].raid
      /\ r.slots = w.grp[g].slots /\ r.counts = w.grp[g].counts /\ r.id = i
  BY <1>2, <1>4 DEF GroupRecs
<1>6. PICK v : v = [w EXCEPT !.grp[g].id = i, !.store[i] = g, !.next = NextStoreId(w)]
  OBVIOUS
<1>7. v = [grp |-> [w.grp EXCEPT ![g] = r], link |-> w.link, orig |-> w.orig, invite |-> w.invite,
           store |-> [w.store EXCEPT ![i] = g], next |-> NextStoreId(w), queue |-> w.queue]
  BY <1>4, <1>6 DEF Worlds
<1>8. v \in Worlds
  BY <1>5, <1>7, WorldParts DEF Worlds, Groupings
<1>9. PICK o : o = Op("ins_group", i, w.grp[g].leader, w.grp[g].raid)
  OBVIOUS
<1>10. o \in Statements
  BY <1>2, <1>9 DEF Op, Statements, GroupRecs
<1>11. PICK u : u = Queue(v, o)
  OBVIOUS
<1>12. /\ u \in Worlds
       /\ u.queue = Append(w.queue, o)
       /\ u.grp = [w.grp EXCEPT ![g] = r] /\ u.link = w.link /\ u.orig = w.orig /\ u.invite = w.invite
       /\ u.store = [w.store EXCEPT ![i] = g] /\ u.next = NextStoreId(w)
  <2>1. /\ v.grp = [w.grp EXCEPT ![g] = r] /\ v.link = w.link /\ v.orig = w.orig /\ v.invite = w.invite
        /\ v.store = [w.store EXCEPT ![i] = g] /\ v.next = NextStoreId(w) /\ v.queue = w.queue
    BY <1>7
  <2>2. /\ u \in Worlds /\ u.queue = Append(v.queue, o)
        /\ u.grp = v.grp /\ u.link = v.link /\ u.orig = v.orig /\ u.invite = v.invite
        /\ u.store = v.store /\ u.next = v.next
    BY <1>8, <1>10, <1>11, QueueParts
  <2> QED BY <2>1, <2>2
<1>13. Numbering(w, u, g)
  BY <1>3, <1>5, <1>9, <1>12 DEF Numbering
<1>14. Create(w, g) = AddMember(u, g, w.grp[g].leader)
  BY <1>3, <1>6, <1>9, <1>11 DEF Create
<1> QED BY <1>13, <1>14

\* u is w after the leader of the created group g has changed.
LedBy(w, u, g, p) ==
    /\ u \in Worlds
    /\ \E r \in GroupRecs :
          /\ u.grp = [w.grp EXCEPT ![g] = r]
          /\ r.leader = p /\ r.invitees = w.grp[g].invitees /\ r.raid = w.grp[g].raid
          /\ r.slots = w.grp[g].slots /\ r.counts = w.grp[g].counts /\ r.id = w.grp[g].id
    /\ u.invite = w.invite /\ u.link = w.link /\ u.orig = w.orig /\ u.store = w.store /\ u.next = w.next
    /\ u.queue = Append(w.queue, Op("leader", w.grp[g].id, p, None))

\* ChangeLeader changes the leader and queues one statement.
LEMMA ChangeLeaderParts ==
    ASSUME NEW w \in Worlds, NEW g \in Objects, w.grp[g] # None, w.grp[g].id # None, NEW p \in Players
    PROVE  LedBy(w, ChangeLeader(w, g, p), g, p)
<1>2. w.grp[g] \in GroupRecs
  BY GroupAt
<1>4. PICK r : r = [w.grp[g] EXCEPT !.leader = p]
  OBVIOUS
<1>5. /\ r \in GroupRecs
      /\ r.leader = p /\ r.invitees = w.grp[g].invitees /\ r.raid = w.grp[g].raid
      /\ r.slots = w.grp[g].slots /\ r.counts = w.grp[g].counts /\ r.id = w.grp[g].id
  BY <1>2, <1>4 DEF GroupRecs
<1>6. PICK v : v = [w EXCEPT !.grp[g].leader = p]
  OBVIOUS
<1>7. v = [grp |-> [w.grp EXCEPT ![g] = r], link |-> w.link, orig |-> w.orig, invite |-> w.invite,
           store |-> w.store, next |-> w.next, queue |-> w.queue]
  BY <1>4, <1>6 DEF Worlds
<1>8. v \in Worlds
  BY <1>5, <1>7, WorldParts DEF Worlds, Groupings
<1>9. PICK o : o = Op("leader", w.grp[g].id, p, None)
  OBVIOUS
<1>10. o \in Statements
  BY <1>2, <1>9 DEF Op, Statements, GroupRecs
<1>11. PICK u : u = Queue(v, o)
  OBVIOUS
<1>12. /\ u \in Worlds
       /\ u.queue = Append(w.queue, o)
       /\ u.grp = [w.grp EXCEPT ![g] = r] /\ u.link = w.link /\ u.orig = w.orig /\ u.invite = w.invite
       /\ u.store = w.store /\ u.next = w.next
  <2>1. /\ v.grp = [w.grp EXCEPT ![g] = r] /\ v.link = w.link /\ v.orig = w.orig /\ v.invite = w.invite
        /\ v.store = w.store /\ v.next = w.next /\ v.queue = w.queue
    BY <1>7
  <2> QED BY <1>8, <1>10, <1>11, <2>1, QueueParts
<1>13. u = ChangeLeader(w, g, p)
  BY <1>6, <1>9, <1>11 DEF ChangeLeader
<1> QED BY <1>5, <1>9, <1>12, <1>13 DEF LedBy

\* u is w after the slot of p in g and his links to it have gone.
Removed(w, u, g, p) ==
    /\ u \in Worlds
    /\ \E r \in GroupRecs :
          /\ u.grp = [w.grp EXCEPT ![g] = r]
          /\ r.leader = w.grp[g].leader /\ r.invitees = w.grp[g].invitees /\ r.raid = w.grp[g].raid
          /\ r.id = w.grp[g].id
          /\ r.slots = [w.grp[g].slots EXCEPT ![p] = None]
          /\ r.counts = IF w.grp[g].slots[p] # None /\ r.raid
                        THEN SubGroupCounterDecrease(w.grp[g].counts, w.grp[g].slots[p]) ELSE w.grp[g].counts
    /\ u.invite = w.invite
    /\ u.link = [w.link EXCEPT ![p] = IF (FindPlayer(p) /\ w.orig[p] # g) \/ @ = g THEN None ELSE @]
    /\ u.orig = [w.orig EXCEPT ![p] = IF @ = g THEN None ELSE @]
    /\ u.store = w.store /\ u.next = w.next
    /\ u.queue = Append(w.queue, Op("del_member", None, p, None))

\* The first half of RemoveMember takes the slot and the links of the player.
LEMMA TakeOutRemoves ==
    ASSUME NEW w \in Worlds, NEW g \in Objects, w.grp[g] # None, NEW p \in Players
    PROVE  Removed(w, TakeOut(w, g, p), g, p)
<1>2. w.grp[g] \in GroupRecs
  BY GroupAt
<1>3. PICK s \in {None} \cup Subs : s = w.grp[g].slots[p]
  BY <1>2 DEF GroupRecs
<1>4. PICK links, origs :
          /\ links = [w.link EXCEPT ![p] = IF (FindPlayer(p) /\ w.orig[p] # g) \/ @ = g THEN None ELSE @]
          /\ origs = [w.orig EXCEPT ![p] = IF @ = g THEN None ELSE @]
  OBVIOUS
<1>5. links \in Pointers /\ origs \in Pointers
  BY <1>4, WorldParts DEF Pointers
<1>6. PICK x : x = [w EXCEPT !.link[p] = IF (FindPlayer(p) /\ w.orig[p] # g) \/ @ = g THEN None ELSE @,
                             !.orig[p] = IF @ = g THEN None ELSE @]
  OBVIOUS
<1>7. x = [grp |-> w.grp, link |-> links, orig |-> origs, invite |-> w.invite,
           store |-> w.store, next |-> w.next, queue |-> w.queue]
  BY <1>4, <1>6 DEF Worlds
<1>8. x \in Worlds
  BY <1>5, <1>7, WorldParts DEF Worlds
<1>9. PICK o : o = Op("del_member", None, p, None)
  OBVIOUS
<1>10. o \in Statements
  BY <1>9 DEF Op, Statements
<1>11. PICK v : v = Queue(x, o)
  OBVIOUS
<1>12. /\ v \in Worlds
       /\ v.queue = Append(w.queue, o)
       /\ v.grp = w.grp /\ v.link = links /\ v.orig = origs /\ v.invite = w.invite
       /\ v.store = w.store /\ v.next = w.next
  BY <1>7, <1>8, <1>10, <1>11, QueueParts
<1>13. TakeOut(w, g, p) = IF s = None THEN v
                          ELSE [v EXCEPT !.grp[g].slots[p] = None,
                                         !.grp[g].counts = IF w.grp[g].raid THEN SubGroupCounterDecrease(@, s) ELSE @]
  BY <1>3, <1>6, <1>9, <1>11 DEF TakeOut
<1>14. CASE s = None
  <2>1. w.grp = [w.grp EXCEPT ![g] = w.grp[g]]
    BY WorldParts DEF Groupings
  <2>2. w.grp[g].slots = [w.grp[g].slots EXCEPT ![p] = None]
    BY <1>2, <1>3, <1>14 DEF GroupRecs
  <2>3. \E r \in GroupRecs :
          /\ v.grp = [w.grp EXCEPT ![g] = r]
          /\ r.leader = w.grp[g].leader /\ r.invitees = w.grp[g].invitees /\ r.raid = w.grp[g].raid
          /\ r.id = w.grp[g].id
          /\ r.slots = [w.grp[g].slots EXCEPT ![p] = None]
          /\ r.counts = IF w.grp[g].slots[p] # None /\ r.raid
                        THEN SubGroupCounterDecrease(w.grp[g].counts, w.grp[g].slots[p]) ELSE w.grp[g].counts
    BY <1>2, <1>3, <1>12, <1>14, <2>1, <2>2
  <2> QED BY <1>4, <1>9, <1>12, <1>13, <1>14, <2>3 DEF Removed
<1>15. CASE s # None
  <2>1. PICK c : c = IF w.grp[g].raid THEN SubGroupCounterDecrease(w.grp[g].counts, s) ELSE w.grp[g].counts
    OBVIOUS
  <2>2. c \in [Subs -> Int]
    BY <1>2, <1>15, <2>1, CounterTypes DEF GroupRecs
  <2>3. PICK t : t = [w.grp[g].slots EXCEPT ![p] = None]
    OBVIOUS
  <2>4. t \in [Players -> {None} \cup Subs]
    BY <1>2, <2>3 DEF GroupRecs
  <2>5. PICK r : r = [w.grp[g] EXCEPT !.slots = t, !.counts = c]
    OBVIOUS
  <2>6. /\ r \in GroupRecs
        /\ r.leader = w.grp[g].leader /\ r.invitees = w.grp[g].invitees /\ r.raid = w.grp[g].raid
        /\ r.id = w.grp[g].id /\ r.slots = t /\ r.counts = c
    BY <1>2, <2>2, <2>4, <2>5 DEF GroupRecs
  <2>7. PICK u : u = TakeOut(w, g, p)
    OBVIOUS
  <2>8. u.grp = [w.grp EXCEPT ![g] = r]
    <3>1. u = [v EXCEPT !.grp[g].slots[p] = None,
                        !.grp[g].counts = IF w.grp[g].raid THEN SubGroupCounterDecrease(@, s) ELSE @]
      BY <1>13, <1>15, <2>7
    <3>2. u.grp = [v.grp EXCEPT ![g].slots[p] = None,
                                ![g].counts = IF w.grp[g].raid THEN SubGroupCounterDecrease(@, s) ELSE @]
      BY <1>12, <3>1 DEF Worlds
    <3>3. v.grp \in [Objects -> {None} \cup GroupRecs] /\ v.grp[g] = w.grp[g]
      BY <1>12, WorldParts DEF Groupings
    <3>4. [w.grp[g] EXCEPT !.slots[p] = None,
                           !.counts = IF w.grp[g].raid THEN SubGroupCounterDecrease(@, s) ELSE @] = r
      BY <1>2, <2>1, <2>3, <2>5 DEF GroupRecs
    <3>5. u.grp = [v.grp EXCEPT ![g] = [v.grp[g] EXCEPT !.slots[p] = None,
                           !.counts = IF w.grp[g].raid THEN SubGroupCounterDecrease(@, s) ELSE @]]
      BY <1>2, <3>2, <3>3 DEF GroupRecs
    <3> QED BY <1>12, <3>3, <3>4, <3>5
  <2>9. u = [grp |-> u.grp, link |-> links, orig |-> origs, invite |-> w.invite,
             store |-> w.store, next |-> w.next, queue |-> Append(w.queue, o)]
    <3>1. u = [v EXCEPT !.grp = u.grp]
      BY <1>12, <1>13, <1>15, <2>7 DEF Worlds
    <3> QED BY <1>12, <3>1 DEF Worlds
  <2>10. [w.grp EXCEPT ![g] = r] \in Groupings
    BY <2>6, WorldParts DEF Groupings
  <2>11. Append(w.queue, o) \in Seq(Statements)
    BY <1>10, WorldParts
  <2>12. u \in Worlds
    BY <1>5, <2>8, <2>9, <2>10, <2>11, WorldParts DEF Worlds
  <2>13. \E y \in GroupRecs :
          /\ u.grp = [w.grp EXCEPT ![g] = y]
          /\ y.leader = w.grp[g].leader /\ y.invitees = w.grp[g].invitees /\ y.raid = w.grp[g].raid
          /\ y.id = w.grp[g].id
          /\ y.slots = [w.grp[g].slots EXCEPT ![p] = None]
          /\ y.counts = IF w.grp[g].slots[p] # None /\ y.raid
                        THEN SubGroupCounterDecrease(w.grp[g].counts, w.grp[g].slots[p]) ELSE w.grp[g].counts
    BY <1>3, <1>15, <2>1, <2>3, <2>6, <2>8
  <2>14. /\ u.invite = w.invite /\ u.store = w.store /\ u.next = w.next
         /\ u.link = links /\ u.orig = origs /\ u.queue = Append(w.queue, o)
    BY <2>9
  <2> QED BY <1>4, <1>9, <2>7, <2>12, <2>13, <2>14 DEF Removed
<1> QED BY <1>14, <1>15

-----------------------------------------------------------------------------
\* A group has an identifier when it has members; until then it is a party.
Formed(w) ==
    \A g \in Objects : w.grp[g] # None =>
        /\ w.grp[g].id # None <=> IsCreated(w, g)
        /\ w.grp[g].id = None => ~w.grp[g].raid

\* GroupDbStore holds exactly the groups with an identifier, and next is the
\* first identifier that is free.
Numbered(w) ==
    /\ \A g \in Objects : w.grp[g] # None /\ w.grp[g].id # None => w.store[w.grp[g].id] = g
    /\ \A i \in Ids : w.store[i] # None => w.grp[w.store[i]] # None /\ w.grp[w.store[i]].id = i
    /\ w.store[w.next] = None
    /\ \A i \in Ids : i < w.next => w.store[i] # None

\* Nobody has invited himself yet.
NoSelf == "self invitation" \notin faults

\* A player points to groups that exist: created ones, or one that holds his
\* invitation, if nobody has invited himself.
Pointed(w) ==
    \A p \in Players :
        /\ w.link[p] # None => w.grp[w.link[p]] # None /\ w.grp[w.link[p]].id # None
        /\ w.orig[p] # None => w.grp[w.orig[p]] # None /\ w.grp[w.orig[p]].id # None
        /\ NoSelf /\ w.invite[p] # None => w.grp[w.invite[p]] # None /\ p \in w.grp[w.invite[p]].invitees

Well(w) == w \in Worlds /\ Formed(w) /\ Numbered(w) /\ Pointed(w)

\* u is w after a change of the group g that leaves it its identifier.
Edited(w, u, g) ==
    /\ u \in Worlds /\ w.grp[g] # None /\ u.grp[g] # None
    /\ \A h \in Objects \ {g} : u.grp[h] = w.grp[h]
    /\ u.grp[g].id = w.grp[g].id
    /\ IsCreated(u, g) <=> w.grp[g].id # None
    /\ w.grp[g].id = None => ~u.grp[g].raid
    /\ u.store = w.store /\ u.next = w.next
    /\ \A p \in Players :
          /\ u.link[p] \in {None, w.link[p]} \/ (u.link[p] = g /\ w.grp[g].id # None)
          /\ u.orig[p] \in {None, w.orig[p]} \/ (u.orig[p] = g /\ w.grp[g].id # None)
          /\ NoSelf => \/ u.invite[p] = None
                       \/ u.invite[p] = g /\ p \in u.grp[g].invitees
                       \/ u.invite[p] = w.invite[p] /\ w.invite[p] # g

\* A change of one group that leaves it its identifier keeps the world well
\* formed.
LEMMA EditedWell ==
    ASSUME NEW w, Well(w), NEW u, NEW g \in Objects, Edited(w, u, g)
    PROVE  Well(u)
<1>1. /\ u \in Worlds /\ w.grp[g] # None /\ u.grp[g] # None
      /\ \A h \in Objects \ {g} : u.grp[h] = w.grp[h]
      /\ u.grp[g].id = w.grp[g].id
      /\ IsCreated(u, g) <=> w.grp[g].id # None
      /\ w.grp[g].id = None => ~u.grp[g].raid
      /\ u.store = w.store /\ u.next = w.next
      /\ \A p \in Players :
            /\ u.link[p] \in {None, w.link[p]} \/ (u.link[p] = g /\ w.grp[g].id # None)
            /\ u.orig[p] \in {None, w.orig[p]} \/ (u.orig[p] = g /\ w.grp[g].id # None)
            /\ NoSelf => \/ u.invite[p] = None
                         \/ u.invite[p] = g /\ p \in u.grp[g].invitees
                         \/ u.invite[p] = w.invite[p] /\ w.invite[p] # g
  BY DEF Edited
<1>2. w \in Worlds /\ Formed(w) /\ Numbered(w) /\ Pointed(w)
  BY DEF Well
<1>3. Formed(u)
  <2> SUFFICES ASSUME NEW h \in Objects, u.grp[h] # None
               PROVE  /\ u.grp[h].id # None <=> IsCreated(u, h)
                      /\ u.grp[h].id = None => ~u.grp[h].raid
    BY DEF Formed
  <2>1. CASE h = g
    BY <1>1, <2>1
  <2>2. CASE h # g
    BY <1>1, <1>2, <2>2 DEF Formed, IsCreated, Members
  <2> QED BY <2>1, <2>2
<1>4. Numbered(u)
  <2>1. \A h \in Objects : u.grp[h] # None <=> w.grp[h] # None
    BY <1>1
  <2>2. \A h \in Objects : u.grp[h] # None => u.grp[h].id = w.grp[h].id
    BY <1>1
  <2>3. \A i \in Ids : w.store[i] # None => w.store[i] \in Objects
    BY <1>2, WorldParts
  <2> QED BY <1>1, <1>2, <2>1, <2>2, <2>3 DEF Numbered
<1>5. Pointed(u)
  <2> SUFFICES ASSUME NEW p \in Players
               PROVE  /\ u.link[p] # None => u.grp[u.link[p]] # None /\ u.grp[u.link[p]].id # None
                      /\ u.orig[p] # None => u.grp[u.orig[p]] # None /\ u.grp[u.orig[p]].id # None
                      /\ NoSelf /\ u.invite[p] # None => u.grp[u.invite[p]] # None /\ p \in u.grp[u.invite[p]].invitees
    BY DEF Pointed
  <2>1. /\ w.link[p] # None => w.link[p] \in Objects
        /\ w.orig[p] # None => w.orig[p] \in Objects
        /\ w.invite[p] # None => w.invite[p] \in Objects
    BY <1>2, WorldParts DEF Pointers
  <2>2. /\ w.link[p] # None => w.grp[w.link[p]] # None /\ w.grp[w.link[p]].id # None
        /\ w.orig[p] # None => w.grp[w.orig[p]] # None /\ w.grp[w.orig[p]].id # None
        /\ NoSelf /\ w.invite[p] # None => w.grp[w.invite[p]] # None /\ p \in w.grp[w.invite[p]].invitees
    BY <1>2 DEF Pointed
  <2>3. u.link[p] # None => u.grp[u.link[p]] # None /\ u.grp[u.link[p]].id # None
    BY <1>1, <2>1, <2>2
  <2>4. u.orig[p] # None => u.grp[u.orig[p]] # None /\ u.grp[u.orig[p]].id # None
    BY <1>1, <2>1, <2>2
  <2>5. NoSelf /\ u.invite[p] # None => u.grp[u.invite[p]] # None /\ p \in u.grp[u.invite[p]].invitees
    BY <1>1, <2>1, <2>2
  <2> QED BY <2>3, <2>4, <2>5
<1> QED BY <1>1, <1>3, <1>4, <1>5 DEF Well

\* So does the end of a group: its identifier is free again, and nothing
\* points to it.
LEMMA GoneWell ==
    ASSUME NEW w, Well(w), NEW u, NEW g \in Objects, w.grp[g] # None, Gone(w, u, g)
    PROVE  Well(u)
<1>1. /\ u \in Worlds
      /\ u.grp = [w.grp EXCEPT ![g] = None]
      /\ \A p \in Players : u.link[p] \in {None, w.link[p]} \ {g} /\ u.orig[p] \in {None, w.orig[p]} \ {g}
      /\ u.invite = Uninvited(w, g)
      /\ w.grp[g].id = None => u.store = w.store /\ u.next = w.next
      /\ w.grp[g].id # None =>
          /\ u.store = [w.store EXCEPT ![w.grp[g].id] = None]
          /\ u.next = IF w.grp[g].id < w.next THEN w.grp[g].id ELSE w.next
  BY DEF Gone
<1>2. w \in Worlds /\ Formed(w) /\ Numbered(w) /\ Pointed(w)
  BY DEF Well
<1>3. u.grp[g] = None /\ \A h \in Objects \ {g} : u.grp[h] = w.grp[h]
  BY <1>1, <1>2, WorldParts DEF Groupings
<1>4. Formed(u)
  BY <1>2, <1>3 DEF Formed, IsCreated, Members
<1>5. Numbered(u)
  <2>1. \A i \in Ids : w.store[i] # None => w.store[i] \in Objects /\ w.grp[w.store[i]] # None /\ w.grp[w.store[i]].id = i
    BY <1>2, WorldParts DEF Numbered
  <2>2. CASE w.grp[g].id = None
    <3>1. \A i \in Ids : w.store[i] # g
      BY <2>1, <2>2, Nulls
    <3> QED BY <1>1, <1>2, <1>3, <2>1, <2>2, <3>1 DEF Numbered
  <2>3. CASE w.grp[g].id # None
    <3>1. PICK j \in Ids : j = w.grp[g].id
      BY <1>2, <2>3, GroupAt DEF GroupRecs
    <3>2. /\ u.store = [w.store EXCEPT ![j] = None] /\ u.next = IF j < w.next THEN j ELSE w.next
          /\ w.store \in [Ids -> {None} \cup Objects] /\ w.next \in Ids
      BY <1>1, <1>2, <2>3, <3>1, WorldParts
    <3>3. u.store[j] = None /\ \A i \in Ids \ {j} : u.store[i] = w.store[i]
      BY <3>2
    <3>4. w.store[j] = g
      BY <1>2, <2>3, <3>1 DEF Numbered
    <3>5. \A i \in Ids \ {j} : w.store[i] # g
      BY <2>1, <3>1, <3>4, Nulls
    <3>6. \A h \in Objects : u.grp[h] # None /\ u.grp[h].id # None => u.store[u.grp[h].id] = h
      <4> SUFFICES ASSUME NEW h \in Objects, u.grp[h] # None, u.grp[h].id # None PROVE u.store[u.grp[h].id] = h
        OBVIOUS
      <4>1. h # g /\ w.grp[h] # None /\ w.grp[h].id # None /\ w.grp[h].id = u.grp[h].id
        BY <1>3
      <4>2. w.store[w.grp[h].id] = h
        BY <1>2, <4>1 DEF Numbered
      <4>3. w.grp[h].id \in Ids
        BY <1>2, <4>1, GroupAt DEF GroupRecs
      <4> QED BY <3>3, <3>4, <4>1, <4>2, <4>3
    <3>7. \A i \in Ids : u.store[i] # None => u.grp[u.store[i]] # None /\ u.grp[u.store[i]].id = i
      BY <1>3, <2>1, <3>3, <3>5
    <3>8. u.store[u.next] = None
      BY <1>2, <3>2, <3>3 DEF Numbered
    <3>9. \A i \in Ids : i < u.next => u.store[i] # None
      <4>1. \A i \in Ids : i < w.next => w.store[i] # None
        BY <1>2 DEF Numbered
      <4>2. j \in Nat /\ w.next \in Nat /\ \A i \in Ids : i \in Nat
        BY <3>2, Nulls
      <4>3. u.next <= w.next /\ u.next <= j /\ u.next \in Nat
        BY <3>2, <4>2
      <4>4. \A i \in Ids : i < u.next => i < w.next /\ i # j
        BY <4>2, <4>3
      <4> QED BY <3>3, <4>1, <4>4
    <3> QED BY <3>6, <3>7, <3>8, <3>9 DEF Numbered
  <2> QED BY <2>2, <2>3
<1>6. Pointed(u)
  <2> SUFFICES ASSUME NEW p \in Players
               PROVE  /\ u.link[p] # None => u.grp[u.link[p]] # None /\ u.grp[u.link[p]].id # None
                      /\ u.orig[p] # None => u.grp[u.orig[p]] # None /\ u.grp[u.orig[p]].id # None
                      /\ NoSelf /\ u.invite[p] # None => u.grp[u.invite[p]] # None /\ p \in u.grp[u.invite[p]].invitees
    BY DEF Pointed
  <2>1. /\ w.link[p] # None => w.link[p] \in Objects
        /\ w.orig[p] # None => w.orig[p] \in Objects
        /\ w.invite[p] # None => w.invite[p] \in Objects
    BY <1>2, WorldParts DEF Pointers
  <2>2. /\ w.link[p] # None => w.grp[w.link[p]] # None /\ w.grp[w.link[p]].id # None
        /\ w.orig[p] # None => w.grp[w.orig[p]] # None /\ w.grp[w.orig[p]].id # None
        /\ NoSelf /\ w.invite[p] # None => w.grp[w.invite[p]] # None /\ p \in w.grp[w.invite[p]].invitees
    BY <1>2 DEF Pointed
  <2>3. u.invite[p] = IF p \in w.grp[g].invitees THEN None ELSE w.invite[p]
    BY <1>1 DEF Uninvited
  <2>4. u.link[p] # None => u.grp[u.link[p]] # None /\ u.grp[u.link[p]].id # None
    BY <1>1, <1>3, <2>1, <2>2
  <2>5. u.orig[p] # None => u.grp[u.orig[p]] # None /\ u.grp[u.orig[p]].id # None
    BY <1>1, <1>3, <2>1, <2>2
  <2>6. NoSelf /\ u.invite[p] # None => u.grp[u.invite[p]] # None /\ p \in u.grp[u.invite[p]].invitees
    BY <1>3, <2>1, <2>2, <2>3
  <2> QED BY <2>4, <2>5, <2>6
<1> QED BY <1>1, <1>4, <1>5, <1>6 DEF Well

-----------------------------------------------------------------------------
\* A non-empty set of natural numbers has a least element.
LEMMA LeastNatural ==
    ASSUME NEW T, T \subseteq Nat, T # {}
    PROVE  \E x \in T : \A y \in T : x <= y
<1>1. IsWellFoundedOn(OpToRel(<, Nat), Nat)
  BY NatLessThanWellFounded
<1>2. PICK x \in T : \A y \in T : ~(<<y, x>> \in OpToRel(<, Nat))
  BY <1>1, WFMin
<1>3. ASSUME NEW y \in T PROVE x <= y
  <2>1. ~(<<y, x>> \in OpToRel(<, Nat))
    BY <1>2
  <2> QED BY <2>1 DEF OpToRel
<1> QED BY <1>2, <1>3

\* The least of some natural numbers is one of them.
LEMMA MinFacts ==
    ASSUME NEW S, S \subseteq Nat, S # {}
    PROVE  Min(S) \in S /\ \A y \in S : Min(S) <= y
BY LeastNatural DEF Min

\* A group that has no identifier leaves one over after the next one.
LEMMA NextIdFree ==
    ASSUME NEW w, Well(w), NEW g \in Objects, w.grp[g] # None, w.grp[g].id = None
    PROVE  /\ NextStoreId(w) \in Ids /\ NextStoreId(w) > w.next /\ w.store[NextStoreId(w)] = None
           /\ \A i \in Ids : i < NextStoreId(w) /\ i # w.next => w.store[i] # None
<1>1. w \in Worlds /\ Numbered(w)
  BY DEF Well
<1>2. w.next \in Ids /\ w.store \in [Ids -> {None} \cup Objects]
  BY <1>1, WorldParts
<1>3. MaxGroups \in Nat \ {0}
  BY GroupsAssumption
<1>4. \A i \in Ids : w.store[i] # None => w.store[i] \in Objects \ {g} /\ w.grp[w.store[i]].id = i
  BY <1>1, <1>2, Nulls DEF Numbered
<1>5. \E i \in Ids : i > w.next /\ w.store[i] = None
  <2> SUFFICES ASSUME \A i \in Ids : i > w.next => w.store[i] # None PROVE FALSE
    BY <1>2
  <2>1. \A i \in Ids \ {w.next} : w.store[i] # None
    <3>1. w.next \in Nat /\ \A i \in Ids : i \in Nat
      BY <1>2, Nulls
    <3>2. \A i \in Ids : i < w.next => w.store[i] # None
      BY <1>1 DEF Numbered
    <3>3. \A i \in Ids \ {w.next} : i < w.next \/ i > w.next
      BY <3>1
    <3> QED BY <3>2, <3>3
  <2> DEFINE f == [i \in Ids \ {w.next} |-> w.store[i]]
  <2>2. f \in [Ids \ {w.next} -> Objects \ {g}]
    BY <1>4, <2>1
  <2>3. IsFiniteSet(Ids \ {w.next}) /\ Cardinality(Ids \ {w.next}) = MaxGroups
    <3>1. MaxGroups + 1 \in Int
      BY <1>3
    <3>2. IsFiniteSet(Ids) /\ Cardinality(Ids) = MaxGroups + 1
      BY <1>3, <3>1, FS_Interval DEF Ids
    <3>3. PICK k \in Ids : k = w.next
      BY <1>2
    <3>4. IsFiniteSet(Ids \ {k}) /\ Cardinality(Ids \ {k}) = Cardinality(Ids) - 1
      BY <3>2, FS_RemoveElement
    <3> QED BY <1>3, <3>2, <3>3, <3>4
  <2>4. IsFiniteSet(Objects \ {g}) /\ Cardinality(Objects \ {g}) = MaxGroups - 1
    <3>1. IsFiniteSet(Objects) /\ Cardinality(Objects) = MaxGroups
      BY <1>3, FS_Interval DEF Objects
    <3> QED BY <1>3, <3>1, FS_RemoveElement
  <2>5. Cardinality(Objects \ {g}) < Cardinality(Ids \ {w.next})
    BY <1>3, <2>3, <2>4
  <2> HIDE DEF f
  <2>6. PICK x, y \in Ids \ {w.next} : x # y /\ f[x] = f[y]
    BY <2>2, <2>3, <2>4, <2>5, FS_PigeonHole
  <2>7. w.store[x] = w.store[y]
    BY <2>6 DEF f
  <2> QED BY <1>4, <2>1, <2>6, <2>7
<1>6. PICK S : S = {i \in Ids : i > w.next /\ w.store[i] = None} \cup {MaxGroups + 2}
  OBVIOUS
<1>7. S \subseteq Nat /\ S # {}
  <2>1. MaxGroups + 2 \in Nat /\ MaxGroups + 2 \in S
    BY <1>3, <1>6
  <2>2. \A i \in Ids : i \in Nat
    BY Nulls
  <2>3. \A i \in S : i \in Nat
    BY <1>6, <2>1, <2>2
  <2> QED BY <2>1, <2>3
<1>8. Min(S) \in S /\ \A y \in S : Min(S) <= y
  BY <1>7, MinFacts
<1>9. PICK m \in S : m = Min(S)
  BY <1>8
<1>10. m = NextStoreId(w)
  BY <1>6, <1>9 DEF NextStoreId
<1>11. PICK j \in Ids : j > w.next /\ w.store[j] = None
  BY <1>5
<1>12. m <= j /\ m \in Nat /\ j < MaxGroups + 2
  BY <1>3, <1>6, <1>7, <1>8, <1>9, <1>11 DEF Ids
<1>13. m \in Ids /\ m > w.next /\ w.store[m] = None
  BY <1>3, <1>6, <1>12, Nulls
<1>14. ASSUME NEW i \in Ids, i < m, i # w.next
       PROVE  w.store[i] # None
  <2>1. i \in Nat /\ w.next \in Nat
    BY <1>2, Nulls
  <2>2. CASE i < w.next
    BY <1>1, <2>2 DEF Numbered
  <2>3. CASE i > w.next
    <3>1. i \notin S
      BY <1>8, <1>9, <1>12, <1>14, <2>1
    <3> QED BY <1>6, <2>3, <3>1
  <2> QED BY <1>14, <2>1, <2>2, <2>3
<1> QED BY <1>10, <1>13, <1>14

\* u is w after p has been invited to g.
InviteAdded(w, u, g, p) ==
    /\ Well(u) /\ u.invite = [w.invite EXCEPT ![p] = g]
    /\ u.grp[g].invitees = w.grp[g].invitees \cup {p}
    /\ u.grp[g] # None
    /\ u.grp[g].leader = w.grp[g].leader /\ u.grp[g].slots = w.grp[g].slots /\ u.grp[g].id = w.grp[g].id
    /\ \A h \in Objects \ {g} : u.grp[h] = w.grp[h]

\* An invitation leads to a well-formed world, with the player on the list
\* (AddInvite).
LEMMA AddInviteWell ==
    ASSUME NEW w, Well(w), NEW g \in Objects, w.grp[g] # None, NEW p \in Players,
           NEW u, u = AddInvite(w, g, p)
    PROVE  InviteAdded(w, u, g, p)
<1>1. w \in Worlds /\ Formed(w) /\ Pointed(w)
  BY DEF Well
<1>2. /\ u \in Worlds
      /\ u.grp = [w.grp EXCEPT ![g] = [w.grp[g] EXCEPT !.invitees = @ \cup {p}]]
      /\ u.invite = [w.invite EXCEPT ![p] = g]
      /\ u.link = w.link /\ u.orig = w.orig /\ u.store = w.store /\ u.next = w.next
  BY <1>1, AddInviteParts
<1>3. w.grp[g] \in GroupRecs
  BY <1>1, GroupAt
<1>4. PICK r : r = [w.grp[g] EXCEPT !.invitees = @ \cup {p}]
  OBVIOUS
<1>5. /\ r.invitees = w.grp[g].invitees \cup {p} /\ r.leader = w.grp[g].leader /\ r.slots = w.grp[g].slots
      /\ r.id = w.grp[g].id /\ r.raid = w.grp[g].raid /\ r \in GroupRecs
  BY <1>3, <1>4 DEF GroupRecs
<1>6. u.grp[g] = r /\ \A h \in Objects \ {g} : u.grp[h] = w.grp[h]
  BY <1>1, <1>2, <1>4, WorldParts DEF Groupings
<1>7. IsCreated(u, g) <=> w.grp[g].id # None
  BY <1>1, <1>5, <1>6 DEF Formed, IsCreated, Members
<1>8. w.grp[g].id = None => ~u.grp[g].raid
  BY <1>1, <1>5, <1>6 DEF Formed
<1>9. NoSelf => \A q \in Players : \/ u.invite[q] = None
                                   \/ u.invite[q] = g /\ q \in u.grp[g].invitees
                                   \/ u.invite[q] = w.invite[q] /\ w.invite[q] # g
  <2>1. NoSelf => \A q \in Players : w.invite[q] = g => q \in w.grp[g].invitees
    BY <1>1, Nulls DEF Pointed
  <2>2. \A q \in Players : u.invite[q] = IF q = p THEN g ELSE w.invite[q]
    BY <1>1, <1>2, WorldParts DEF Pointers
  <2> QED BY <1>5, <1>6, <2>1, <2>2
<1>10. u.grp[g] # None
  BY <1>5, <1>6, Nulls
<1>11. Edited(w, u, g)
  BY <1>2, <1>5, <1>6, <1>7, <1>8, <1>9, <1>10 DEF Edited
<1>12. Well(u)
  BY <1>11, EditedWell
<1> QED BY <1>2, <1>5, <1>6, <1>10, <1>12 DEF InviteAdded

\* u is w after the invitation of p to g has gone.
InviteRemoved(w, u, g, p) ==
    /\ Well(u) /\ u.invite = [w.invite EXCEPT ![p] = None]
    /\ u.grp[g].invitees = w.grp[g].invitees \ {p}
    /\ u.grp[g] # None
    /\ u.grp[g].leader = w.grp[g].leader /\ u.grp[g].slots = w.grp[g].slots /\ u.grp[g].id = w.grp[g].id
    /\ \A h \in Objects \ {g} : u.grp[h] = w.grp[h]
    /\ u.link = w.link /\ u.grp[g].raid = w.grp[g].raid

\* So does taking an invitation back (RemoveInvite).
LEMMA RemoveInviteWell ==
    ASSUME NEW w, Well(w), NEW g \in Objects, w.grp[g] # None, NEW p \in Players,
           NEW u, u = RemoveInvite(w, g, p)
    PROVE  InviteRemoved(w, u, g, p)
<1>1. w \in Worlds /\ Formed(w) /\ Pointed(w)
  BY DEF Well
<1>2. /\ u \in Worlds
      /\ u.grp = [w.grp EXCEPT ![g] = [w.grp[g] EXCEPT !.invitees = @ \ {p}]]
      /\ u.invite = [w.invite EXCEPT ![p] = None]
      /\ u.link = w.link /\ u.orig = w.orig /\ u.store = w.store /\ u.next = w.next
  BY <1>1, RemoveInviteParts
<1>3. w.grp[g] \in GroupRecs
  BY <1>1, GroupAt
<1>4. PICK r : r = [w.grp[g] EXCEPT !.invitees = @ \ {p}]
  OBVIOUS
<1>5. /\ r.invitees = w.grp[g].invitees \ {p} /\ r.leader = w.grp[g].leader /\ r.slots = w.grp[g].slots
      /\ r.id = w.grp[g].id /\ r.raid = w.grp[g].raid /\ r \in GroupRecs
  BY <1>3, <1>4 DEF GroupRecs
<1>6. u.grp[g] = r /\ \A h \in Objects \ {g} : u.grp[h] = w.grp[h]
  BY <1>1, <1>2, <1>4, WorldParts DEF Groupings
<1>7. IsCreated(u, g) <=> w.grp[g].id # None
  BY <1>1, <1>5, <1>6 DEF Formed, IsCreated, Members
<1>8. w.grp[g].id = None => ~u.grp[g].raid
  BY <1>1, <1>5, <1>6 DEF Formed
<1>9. NoSelf => \A q \in Players : \/ u.invite[q] = None
                                   \/ u.invite[q] = g /\ q \in u.grp[g].invitees
                                   \/ u.invite[q] = w.invite[q] /\ w.invite[q] # g
  <2>1. NoSelf => \A q \in Players : w.invite[q] = g => q \in w.grp[g].invitees
    BY <1>1, Nulls DEF Pointed
  <2>2. \A q \in Players : u.invite[q] = IF q = p THEN None ELSE w.invite[q]
    BY <1>1, <1>2, WorldParts DEF Pointers
  <2> QED BY <1>5, <1>6, <2>1, <2>2
<1>10. u.grp[g] # None
  BY <1>5, <1>6, Nulls
<1>11. Edited(w, u, g)
  BY <1>2, <1>5, <1>6, <1>7, <1>8, <1>9, <1>10 DEF Edited
<1>12. Well(u)
  BY <1>11, EditedWell
<1> QED BY <1>2, <1>5, <1>6, <1>10, <1>12 DEF InviteRemoved

\* What p's place in g changes.
Joins(w, u, g, p, s) ==
    /\ Well(u) /\ u.invite = [w.invite EXCEPT ![p] = None]
    /\ u.grp[g] # None /\ u.grp[g].invitees = w.grp[g].invitees
    /\ u.grp[g].leader = w.grp[g].leader /\ u.grp[g].id = w.grp[g].id
    /\ u.grp[g].slots = [w.grp[g].slots EXCEPT ![p] = s]
    /\ \A h \in Objects \ {g} : u.grp[h] = w.grp[h]

\* So does a new member (AddMember).
LEMMA JoinedWell ==
    ASSUME NEW w, Well(w), NEW g \in Objects, w.grp[g] # None, w.grp[g].id # None, NEW p \in Players,
           NEW s, NEW u, Joined(w, u, g, p, s)
    PROVE  Joins(w, u, g, p, s)
<1>1. w \in Worlds /\ Formed(w) /\ Pointed(w)
  BY DEF Well
<1>2. /\ u \in Worlds /\ s \in Subs
      /\ u.invite = [w.invite EXCEPT ![p] = None]
      /\ u.link = [w.link EXCEPT ![p] = IF @ = None THEN g ELSE @]
      /\ u.orig = [w.orig EXCEPT ![p] = IF w.link[p] = None THEN @ ELSE g]
      /\ u.store = w.store /\ u.next = w.next
  BY DEF Joined
<1>3. w.grp[g] \in GroupRecs
  BY <1>1, GroupAt
<1>4. PICK r \in GroupRecs :
          /\ u.grp = [w.grp EXCEPT ![g] = r]
          /\ r.leader = w.grp[g].leader /\ r.invitees = w.grp[g].invitees /\ r.raid = w.grp[g].raid
          /\ r.id = w.grp[g].id
          /\ r.slots = [w.grp[g].slots EXCEPT ![p] = s]
  BY DEF Joined
<1>6. u.grp[g] = r /\ \A h \in Objects \ {g} : u.grp[h] = w.grp[h]
  BY <1>1, <1>4, WorldParts DEF Groupings
<1>7. IsCreated(u, g)
  <2>1. r.slots[p] = s
    BY <1>3, <1>4 DEF GroupRecs
  <2>2. r.slots[p] # None
    BY <1>2, <2>1, Nulls
  <2> QED BY <1>6, <2>2 DEF IsCreated, Members
<1>9. NoSelf => \A q \in Players : \/ u.invite[q] = None
                                   \/ u.invite[q] = g /\ q \in u.grp[g].invitees
                                   \/ u.invite[q] = w.invite[q] /\ w.invite[q] # g
  <2>1. NoSelf => \A q \in Players : w.invite[q] = g => q \in w.grp[g].invitees
    BY <1>1, Nulls DEF Pointed
  <2>2. \A q \in Players : u.invite[q] = IF q = p THEN None ELSE w.invite[q]
    BY <1>1, <1>2, WorldParts DEF Pointers
  <2> QED BY <1>4, <1>6, <2>1, <2>2
<1>10. u.grp[g] # None
  BY <1>4, <1>6, Nulls
<1>11. \A q \in Players : (u.link[q] = w.link[q] \/ u.link[q] = g) /\ (u.orig[q] = w.orig[q] \/ u.orig[q] = g)
  BY <1>1, <1>2, WorldParts DEF Pointers
<1>12. Edited(w, u, g)
  BY <1>2, <1>4, <1>6, <1>7, <1>9, <1>10, <1>11 DEF Edited
<1>13. Well(u)
  BY <1>12, EditedWell
<1> QED BY <1>2, <1>4, <1>6, <1>10, <1>13 DEF Joins

\* So does a new leader (ChangeLeader).
LEMMA LedByWell ==
    ASSUME NEW w, Well(w), NEW g \in Objects, w.grp[g] # None, w.grp[g].id # None, NEW p \in Players,
           NEW u, LedBy(w, u, g, p)
    PROVE  /\ Well(u) /\ u.invite = w.invite /\ u.link = w.link /\ u.orig = w.orig
           /\ u.grp[g] # None /\ u.grp[g].invitees = w.grp[g].invitees
           /\ u.grp[g].leader = p /\ u.grp[g].id = w.grp[g].id
           /\ u.grp[g].slots = w.grp[g].slots
           /\ \A h \in Objects \ {g} : u.grp[h] = w.grp[h]
<1>1. w \in Worlds /\ Formed(w) /\ Pointed(w)
  BY DEF Well
<1>2. /\ u \in Worlds
      /\ u.invite = w.invite /\ u.link = w.link /\ u.orig = w.orig /\ u.store = w.store /\ u.next = w.next
  BY DEF LedBy
<1>4. PICK r \in GroupRecs :
          /\ u.grp = [w.grp EXCEPT ![g] = r]
          /\ r.leader = p /\ r.invitees = w.grp[g].invitees /\ r.raid = w.grp[g].raid
          /\ r.slots = w.grp[g].slots /\ r.id = w.grp[g].id
  BY DEF LedBy
<1>6. u.grp[g] = r /\ \A h \in Objects \ {g} : u.grp[h] = w.grp[h]
  BY <1>1, <1>4, WorldParts DEF Groupings
<1>7. IsCreated(u, g)
  BY <1>1, <1>4, <1>6 DEF Formed, IsCreated, Members
<1>9. NoSelf => \A q \in Players : \/ u.invite[q] = None
                                   \/ u.invite[q] = g /\ q \in u.grp[g].invitees
                                   \/ u.invite[q] = w.invite[q] /\ w.invite[q] # g
  BY <1>1, <1>2, <1>4, <1>6, Nulls DEF Pointed
<1>10. u.grp[g] # None
  BY <1>4, <1>6, Nulls
<1>12. Edited(w, u, g)
  BY <1>2, <1>4, <1>6, <1>7, <1>9, <1>10 DEF Edited
<1>13. Well(u)
  BY <1>12, EditedWell
<1> QED BY <1>2, <1>4, <1>6, <1>10, <1>13

\* So does the departure of a member from a group of more than two
\* (RemoveMember).
LEMMA RemovedWell ==
    ASSUME NEW w, Well(w), NEW g \in Objects, w.grp[g] # None, w.grp[g].id # None, NEW p \in Players,
           Cardinality(Members(w, g)) > 2,
           NEW u, Removed(w, u, g, p)
    PROVE  /\ Well(u) /\ u.invite = w.invite
           /\ u.grp[g] # None /\ u.grp[g].invitees = w.grp[g].invitees
           /\ u.grp[g].leader = w.grp[g].leader /\ u.grp[g].id = w.grp[g].id
           /\ u.grp[g].slots = [w.grp[g].slots EXCEPT ![p] = None]
           /\ \A h \in Objects \ {g} : u.grp[h] = w.grp[h]
<1>1. w \in Worlds /\ Formed(w) /\ Pointed(w)
  BY DEF Well
<1>2. /\ u \in Worlds
      /\ u.invite = w.invite /\ u.store = w.store /\ u.next = w.next
      /\ u.link = [w.link EXCEPT ![p] = IF (FindPlayer(p) /\ w.orig[p] # g) \/ @ = g THEN None ELSE @]
      /\ u.orig = [w.orig EXCEPT ![p] = IF @ = g THEN None ELSE @]
  BY DEF Removed
<1>3. w.grp[g] \in GroupRecs
  BY <1>1, GroupAt
<1>4. PICK r \in GroupRecs :
          /\ u.grp = [w.grp EXCEPT ![g] = r]
          /\ r.leader = w.grp[g].leader /\ r.invitees = w.grp[g].invitees /\ r.raid = w.grp[g].raid
          /\ r.slots = [w.grp[g].slots EXCEPT ![p] = None] /\ r.id = w.grp[g].id
  BY DEF Removed
<1>6. u.grp[g] = r /\ \A h \in Objects \ {g} : u.grp[h] = w.grp[h]
  BY <1>1, <1>4, WorldParts DEF Groupings
<1>7. IsCreated(u, g)
  <2>1. SUFFICES ASSUME ~IsCreated(u, g) PROVE FALSE
    OBVIOUS
  <2>2. \A q \in Players : r.slots[q] = None
    BY <1>6, <2>1 DEF IsCreated, Members
  <2>3. \A q \in Players \ {p} : w.grp[g].slots[q] = None
    BY <1>3, <1>4, <2>2 DEF GroupRecs
  <2>4. Members(w, g) \in SUBSET {p}
    BY <2>3 DEF Members
  <2>5. IsFiniteSet({p}) /\ Cardinality({p}) = 1
    BY FS_Singleton
  <2>6. PICK S : S = Members(w, g)
    OBVIOUS
  <2>7. Cardinality(S) \in Nat /\ Cardinality(S) <= 1
    BY <2>4, <2>5, <2>6, FS_Subset, FS_CardinalityType
  <2> QED BY <2>6, <2>7
<1>9. NoSelf => \A q \in Players : \/ u.invite[q] = None
                                   \/ u.invite[q] = g /\ q \in u.grp[g].invitees
                                   \/ u.invite[q] = w.invite[q] /\ w.invite[q] # g
  BY <1>1, <1>2, <1>4, <1>6, Nulls DEF Pointed
<1>10. u.grp[g] # None
  BY <1>4, <1>6, Nulls
<1>11. \A q \in Players : u.link[q] \in {None, w.link[q]} /\ u.orig[q] \in {None, w.orig[q]}
  BY <1>1, <1>2, WorldParts DEF Pointers
<1>12. Edited(w, u, g)
  BY <1>2, <1>4, <1>6, <1>7, <1>9, <1>10, <1>11 DEF Edited
<1>13. Well(u)
  BY <1>12, EditedWell
<1> QED BY <1>2, <1>4, <1>6, <1>10, <1>13

\* u is w after g has been created.
Created(w, u, g) ==
    /\ Well(u) /\ u.invite = [w.invite EXCEPT ![w.grp[g].leader] = None]
    /\ u.grp[g] # None /\ u.grp[g].invitees = w.grp[g].invitees
    /\ u.grp[g].leader = w.grp[g].leader /\ u.grp[g].id # None
    /\ u.grp[g].slots[w.grp[g].leader] # None
    /\ \A h \in Objects \ {g} : u.grp[h] = w.grp[h]

\* So does the creation of a group, whose identifier was free and whose first
\* member is its leader (Create).
LEMMA CreateWell ==
    ASSUME NEW w, Well(w), NEW g \in Objects, w.grp[g] # None, w.grp[g].id = None,
           NEW u, u = Create(w, g)
    PROVE  Created(w, u, g)
<1>1. w \in Worlds /\ Formed(w) /\ Numbered(w) /\ Pointed(w)
  BY DEF Well
<1>2. /\ NextStoreId(w) \in Ids /\ NextStoreId(w) > w.next /\ w.store[NextStoreId(w)] = None
      /\ \A i \in Ids : i < NextStoreId(w) /\ i # w.next => w.store[i] # None
  BY NextIdFree
<1>3. PICK v : Numbering(w, v, g) /\ u = AddMember(v, g, w.grp[g].leader)
  BY <1>1, <1>2, CreateNumbers
<1>4. PICK y \in GroupRecs :
          /\ v.grp = [w.grp EXCEPT ![g] = y]
          /\ y.leader = w.grp[g].leader /\ y.invitees = w.grp[g].invitees /\ y.raid = w.grp[g].raid
          /\ y.slots = w.grp[g].slots /\ y.id = w.next
  BY <1>3 DEF Numbering
<1>5. /\ v \in Worlds
      /\ v.invite = w.invite /\ v.link = w.link /\ v.orig = w.orig
      /\ v.store = [w.store EXCEPT ![w.next] = g] /\ v.next = NextStoreId(w)
  BY <1>3 DEF Numbering
<1>6. v.grp[g] = y /\ \A h \in Objects \ {g} : v.grp[h] = w.grp[h]
  BY <1>1, <1>4, WorldParts DEF Groupings
<1>7. w.next \in Ids /\ w.grp[g] \in GroupRecs /\ w.grp[g].leader \in Players
  BY <1>1, WorldParts, GroupAt DEF GroupRecs
<1>8. PICK l \in Players : l = w.grp[g].leader
  BY <1>7
<1>9. Joined(v, u, g, l, 0)
  <2>1. v.grp[g] # None /\ v.grp[g].id # None /\ ~v.grp[g].raid
    BY <1>1, <1>4, <1>6, <1>7, Nulls DEF Formed
  <2>2. FreeSub(v, g) = 0
    BY <1>5, <2>1, AddMemberJoins
  <2>3. FreeSub(v, g) \in Subs => Joined(v, AddMember(v, g, l), g, l, FreeSub(v, g))
    BY <1>5, <2>1, AddMemberJoins
  <2>4. Joined(v, AddMember(v, g, l), g, l, 0)
    BY <2>2, <2>3, Nulls
  <2> QED BY <1>3, <1>8, <2>4
<1>10. PICK r \in GroupRecs :
          /\ u.grp = [v.grp EXCEPT ![g] = r]
          /\ r.leader = y.leader /\ r.invitees = y.invitees /\ r.raid = y.raid
          /\ r.id = y.id /\ r.slots = [y.slots EXCEPT ![l] = 0]
  BY <1>6, <1>9 DEF Joined
<1>11. /\ u \in Worlds
       /\ u.invite = [w.invite EXCEPT ![l] = None]
       /\ u.link = [w.link EXCEPT ![l] = IF @ = None THEN g ELSE @]
       /\ u.orig = [w.orig EXCEPT ![l] = IF w.link[l] = None THEN @ ELSE g]
       /\ u.store = [w.store EXCEPT ![w.next] = g] /\ u.next = NextStoreId(w)
  BY <1>5, <1>9 DEF Joined
<1>12. u.grp[g] = r /\ \A h \in Objects \ {g} : u.grp[h] = w.grp[h]
  BY <1>5, <1>6, <1>10, WorldParts DEF Groupings
<1>13. u.grp[g] # None /\ r.id = w.next /\ r.id # None
  BY <1>4, <1>7, <1>10, <1>12, Nulls
<1>14. r.slots[l] # None
  <2>1. r.slots[l] = 0
    BY <1>4, <1>10 DEF GroupRecs
  <2> QED BY <2>1, Nulls
<1>15. Formed(u)
  <2> SUFFICES ASSUME NEW h \in Objects, u.grp[h] # None
               PROVE  /\ u.grp[h].id # None <=> IsCreated(u, h)
                      /\ u.grp[h].id = None => ~u.grp[h].raid
    BY DEF Formed
  <2>1. CASE h = g
    BY <1>12, <1>13, <1>14, <2>1 DEF IsCreated, Members
  <2>2. CASE h # g
    BY <1>1, <1>12, <2>2 DEF Formed, IsCreated, Members
  <2> QED BY <2>1, <2>2
<1>16. Numbered(u)
  <2>1. w.store \in [Ids -> {None} \cup Objects] /\ w.store[w.next] = None
    BY <1>1, WorldParts DEF Numbered
  <2>2. u.store[w.next] = g /\ \A i \in Ids \ {w.next} : u.store[i] = w.store[i]
    BY <1>7, <1>11, <2>1
  <2>3. \A h \in Objects : u.grp[h] # None /\ u.grp[h].id # None => u.store[u.grp[h].id] = h
    <3> SUFFICES ASSUME NEW h \in Objects, u.grp[h] # None, u.grp[h].id # None PROVE u.store[u.grp[h].id] = h
      OBVIOUS
    <3>1. CASE h = g
      BY <1>12, <1>13, <2>2, <3>1
    <3>2. CASE h # g
      <4>1. w.grp[h] # None /\ w.grp[h].id # None /\ w.grp[h].id = u.grp[h].id
        BY <1>12, <3>2
      <4>2. w.store[w.grp[h].id] = h
        BY <1>1, <4>1 DEF Numbered
      <4>3. w.grp[h].id \in Ids
        BY <1>1, <4>1, GroupAt DEF GroupRecs
      <4> QED BY <2>1, <2>2, <4>1, <4>2, <4>3, Nulls
    <3> QED BY <3>1, <3>2
  <2>4. \A i \in Ids : u.store[i] # None => u.grp[u.store[i]] # None /\ u.grp[u.store[i]].id = i
    <3> SUFFICES ASSUME NEW i \in Ids, u.store[i] # None
                 PROVE  u.grp[u.store[i]] # None /\ u.grp[u.store[i]].id = i
      OBVIOUS
    <3>1. CASE i = w.next
      BY <1>12, <1>13, <2>2, <3>1
    <3>2. CASE i # w.next
      <4>1. w.store[i] = u.store[i] /\ w.store[i] \in Objects
        BY <2>1, <2>2, <3>2
      <4>2. w.grp[w.store[i]] # None /\ w.grp[w.store[i]].id = i
        BY <1>1, <4>1, Nulls DEF Numbered
      <4>3. w.store[i] # g
        BY <4>2, Nulls
      <4> QED BY <1>12, <4>1, <4>2, <4>3
    <3> QED BY <3>1, <3>2
  <2>5. u.store[u.next] = None
    <3>1. PICK n \in Ids : n = NextStoreId(w)
      BY <1>2
    <3>2. n # w.next
      BY <1>2, <1>7, <3>1, Nulls
    <3> QED BY <1>2, <1>11, <2>2, <3>1, <3>2
  <2>6. \A i \in Ids : i < u.next => u.store[i] # None
    BY <1>2, <1>11, <2>2, Nulls
  <2> QED BY <2>3, <2>4, <2>5, <2>6 DEF Numbered
<1>17. Pointed(u)
  <2> SUFFICES ASSUME NEW p \in Players
               PROVE  /\ u.link[p] # None => u.grp[u.link[p]] # None /\ u.grp[u.link[p]].id # None
                      /\ u.orig[p] # None => u.grp[u.orig[p]] # None /\ u.grp[u.orig[p]].id # None
                      /\ NoSelf /\ u.invite[p] # None => u.grp[u.invite[p]] # None /\ p \in u.grp[u.invite[p]].invitees
    BY DEF Pointed
  <2>1. /\ w.link[p] # None => w.link[p] \in Objects
        /\ w.orig[p] # None => w.orig[p] \in Objects
        /\ w.invite[p] # None => w.invite[p] \in Objects
    BY <1>1, WorldParts DEF Pointers
  <2>2. /\ w.link[p] # None => w.grp[w.link[p]] # None /\ w.grp[w.link[p]].id # None
        /\ w.orig[p] # None => w.grp[w.orig[p]] # None /\ w.grp[w.orig[p]].id # None
        /\ NoSelf /\ w.invite[p] # None => w.grp[w.invite[p]] # None /\ p \in w.grp[w.invite[p]].invitees
    BY <1>1 DEF Pointed
  <2>3. /\ u.link[p] \in {w.link[p], g} /\ u.orig[p] \in {w.orig[p], g}
        /\ u.invite[p] \in {None, w.invite[p]}
    BY <1>1, <1>11, WorldParts DEF Pointers
  <2>4. u.link[p] # None => u.grp[u.link[p]] # None /\ u.grp[u.link[p]].id # None
    BY <1>12, <1>13, <2>1, <2>2, <2>3
  <2>5. u.orig[p] # None => u.grp[u.orig[p]] # None /\ u.grp[u.orig[p]].id # None
    BY <1>12, <1>13, <2>1, <2>2, <2>3
  <2>6. NoSelf /\ u.invite[p] # None => u.grp[u.invite[p]] # None /\ p \in u.grp[u.invite[p]].invitees
    BY <1>4, <1>10, <1>12, <1>13, <2>1, <2>2, <2>3
  <2> QED BY <2>4, <2>5, <2>6
<1> QED BY <1>4, <1>8, <1>10, <1>11, <1>12, <1>13, <1>14, <1>15, <1>16, <1>17 DEF Well, Created

-----------------------------------------------------------------------------
\* The players whom a group has invited know it, and are in the game; st is
\* where the players are.
Listed(w, st) ==
    \A g \in Objects : w.grp[g] # None =>
        \A p \in w.grp[g].invitees : w.invite[p] = g /\ st[p] \in {"in", "zoning"}

\* A group that nobody has accepted yet holds the invitation of its leader.
Started(w) == \A g \in Objects : w.grp[g] # None /\ w.grp[g].id = None => w.grp[g].leader \in w.grp[g].invitees

\* A group that has members is led by one of them.
Led(w) == \A g \in Objects : w.grp[g] # None /\ w.grp[g].id # None => w.grp[g].slots[w.grp[g].leader] # None

\* What is left of the groups of w in u has changed in its invitations at most.
Fewer(w, u) ==
    /\ \A h \in Objects : u.grp[h] # None =>
          /\ w.grp[h] # None /\ u.grp[h].invitees \subseteq w.grp[h].invitees
          /\ u.grp[h].leader = w.grp[h].leader /\ u.grp[h].slots = w.grp[h].slots
          /\ u.grp[h].id = w.grp[h].id /\ u.grp[h].raid = w.grp[h].raid
    /\ \A q \in Players : u.link[q] \in {None, w.link[q]} /\ u.invite[q] \in {None, w.invite[q]}

\* What stays when g has gone.
GoneKeeps(w, u, g) ==
    /\ Fewer(w, u)
    /\ Started(w) => Started(u)
    /\ \A st : Listed(w, st) => Listed(u, st)
    /\ u.grp[g] = None /\ \A h \in Objects \ {g} : u.grp[h] = w.grp[h]

\* The end of a group leaves the others with their members, leaders and
\* invitations.
LEMMA GoneFewer ==
    ASSUME NEW w, Well(w), NEW u, NEW g \in Objects, w.grp[g] # None, Gone(w, u, g)
    PROVE  GoneKeeps(w, u, g)
<1>1. w \in Worlds /\ Pointed(w)
  BY DEF Well
<1>2. /\ u.grp = [w.grp EXCEPT ![g] = None]
      /\ \A p \in Players : u.link[p] \in {None, w.link[p]} \ {g}
      /\ u.invite = Uninvited(w, g)
  BY DEF Gone
<1>3. u.grp[g] = None /\ \A h \in Objects \ {g} : u.grp[h] = w.grp[h]
  BY <1>1, <1>2, WorldParts DEF Groupings
<1>4. \A q \in Players : u.invite[q] = IF q \in w.grp[g].invitees THEN None ELSE w.invite[q]
  BY <1>2 DEF Uninvited
<1>5. Fewer(w, u)
  BY <1>2, <1>3, <1>4 DEF Fewer
<1>6. Started(w) => Started(u)
  BY <1>3 DEF Started
<1>7. ASSUME NEW st, Listed(w, st)
      PROVE  Listed(u, st)
  <2> SUFFICES ASSUME NEW h \in Objects, u.grp[h] # None, NEW q \in u.grp[h].invitees
               PROVE  u.invite[q] = h /\ st[q] \in {"in", "zoning"}
    BY DEF Listed
  <2>1. h # g /\ w.grp[h] # None /\ q \in w.grp[h].invitees
    BY <1>3
  <2>2. w.invite[q] = h /\ st[q] \in {"in", "zoning"}
    BY <1>7, <2>1 DEF Listed
  <2>3. q \notin w.grp[g].invitees
    BY <1>7, <2>1, <2>2 DEF Listed
  <2>4. q \in Players
    BY <1>1, <2>1, GroupAt DEF GroupRecs
  <2> QED BY <1>4, <2>2, <2>3, <2>4
<1> QED BY <1>3, <1>5, <1>6, <1>7 DEF GoneKeeps

\* A declined invitation leaves every group its members and leader, and the
\* lists right.
LEMMA RemoveInviteFewer ==
    ASSUME NEW w, Well(w), NEW p \in Players, NEW g \in Objects, w.grp[g] # None,
           NEW u, u = RemoveInvite(w, g, p)
    PROVE  /\ Fewer(w, u)
           /\ w.invite[p] = g \/ p \in w.grp[g].invitees => \A st : Listed(w, st) => Listed(u, st)
<1>1. w \in Worlds
  BY DEF Well
<1>2. /\ Well(u) /\ u.invite = [w.invite EXCEPT ![p] = None]
      /\ u.grp[g].invitees = w.grp[g].invitees \ {p}
      /\ u.grp[g] # None
      /\ u.grp[g].leader = w.grp[g].leader /\ u.grp[g].slots = w.grp[g].slots /\ u.grp[g].id = w.grp[g].id
      /\ \A h \in Objects \ {g} : u.grp[h] = w.grp[h]
      /\ u.link = w.link /\ u.grp[g].raid = w.grp[g].raid
  <2>1. InviteRemoved(w, u, g, p)
    BY RemoveInviteWell
  <2> QED BY <2>1 DEF InviteRemoved
<1>3. \A q \in Players : u.invite[q] = IF q = p THEN None ELSE w.invite[q]
  BY <1>1, <1>2, WorldParts DEF Pointers
<1>4. Fewer(w, u)
  BY <1>2, <1>3 DEF Fewer
<1>5. ASSUME w.invite[p] = g \/ p \in w.grp[g].invitees, NEW st, Listed(w, st)
      PROVE  Listed(u, st)
  <2> SUFFICES ASSUME NEW h \in Objects, u.grp[h] # None, NEW q \in u.grp[h].invitees
               PROVE  u.invite[q] = h /\ st[q] \in {"in", "zoning"}
    BY DEF Listed
  <2>1. w.grp[h] # None /\ q \in w.grp[h].invitees /\ (h = g => q # p)
    BY <1>2
  <2>2. w.invite[q] = h /\ st[q] \in {"in", "zoning"}
    BY <1>5, <2>1 DEF Listed
  <2>3. w.invite[p] = g
    BY <1>5 DEF Listed
  <2>4. q # p
    BY <2>1, <2>2, <2>3
  <2>5. q \in Players
    BY <1>1, <2>1, GroupAt DEF GroupRecs
  <2> QED BY <1>3, <2>2, <2>4, <2>5
<1> QED BY <1>4, <1>5

\* Two such changes, one after the other.
LEMMA FewerTwice ==
    ASSUME NEW w, NEW v, NEW u, Fewer(w, v), Fewer(v, u)
    PROVE  Fewer(w, u)
BY DEF Fewer

\* Groups that keep their members and leaders are led as before.
LEMMA FewerLed ==
    ASSUME NEW w, NEW u, Fewer(w, u), Led(w)
    PROVE  Led(u)
BY DEF Fewer, Led

\* u is w without the invitation of p.
Uninvites(w, u, p) ==
    /\ Well(u) /\ Fewer(w, u) /\ u.invite[p] = None
    /\ \A st : Listed(w, st) => Listed(u, st)
    /\ Started(w) => Started(u)

\* Player::UninviteFromGroup leaves no trace of the invitation of p.
LEMMA UninviteWell ==
    ASSUME NEW w, Well(w), NEW p \in Players, w.invite[p] # None => w.grp[w.invite[p]] # None,
           NEW u, u = UninviteFromGroup(w, p)
    PROVE  Uninvites(w, u, p)
<1>1. CASE w.invite[p] = None
  <2>1. u = w
    BY <1>1 DEF UninviteFromGroup
  <2> QED BY <1>1, <2>1 DEF Fewer, Uninvites
<1>2. CASE w.invite[p] # None
  <2>1. w \in Worlds /\ Pointed(w)
    BY DEF Well
  <2>2. PICK g \in Objects : g = w.invite[p]
    BY <1>2, <2>1, WorldParts DEF Pointers
  <2>3. w.grp[g] # None
    BY <1>2, <2>2
  <2>4. PICK v : v = RemoveInvite(w, g, p)
    OBVIOUS
  <2>5. /\ Well(v) /\ v.invite = [w.invite EXCEPT ![p] = None]
        /\ v.grp[g].invitees = w.grp[g].invitees \ {p}
        /\ v.grp[g] # None
        /\ v.grp[g].leader = w.grp[g].leader /\ v.grp[g].slots = w.grp[g].slots /\ v.grp[g].id = w.grp[g].id
        /\ \A h \in Objects \ {g} : v.grp[h] = w.grp[h]
        /\ v.link = w.link /\ v.grp[g].raid = w.grp[g].raid
    <3>1. InviteRemoved(w, v, g, p)
      BY <2>3, <2>4, RemoveInviteWell
    <3> QED BY <3>1 DEF InviteRemoved
  <2>6. Fewer(w, v) /\ \A st : Listed(w, st) => Listed(v, st)
    BY <2>2, <2>3, <2>4, RemoveInviteFewer
  <2>7. v.invite[p] = None
    BY <2>1, <2>5, WorldParts DEF Pointers
  <2>8. v \in Worlds /\ Formed(v)
    BY <2>5 DEF Well
  <2>9. u = IF Cardinality(Members(v, g)) > 1 THEN v
            ELSE IF IsCreated(v, g) THEN Disband(v, g)
            ELSE DeleteGroup(RemoveAllInvites(v, g), g)
    BY <1>2, <2>2, <2>4 DEF UninviteFromGroup
  <2>10. CASE Cardinality(Members(v, g)) > 1
    <3>1. u = v
      BY <2>9, <2>10
    <3>2. Members(v, g) # {}
      BY <2>10, FS_EmptySet
    <3>3. v.grp[g].id # None
      BY <2>5, <2>8, <3>2 DEF Formed, IsCreated
    <3>4. Started(w) => Started(v)
      BY <2>5, <3>3 DEF Started
    <3> QED BY <2>5, <2>6, <2>7, <3>1, <3>4 DEF Uninvites
  <2>11. CASE ~(Cardinality(Members(v, g)) > 1)
    <3>1. Gone(v, u, g)
      <4>1. CASE IsCreated(v, g)
        <5>1. v.grp[g].id # None
          BY <2>5, <2>8, <4>1 DEF Formed
        <5> QED BY <2>5, <2>8, <2>9, <2>11, <4>1, <5>1, DisbandGone
      <4>2. CASE ~IsCreated(v, g)
        <5>1. v.grp[g].id = None
          BY <2>5, <2>8, <4>2 DEF Formed
        <5> QED BY <2>5, <2>8, <2>9, <2>11, <4>2, <5>1, DeleteGone
      <4> QED BY <4>1, <4>2
    <3>2. Well(u)
      BY <2>5, <3>1, GoneWell
    <3>3. /\ Fewer(v, u)
          /\ Started(v) => Started(u)
          /\ \A st : Listed(v, st) => Listed(u, st)
          /\ u.grp[g] = None /\ \A h \in Objects \ {g} : u.grp[h] = v.grp[h]
      BY <2>5, <3>1, GoneFewer DEF GoneKeeps
    <3>4. Fewer(w, u)
      BY <2>6, <3>3, FewerTwice
    <3>5. u.invite[p] = None
      BY <2>7, <3>3 DEF Fewer
    <3>6. Started(w) => Started(u)
      BY <2>5, <3>3 DEF Started
    <3> QED BY <2>6, <3>2, <3>3, <3>4, <3>5, <3>6 DEF Uninvites
  <2> QED BY <2>10, <2>11
<1> QED BY <1>1, <1>2

\* Groups that keep their invitations are listed as before.
LEMMA SameInvitations ==
    ASSUME NEW w, NEW u, u.invite = w.invite,
           \A h \in Objects : u.grp[h] # None =>
              w.grp[h] # None /\ u.grp[h].invitees = w.grp[h].invitees
    PROVE  \A st : Listed(w, st) => Listed(u, st)
BY DEF Listed

\* u is w after p has left the group g, and new may have become its leader.
Departs(w, u, g, p, new) ==
    /\ Well(u)
    /\ Started(w) => Started(u)
    /\ \A st : Listed(w, st) => Listed(u, st)
    /\ \A q \in Players : u.invite[q] \in {None, w.invite[q]}
    /\ \A h \in Objects \ {g} : u.grp[h] = w.grp[h]
    /\ u.grp[g] # None =>
         /\ u.grp[g].slots = [w.grp[g].slots EXCEPT ![p] = None]
         /\ u.grp[g].leader = IF w.grp[g].leader = p /\ new # None THEN new ELSE w.grp[g].leader
         /\ u.grp[g].invitees = w.grp[g].invitees /\ u.grp[g].id = w.grp[g].id

\* Group::RemoveMember: the slot of p goes, or the group.
LEMMA RemoveMemberWell ==
    ASSUME NEW w, Well(w), NEW g \in Objects, w.grp[g] # None, w.grp[g].id # None, NEW p \in Players,
           NEW new \in {None} \cup Players, NEW u, u = RemoveMember(w, g, p, new)
    PROVE  Departs(w, u, g, p, new)
<1>1. w \in Worlds /\ Formed(w) /\ Pointed(w)
  BY DEF Well
<1>2. CASE Cardinality(Members(w, g)) <= 2
  <2>1. u = Disband(w, g)
    BY <1>2 DEF RemoveMember
  <2>2. Gone(w, u, g)
    BY <1>1, <2>1, DisbandGone
  <2>3. Well(u)
    BY <2>2, GoneWell
  <2>4. /\ Fewer(w, u)
        /\ Started(w) => Started(u)
        /\ \A st : Listed(w, st) => Listed(u, st)
        /\ u.grp[g] = None /\ \A h \in Objects \ {g} : u.grp[h] = w.grp[h]
    BY <2>2, GoneFewer DEF GoneKeeps
  <2>5. \A q \in Players : u.invite[q] \in {None, w.invite[q]}
    BY <2>4 DEF Fewer
  <2> QED BY <2>3, <2>4, <2>5 DEF Departs
<1>3. CASE ~(Cardinality(Members(w, g)) <= 2)
  <2>1. Cardinality(Members(w, g)) > 2
    <3>1. PICK S : S = Members(w, g)
      OBVIOUS
    <3>2. S \in SUBSET Players /\ IsFiniteSet(Players)
      BY <3>1, GroupsAssumption DEF Members
    <3>3. Cardinality(S) \in Nat
      BY <3>2, FS_Subset, FS_CardinalityType
    <3> QED BY <1>3, <3>1, <3>3
  <2>2. PICK out : out = TakeOut(w, g, p)
    OBVIOUS
  <2>3. Removed(w, out, g, p)
    BY <1>1, <2>2, TakeOutRemoves
  <2>4. /\ Well(out) /\ out.invite = w.invite
        /\ out.grp[g] # None /\ out.grp[g].invitees = w.grp[g].invitees
        /\ out.grp[g].leader = w.grp[g].leader /\ out.grp[g].id = w.grp[g].id
        /\ out.grp[g].slots = [w.grp[g].slots EXCEPT ![p] = None]
        /\ \A h \in Objects \ {g} : out.grp[h] = w.grp[h]
    BY <2>1, <2>3, RemovedWell
  <2>5. PICK led : led = IF w.grp[g].leader = p /\ new # None THEN ChangeLeader(out, g, new) ELSE out
    OBVIOUS
  <2>6. /\ Well(led) /\ led.invite = w.invite
        /\ led.grp[g] # None /\ led.grp[g].invitees = w.grp[g].invitees
        /\ led.grp[g].leader = IF w.grp[g].leader = p /\ new # None THEN new ELSE w.grp[g].leader
        /\ led.grp[g].id = w.grp[g].id
        /\ led.grp[g].slots = [w.grp[g].slots EXCEPT ![p] = None]
        /\ \A h \in Objects \ {g} : led.grp[h] = w.grp[h]
    <3>1. CASE w.grp[g].leader = p /\ new # None
      <4>1. PICK n \in Players : n = new
        BY <3>1
      <4>2. out \in Worlds /\ out.grp[g].id # None
        BY <2>4 DEF Well
      <4>3. LedBy(out, led, g, n)
        BY <2>4, <2>5, <3>1, <4>1, <4>2, ChangeLeaderParts
      <4>4. /\ Well(led) /\ led.invite = out.invite /\ led.link = out.link /\ led.orig = out.orig
            /\ led.grp[g] # None /\ led.grp[g].invitees = out.grp[g].invitees
            /\ led.grp[g].leader = n /\ led.grp[g].id = out.grp[g].id
            /\ led.grp[g].slots = out.grp[g].slots
            /\ \A h \in Objects \ {g} : led.grp[h] = out.grp[h]
        BY <2>4, <4>2, <4>3, LedByWell
      <4> QED BY <2>4, <3>1, <4>1, <4>4
    <3>2. CASE ~(w.grp[g].leader = p /\ new # None)
      BY <2>4, <2>5, <3>2
    <3> QED BY <3>1, <3>2
  <2>7. Started(w) => Started(led)
    BY <2>6 DEF Started
  <2>8. \A st : Listed(w, st) => Listed(led, st)
    BY <2>6, SameInvitations
  <2>9. u = IF Cardinality({q \in Players : g \in {led.link[q], led.orig[q]}}) < 2 THEN Disband(led, g) ELSE led
    BY <1>3, <2>2, <2>5 DEF RemoveMember
  <2>10. CASE u = led
    BY <2>6, <2>7, <2>8, <2>10 DEF Departs
  <2>11. CASE u = Disband(led, g)
    <3>1. led \in Worlds /\ led.grp[g].id # None
      BY <2>6 DEF Well
    <3>2. Gone(led, u, g)
      BY <2>6, <2>11, <3>1, DisbandGone
    <3>3. Well(u)
      BY <2>6, <3>2, GoneWell
    <3>4. /\ Fewer(led, u)
          /\ Started(led) => Started(u)
          /\ \A st : Listed(led, st) => Listed(u, st)
          /\ u.grp[g] = None /\ \A h \in Objects \ {g} : u.grp[h] = led.grp[h]
      BY <2>6, <3>2, GoneFewer DEF GoneKeeps
    <3>5. \A q \in Players : u.invite[q] \in {None, w.invite[q]}
      BY <2>6, <3>4 DEF Fewer
    <3> QED BY <2>6, <2>7, <2>8, <3>3, <3>4, <3>5 DEF Departs
  <2> QED BY <2>9, <2>10, <2>11
<1> QED BY <1>2, <1>3

-----------------------------------------------------------------------------
\* The types of the variables that no group operation changes.
Rest ==
    /\ db \in [groups : [Ids -> {None} \cup GroupRows], members : [Players -> {None} \cup MemberRows]]
    /\ status \in [Players -> {"off", "loading", "in", "zoning"}]
    /\ loaded \in [Players -> {None} \cup [{1} -> {None} \cup MemberRows]]
    /\ left \in Nat /\ restarts \in Nat
    /\ faults \subseteq {"own invitation", "self invitation", "stale login", "leader lost", "no heir", "orphan row"}

\* Both sides of every invitation agree, and the leader of a group is one of its
\* members, except after the faults that the model records.
Invited == "own invitation" \notin faults => Listed(World, status) /\ Started(World)
Headed == faults \cap {"leader lost", "own invitation", "no heir"} = {} => Led(World)

\* The inductive invariant.
GroupsInv == Rest /\ Well(World) /\ Invited /\ Headed

\* The fields of World are the variables.
LEMMA WorldFields ==
    /\ World.grp = grp /\ World.link = link /\ World.orig = orig /\ World.invite = invite
    /\ World.store = store /\ World.next = next /\ World.queue = queue
BY DEF World

\* The type invariant, in two parts.
LEMMA TypeParts == TypeOK <=> World \in Worlds /\ Rest
<1>1. World \in Worlds <=> /\ grp \in Groupings
                           /\ link \in Pointers /\ orig \in Pointers /\ invite \in Pointers
                           /\ store \in [Ids -> {None} \cup Objects] /\ next \in Ids /\ queue \in Seq(Statements)
  BY DEF Worlds, World
<1> QED BY <1>1 DEF TypeOK, Rest, Groupings, Pointers

\* A handler that assigns the parts of u leads to the world u.
LEMMA BecomesWorld ==
    ASSUME NEW u \in Worlds, Becomes(u)
    PROVE  World' = u
<1>1. u = [grp |-> u.grp, link |-> u.link, orig |-> u.orig, invite |-> u.invite,
           store |-> u.store, next |-> u.next, queue |-> u.queue]
  BY DEF Worlds
<1>2. World' = [grp |-> grp', link |-> link', orig |-> orig', invite |-> invite',
                store |-> store', next |-> next', queue |-> queue']
  BY DEF World
<1> QED BY <1>1, <1>2 DEF Becomes

\* What a handler that leads to the world u has to show for the invariant.
LEMMA Advance ==
    ASSUME NEW u, Well(u), Becomes(u), Rest', faults \subseteq faults',
           "own invitation" \notin faults' => Listed(u, status') /\ Started(u),
           faults' \cap {"leader lost", "own invitation", "no heir"} = {} => Led(u)
    PROVE  GroupsInv'
<1>1. u \in Worlds
  BY DEF Well
<1>2. World' = u
  BY <1>1, BecomesWorld
<1>3. Well(World)'
  <2>1. World' \in Worlds
    BY <1>1, <1>2
  <2>2. Formed(World)'
    BY <1>2 DEF Well, Formed, IsCreated, Members
  <2>3. Numbered(World)'
    BY <1>2 DEF Well, Numbered
  <2>4. Pointed(World)'
    <3>1. \A p \in Players :
             /\ u.link[p] # None => u.grp[u.link[p]] # None /\ u.grp[u.link[p]].id # None
             /\ u.orig[p] # None => u.grp[u.orig[p]] # None /\ u.grp[u.orig[p]].id # None
             /\ NoSelf' /\ u.invite[p] # None => u.grp[u.invite[p]] # None /\ p \in u.grp[u.invite[p]].invitees
      BY DEF Well, Pointed, NoSelf
    <3> QED BY <1>2, <3>1 DEF Pointed
  <2> QED BY <2>1, <2>2, <2>3, <2>4 DEF Well
<1>4. Invited'
  BY <1>2 DEF Invited, Listed, Started
<1>5. Headed'
  BY <1>2 DEF Headed, Led
<1> QED BY <1>3, <1>4, <1>5 DEF GroupsInv

\* A group that begins has nobody, no identifier, and is a party
\* (Group::Group).
LEMMA NewGroupType ==
    ASSUME NEW p \in Players
    PROVE  /\ NewGroup(p) \in GroupRecs /\ NewGroup(p).leader = p /\ NewGroup(p).invitees = {}
           /\ NewGroup(p).slots = NoSlots /\ NewGroup(p).id = None /\ ~NewGroup(p).raid
BY DEF NewGroup, GroupRecs, NoSlots, NoCounts

\* u is w after p has begun the group g.
GroupBegun(w, u, g, p) ==
    /\ Well(u) /\ u.invite = w.invite /\ u.grp[g] = NewGroup(p)
    /\ \A h \in Objects \ {g} : u.grp[h] = w.grp[h]

\* A new group object leads to a well-formed world.
LEMMA NewGroupWell ==
    ASSUME NEW w, Well(w), NEW g \in Objects, w.grp[g] = None, NEW p \in Players,
           NEW u, u = [w EXCEPT !.grp[g] = NewGroup(p)]
    PROVE  GroupBegun(w, u, g, p)
<1>1. w \in Worlds /\ Formed(w) /\ Numbered(w) /\ Pointed(w)
  BY DEF Well
<1>2. PICK r \in GroupRecs : r = NewGroup(p)
  BY NewGroupType
<1>3. r.leader = p /\ r.invitees = {} /\ r.slots = NoSlots /\ r.id = None /\ ~r.raid
  BY <1>2, NewGroupType
<1>4. u = [grp |-> [w.grp EXCEPT ![g] = r], link |-> w.link, orig |-> w.orig,
           invite |-> w.invite, store |-> w.store, next |-> w.next, queue |-> w.queue]
  BY <1>1, <1>2 DEF Worlds
<1>5. u \in Worlds
  BY <1>1, <1>4, WorldParts DEF Worlds, Groupings
<1>6. u.grp[g] = r /\ \A h \in Objects \ {g} : u.grp[h] = w.grp[h]
  <2>1. u.grp = [w.grp EXCEPT ![g] = r]
    BY <1>4
  <2>2. w.grp \in Groupings
    BY <1>1, WorldParts
  <2> QED BY <2>1, <2>2 DEF Groupings
<1>7. u.link = w.link /\ u.orig = w.orig /\ u.invite = w.invite /\ u.store = w.store /\ u.next = w.next
  BY <1>4
<1>8. Formed(u)
  <2> SUFFICES ASSUME NEW h \in Objects, u.grp[h] # None
               PROVE  /\ u.grp[h].id # None <=> IsCreated(u, h)
                      /\ u.grp[h].id = None => ~u.grp[h].raid
    BY DEF Formed
  <2>1. CASE h = g
    BY <1>3, <1>6, <2>1 DEF IsCreated, Members, NoSlots
  <2>2. CASE h # g
    BY <1>1, <1>6, <2>2 DEF Formed, IsCreated, Members
  <2> QED BY <2>1, <2>2
<1>9. Numbered(u)
  <2>1. \A i \in Ids : w.store[i] # None => w.store[i] \in Objects \ {g}
    BY <1>1, WorldParts DEF Numbered
  <2> QED BY <1>1, <1>3, <1>6, <1>7, <2>1 DEF Numbered
<1>10. Pointed(u)
  <2>1. \A q \in Players :
            /\ w.link[q] # None => w.link[q] \in Objects \ {g}
            /\ w.orig[q] # None => w.orig[q] \in Objects \ {g}
            /\ NoSelf /\ w.invite[q] # None => w.invite[q] \in Objects \ {g}
    BY <1>1, WorldParts DEF Pointed, Pointers
  <2> QED BY <1>1, <1>6, <1>7, <2>1 DEF Pointed
<1> QED BY <1>2, <1>5, <1>6, <1>7, <1>8, <1>9, <1>10 DEF Well, GroupBegun

\* A player in the world who had no invitation is rightly listed when he is
\* invited (AddInvite).
LEMMA AddInviteListed ==
    ASSUME NEW w, Well(w), NEW g \in Objects, w.grp[g] # None, NEW p \in Players,
           NEW u, u = AddInvite(w, g, p), w.invite[p] = None, NEW st, st[p] = "in", Listed(w, st)
    PROVE  Listed(u, st)
<1>1. /\ Well(u) /\ u.invite = [w.invite EXCEPT ![p] = g]
      /\ u.grp[g].invitees = w.grp[g].invitees \cup {p}
      /\ u.grp[g] # None
      /\ u.grp[g].leader = w.grp[g].leader /\ u.grp[g].slots = w.grp[g].slots /\ u.grp[g].id = w.grp[g].id
      /\ \A h \in Objects \ {g} : u.grp[h] = w.grp[h]
  BY AddInviteWell DEF InviteAdded
<1>2. w \in Worlds
  BY DEF Well
<1>3. \A q \in Players : u.invite[q] = IF q = p THEN g ELSE w.invite[q]
  BY <1>1, <1>2, WorldParts DEF Pointers
<1> SUFFICES ASSUME NEW h \in Objects, u.grp[h] # None, NEW q \in u.grp[h].invitees
             PROVE  u.invite[q] = h /\ st[q] \in {"in", "zoning"}
  BY DEF Listed
<1>4. CASE h = g /\ q = p
  BY <1>3, <1>4
<1>5. CASE ~(h = g /\ q = p)
  <2>1. w.grp[h] # None /\ q \in w.grp[h].invitees
    BY <1>1, <1>5
  <2>2. w.invite[q] = h /\ st[q] \in {"in", "zoning"}
    BY <2>1 DEF Listed
  <2>3. q \in Players
    BY <1>2, <2>1, GroupAt DEF GroupRecs
  <2>4. q # p
    BY <2>2, Nulls
  <2> QED BY <1>3, <2>2, <2>3, <2>4
<1> QED BY <1>4, <1>5

-----------------------------------------------------------------------------
(* The handlers keep the invariant.                                        *)

\* The variables outside the world keep their types in a step that changes
\* only what is left and the faults.
LEMMA RestKept ==
    ASSUME Rest, UNCHANGED <<db, status, loaded, restarts>>, left' \in Nat,
           faults' \subseteq {"own invitation", "self invitation", "stale login", "leader lost", "no heir", "orphan row"}
    PROVE  Rest'
BY DEF Rest

\* A request fewer is left.
LEMMA OneLess ==
    ASSUME Rest, left > 0, left' = left - 1
    PROVE  left' \in Nat
<1>1. left \in Nat
  BY DEF Rest
<1> QED BY <1>1

\* A request is handled for a player who is in the world (STATUS_LOGGEDIN).
LEMMA RequestKept ==
    ASSUME Rest, NEW p \in Players, Request(p)
    PROVE  left' \in Nat /\ status[p] = "in"
BY OneLess DEF Request

\* The group of a player.
LEMMA LinkFacts ==
    ASSUME Well(World), NEW p \in Players, link[p] # None
    PROVE  link[p] \in Objects /\ grp[link[p]] # None /\ grp[link[p]].id # None
<1>1. World \in Worlds /\ Pointed(World)
  BY DEF Well
<1>2. /\ World.link[p] \in {None} \cup Objects
      /\ World.link[p] # None => World.grp[World.link[p]] # None /\ World.grp[World.link[p]].id # None
  BY <1>1, WorldParts DEF Pointers, Pointed
<1> QED BY <1>2, WorldFields

\* An invitation is a pointer to a group, which may be gone.
LEMMA InviteFacts ==
    ASSUME Well(World), NEW p \in Players, invite[p] # None
    PROVE  invite[p] \in Objects
<1>1. World \in Worlds
  BY DEF Well
<1>2. World.invite[p] \in {None} \cup Objects
  BY <1>1, WorldParts DEF Pointers
<1> QED BY <1>2, WorldFields

\* HandleGroupInviteOpcode preserves the invariant: a group that begins holds
\* the invitation of its leader.
LEMMA InviteStep ==
    ASSUME GroupsInv, NEW p \in Players, NEW q \in Players, Invite(p, q)
    PROVE  GroupsInv'
<1>1. Rest /\ Well(World) /\ Invited /\ Headed
  BY DEF GroupsInv
<1>2. /\ Request(p) /\ NoOther /\ faults' = faults
      /\ p # q /\ status[q] = "in" /\ invite[q] = None
  BY DEF Invite, FindPlayer
<1>3. left' \in Nat /\ status[p] = "in"
  BY <1>1, <1>2, RequestKept
<1>4. Rest'
  BY <1>1, <1>2, <1>3, RestKept DEF NoOther, Rest
<1>5. status' = status
  BY <1>2 DEF NoOther
<1>6. PICK w : w = World
  OBVIOUS
<1>7. w.grp = grp /\ w.link = link /\ w.invite = invite /\ Well(w)
  BY <1>1, <1>6, WorldFields
<1>8. CASE link[p] # None /\ Becomes(AddInvite(World, link[p], q))
  <2>1. PICK g \in Objects : g = link[p] /\ grp[g] # None /\ grp[g].id # None
    BY <1>1, <1>8, LinkFacts
  <2>2. PICK u : u = AddInvite(w, g, q)
    OBVIOUS
  <2>20. Well(w) /\ w.grp[g] # None /\ w.grp[g].id # None
    BY <1>7, <2>1
  <2>3. /\ Well(u) /\ u.invite = [w.invite EXCEPT ![q] = g]
        /\ u.grp[g].invitees = w.grp[g].invitees \cup {q}
        /\ u.grp[g] # None
        /\ u.grp[g].leader = w.grp[g].leader /\ u.grp[g].slots = w.grp[g].slots /\ u.grp[g].id = w.grp[g].id
        /\ \A h \in Objects \ {g} : u.grp[h] = w.grp[h]
    <3>1. InviteAdded(w, u, g, q)
      BY <2>2, <2>20, AddInviteWell
    <3> QED BY <3>1 DEF InviteAdded
  <2>4. Listed(w, status) => Listed(u, status)
    BY <1>2, <1>7, <2>1, <2>2, AddInviteListed
  <2>5. Started(w) => Started(u)
    BY <2>3, <2>20 DEF Started
  <2>6. Led(w) => Led(u)
    BY <2>3, <2>20 DEF Led
  <2>7. Becomes(u)
    BY <1>6, <1>8, <2>1, <2>2
  <2>8. "own invitation" \notin faults' => Listed(u, status') /\ Started(u)
    BY <1>1, <1>2, <1>5, <1>6, <2>4, <2>5 DEF Invited
  <2>9. faults' \cap {"leader lost", "own invitation", "no heir"} = {} => Led(u)
    BY <1>1, <1>2, <1>6, <2>6 DEF Headed
  <2> QED BY <1>2, <1>4, <2>3, <2>7, <2>8, <2>9, Advance
<1>9. CASE /\ invite[p] = None
           /\ \E g \in Objects :
                /\ grp[g] = None
                /\ Becomes(AddInvite(AddInvite([World EXCEPT !.grp[g] = NewGroup(p)], g, p), g, q))
  <2>1. PICK g \in Objects :
                /\ grp[g] = None
                /\ Becomes(AddInvite(AddInvite([World EXCEPT !.grp[g] = NewGroup(p)], g, p), g, q))
    BY <1>9
  <2>2. PICK a : a = [w EXCEPT !.grp[g] = NewGroup(p)]
    OBVIOUS
  <2>3. /\ Well(a) /\ a.invite = w.invite /\ a.grp[g] = NewGroup(p)
        /\ \A h \in Objects \ {g} : a.grp[h] = w.grp[h]
    <3>1. Well(w) /\ w.grp[g] = None
      BY <1>7, <2>1
    <3>2. GroupBegun(w, a, g, p)
      BY <2>2, <3>1, NewGroupWell
    <3> QED BY <3>2 DEF GroupBegun
  <2>4. a.grp[g] # None /\ a.grp[g].leader = p /\ a.grp[g].invitees = {} /\ a.grp[g].id = None
    BY <2>3, NewGroupType, Nulls
  <2>5. PICK b : b = AddInvite(a, g, p)
    OBVIOUS
  <2>6. /\ Well(b) /\ b.invite = [a.invite EXCEPT ![p] = g]
        /\ b.grp[g].invitees = a.grp[g].invitees \cup {p}
        /\ b.grp[g] # None
        /\ b.grp[g].leader = a.grp[g].leader /\ b.grp[g].slots = a.grp[g].slots /\ b.grp[g].id = a.grp[g].id
        /\ \A h \in Objects \ {g} : b.grp[h] = a.grp[h]
    <3>1. Well(a) /\ a.grp[g] # None
      BY <2>3, <2>4
    <3>2. InviteAdded(a, b, g, p)
      BY <2>5, <3>1, AddInviteWell
    <3> QED BY <3>2 DEF InviteAdded
  <2>7. PICK u : u = AddInvite(b, g, q)
    OBVIOUS
  <2>8. /\ Well(u) /\ u.invite = [b.invite EXCEPT ![q] = g]
        /\ u.grp[g].invitees = b.grp[g].invitees \cup {q}
        /\ u.grp[g] # None
        /\ u.grp[g].leader = b.grp[g].leader /\ u.grp[g].slots = b.grp[g].slots /\ u.grp[g].id = b.grp[g].id
        /\ \A h \in Objects \ {g} : u.grp[h] = b.grp[h]
    <3>1. Well(b) /\ b.grp[g] # None
      BY <2>6
    <3>2. InviteAdded(b, u, g, q)
      BY <2>7, <3>1, AddInviteWell
    <3> QED BY <3>2 DEF InviteAdded
  <2>9. Listed(w, status) => Listed(a, status)
    BY <2>3, <2>4 DEF Listed
  <2>10. a.invite[p] = None
    BY <1>7, <1>9, <2>3
  <2>11. Listed(a, status) => Listed(b, status)
    BY <1>3, <2>3, <2>4, <2>5, <2>10, AddInviteListed
  <2>12. b.invite[q] = None
    <3>1. w \in Worlds
      BY <1>7 DEF Well
    <3> QED BY <1>2, <1>7, <2>3, <2>6, <3>1, WorldParts DEF Pointers
  <2>13. Listed(b, status) => Listed(u, status)
    BY <1>2, <2>6, <2>7, <2>12, AddInviteListed
  <2>14. u.grp[g].leader = p /\ p \in u.grp[g].invitees /\ u.grp[g].id = None
         /\ \A h \in Objects \ {g} : u.grp[h] = w.grp[h]
    BY <2>3, <2>4, <2>6, <2>8
  <2>15. Started(w) => Started(u)
    BY <2>14 DEF Started
  <2>16. Led(w) => Led(u)
    BY <2>14 DEF Led
  <2>17. Becomes(u)
    BY <1>6, <2>1, <2>2, <2>5, <2>7
  <2>18. "own invitation" \notin faults' => Listed(u, status') /\ Started(u)
    BY <1>1, <1>2, <1>5, <1>6, <2>9, <2>11, <2>13, <2>15 DEF Invited
  <2>19. faults' \cap {"leader lost", "own invitation", "no heir"} = {} => Led(u)
    BY <1>1, <1>2, <1>6, <2>16 DEF Headed
  <2> QED BY <1>2, <1>4, <2>8, <2>17, <2>18, <2>19, Advance
<1> QED BY <1>8, <1>9 DEF Invite, Address

\* A step that changes the invitation of p only. He is on no list, and points
\* to nothing, or to a group that is gone after a self-invitation.
LEMMA RepointStep ==
    ASSUME GroupsInv, NEW p \in Players, Request(p), NoOther, NEW g \in {None} \cup Objects,
           invite' = [invite EXCEPT ![p] = g], UNCHANGED <<grp, link, orig, store, next, queue>>,
           invite[p] = None \/ Dangling(p), g # None => ~NoSelf',
           faults' \in {faults, faults \cup {"self invitation"}}
    PROVE  GroupsInv'
<1>1. Rest /\ Well(World) /\ Invited /\ Headed
  BY DEF GroupsInv
<1>2. World \in Worlds /\ Formed(World) /\ Numbered(World) /\ Pointed(World)
  BY <1>1 DEF Well
<1>3. Rest'
  <2>1. left' \in Nat
    BY <1>1, RequestKept
  <2> QED BY <1>1, <2>1, RestKept DEF NoOther, Rest
<1>4. invite \in Pointers /\ invite' \in Pointers
  BY <1>2, WorldParts, WorldFields DEF Pointers
<1>5. PICK u : u = [grp |-> grp, link |-> link, orig |-> orig, invite |-> invite',
                    store |-> store, next |-> next, queue |-> queue]
  OBVIOUS
<1>6. World' = u
  BY <1>5 DEF World
<1>7. u \in Worlds
  BY <1>2, <1>4, <1>5, WorldParts, WorldFields DEF Worlds
<1>8. u.grp = grp /\ u.link = link /\ u.orig = orig /\ u.invite = invite' /\ u.store = store /\ u.next = next
  BY <1>5
<1>9. \A q \in Players : invite'[q] = IF q = p THEN g ELSE invite[q]
  BY <1>4 DEF Pointers
<1>19. PICK w : w = World
  OBVIOUS
<1>20. /\ Formed(w) /\ Numbered(w)
       /\ u.grp = w.grp /\ u.store = w.store /\ u.next = w.next
  BY <1>2, <1>8, <1>19, WorldFields
<1>10. Formed(World)'
  <2>1. Formed(u)
    BY <1>20 DEF Formed, IsCreated, Members
  <2> QED BY <1>6, <2>1 DEF Formed, IsCreated, Members
<1>11. Numbered(World)'
  <2>1. Numbered(u)
    BY <1>20 DEF Numbered
  <2> QED BY <1>6, <2>1 DEF Numbered
<1>12. Pointed(World)'
  <2>1. NoSelf' => NoSelf
    BY DEF NoSelf
  <2>2. \A q \in Players :
          /\ link[q] # None => grp[link[q]] # None /\ grp[link[q]].id # None
          /\ orig[q] # None => grp[orig[q]] # None /\ grp[orig[q]].id # None
          /\ NoSelf /\ invite[q] # None => grp[invite[q]] # None /\ q \in grp[invite[q]].invitees
    BY <1>2, WorldFields DEF Pointed
  <2>3. ASSUME NEW q \in Players, NoSelf', u.invite[q] # None
        PROVE  u.grp[u.invite[q]] # None /\ q \in u.grp[u.invite[q]].invitees
    BY <1>8, <1>9, <2>1, <2>2, <2>3
  <2>4. ASSUME NEW q \in Players
        PROVE  /\ u.link[q] # None => u.grp[u.link[q]] # None /\ u.grp[u.link[q]].id # None
               /\ u.orig[q] # None => u.grp[u.orig[q]] # None /\ u.grp[u.orig[q]].id # None
    BY <1>8, <2>2
  <2> QED BY <1>6, <2>3, <2>4 DEF Pointed
<1>13. Well(World)'
  BY <1>6, <1>7, <1>10, <1>11, <1>12 DEF Well
<1>14. "own invitation" \notin faults' => "own invitation" \notin faults
  OBVIOUS
<1>15. ASSUME Listed(World, status) PROVE Listed(u, status)
  <2> SUFFICES ASSUME NEW h \in Objects, grp[h] # None, NEW q \in grp[h].invitees
               PROVE  invite'[q] = h /\ status[q] \in {"in", "zoning"}
    BY <1>8 DEF Listed
  <2>1. invite[q] = h /\ status[q] \in {"in", "zoning"}
    BY <1>15, WorldFields DEF Listed
  <2>2. q \in Players
    BY <1>2, GroupAt, WorldFields DEF GroupRecs
  <2>3. q # p
    BY <2>1, Nulls DEF Dangling
  <2> QED BY <1>9, <2>1, <2>2, <2>3
<1>16. status' = status
  BY DEF NoOther
<1>17. Invited'
  <2>1. ASSUME "own invitation" \notin faults' PROVE Listed(u, status') /\ Started(u)
    <3>1. Listed(World, status) /\ Started(World)
      BY <1>1, <1>14, <2>1 DEF Invited
    <3>2. Started(u)
      BY <1>8, <3>1, WorldFields DEF Started
    <3> QED BY <1>15, <1>16, <3>1, <3>2
  <2> QED BY <1>6, <2>1 DEF Invited, Listed, Started
<1>18. Headed'
  <2>1. ASSUME faults' \cap {"leader lost", "own invitation", "no heir"} = {} PROVE Led(u)
    <3>1. Led(World)
      BY <1>1, <2>1 DEF Headed
    <3> QED BY <1>8, <3>1, WorldFields DEF Led
  <2> QED BY <1>6, <2>1 DEF Headed, Led
<1> QED BY <1>3, <1>13, <1>17, <1>18 DEF GroupsInv

\* What HandleGroupInviteOpcode leaves of the group of a player who invites
\* himself: his pointer to it.
LEMMA SelfInvited ==
    ASSUME GroupsInv, NEW p \in Players, InviteSelf(p)
    PROVE  /\ Request(p) /\ NoOther /\ link[p] = None /\ invite[p] = None
           /\ faults' = faults \cup {"self invitation"} /\ UNCHANGED <<grp, link, orig, store, next, queue>>
           /\ \E g \in Objects : invite' = [invite EXCEPT ![p] = g]
<1>1. /\ Request(p) /\ NoOther /\ link[p] = None /\ invite[p] = None
      /\ faults' = faults \cup {"self invitation"}
  BY DEF InviteSelf
<1>2. PICK g \in Objects :
          /\ grp[g] = None
          /\ Becomes(DeleteGroup(AddInvite([World EXCEPT !.grp[g] = NewGroup(p)], g, p), g))
  BY DEF InviteSelf, Address
<1>3. PICK w : w = World
  OBVIOUS
<1>4. /\ Well(w) /\ w \in Worlds /\ w.grp = grp /\ w.link = link /\ w.orig = orig /\ w.invite = invite
      /\ w.store = store /\ w.next = next /\ w.queue = queue
  BY <1>3, WorldFields DEF GroupsInv, Well
<1>5. PICK a : a = [w EXCEPT !.grp[g] = NewGroup(p)]
  OBVIOUS
<1>6. /\ a.grp = [w.grp EXCEPT ![g] = NewGroup(p)] /\ a.link = w.link /\ a.orig = w.orig
      /\ a.invite = w.invite /\ a.store = w.store /\ a.next = w.next /\ a.queue = w.queue
  BY <1>4, <1>5 DEF Worlds
<1>7. a \in Worlds /\ a.grp[g] # None
  <2>1. GroupBegun(w, a, g, p)
    BY <1>2, <1>4, <1>5, NewGroupWell
  <2> QED BY <2>1, NewGroupType, Nulls DEF GroupBegun, Well
<1>8. PICK b : b = AddInvite(a, g, p)
  OBVIOUS
<1>9. /\ b \in Worlds
      /\ b.grp = [a.grp EXCEPT ![g] = [a.grp[g] EXCEPT !.invitees = @ \cup {p}]]
      /\ b.invite = [a.invite EXCEPT ![p] = g]
      /\ b.link = a.link /\ b.orig = a.orig /\ b.store = a.store /\ b.next = a.next /\ b.queue = a.queue
  BY <1>7, <1>8, AddInviteParts
<1>10. PICK u : u = DeleteGroup(b, g)
  OBVIOUS
<1>11. /\ u.grp = [b.grp EXCEPT ![g] = None]
       /\ u.link = Without(b.link, g) /\ u.orig = Without(b.orig, g)
       /\ u.invite = b.invite /\ u.store = b.store /\ u.next = b.next /\ u.queue = b.queue
  BY <1>9, <1>10, DeleteGroupParts
<1>12. Becomes(u)
  BY <1>2, <1>3, <1>5, <1>8, <1>10
<1>13. grp' = grp
  <2>1. PICK r, z : r = NewGroup(p) /\ z = [a.grp[g] EXCEPT !.invitees = @ \cup {p}]
    OBVIOUS
  <2>2. grp' = [[[grp EXCEPT ![g] = r] EXCEPT ![g] = z] EXCEPT ![g] = None]
    BY <1>4, <1>6, <1>9, <1>11, <1>12, <2>1 DEF Becomes
  <2>3. grp \in Groupings
    BY <1>4, WorldParts
  <2> QED BY <1>2, <2>2, <2>3 DEF Groupings
<1>14. \A q \in Players : link[q] # g /\ orig[q] # g
  BY <1>2, <1>4, Nulls DEF Well, Pointed
<1>15. link' = link /\ orig' = orig
  <2>1. link \in Pointers /\ orig \in Pointers
    BY <1>4, WorldParts
  <2>2. link' = Without(link, g) /\ orig' = Without(orig, g)
    BY <1>4, <1>6, <1>9, <1>11, <1>12 DEF Becomes
  <2> QED BY <1>14, <2>1, <2>2 DEF Without, Pointers
<1>16. invite' = [invite EXCEPT ![p] = g] /\ UNCHANGED <<store, next, queue>>
  BY <1>4, <1>6, <1>9, <1>11, <1>12 DEF Becomes
<1> QED BY <1>1, <1>13, <1>15, <1>16

\* HandleGroupInviteOpcode with the player's own name preserves the invariant.
LEMMA InviteSelfStep ==
    ASSUME GroupsInv, NEW p \in Players, InviteSelf(p)
    PROVE  GroupsInv'
<1>1. /\ Request(p) /\ NoOther /\ link[p] = None /\ invite[p] = None
      /\ faults' = faults \cup {"self invitation"} /\ UNCHANGED <<grp, link, orig, store, next, queue>>
      /\ \E g \in Objects : invite' = [invite EXCEPT ![p] = g]
  BY SelfInvited
<1>2. PICK g \in Objects : invite' = [invite EXCEPT ![p] = g]
  BY <1>1
<1>3. ~NoSelf'
  BY <1>1 DEF NoSelf
<1> QED BY <1>1, <1>2, <1>3, RepointStep

\* An answer with a pointer to freed memory clears the pointer.
LEMMA FreedCleared ==
    ASSUME GroupsInv, NEW p \in Players, AcceptFreed(p)
    PROVE  /\ Request(p) /\ NoOther /\ Dangling(p) /\ faults' = faults
           /\ UNCHANGED <<grp, link, orig, store, next, queue>> /\ invite' = [invite EXCEPT ![p] = None]
<1>1. Request(p) /\ NoOther /\ Dangling(p) /\ faults' = faults /\ Becomes([World EXCEPT !.invite[p] = None])
  BY DEF AcceptFreed
<1>2. PICK w : w = World
  OBVIOUS
<1>3. /\ w \in Worlds /\ w.grp = grp /\ w.link = link /\ w.orig = orig /\ w.invite = invite
      /\ w.store = store /\ w.next = next /\ w.queue = queue
  BY <1>2, WorldFields DEF GroupsInv, Well
<1>4. PICK u : u = [w EXCEPT !.invite[p] = None]
  OBVIOUS
<1>5. /\ u.grp = w.grp /\ u.link = w.link /\ u.orig = w.orig /\ u.invite = [w.invite EXCEPT ![p] = None]
      /\ u.store = w.store /\ u.next = w.next /\ u.queue = w.queue
  BY <1>3, <1>4 DEF Worlds
<1> QED BY <1>1, <1>2, <1>3, <1>4, <1>5 DEF Becomes

\* It preserves the invariant.
LEMMA AcceptFreedStep ==
    ASSUME GroupsInv, NEW p \in Players, AcceptFreed(p)
    PROVE  GroupsInv'
BY FreedCleared, RepointStep

\* HandleGroupInviteResponseOpcode, declined, preserves the invariant.
LEMMA DeclineStep ==
    ASSUME GroupsInv, NEW p \in Players, Decline(p)
    PROVE  GroupsInv'
<1>1. Rest /\ Well(World) /\ Invited /\ Headed
  BY DEF GroupsInv
<1>2. /\ Request(p) /\ NoOther /\ faults' = faults /\ Becomes(UninviteFromGroup(World, p))
      /\ grp[invite[p]] # None
  BY DEF Decline, Dangling
<1>3. left' \in Nat /\ status[p] = "in"
  BY <1>1, <1>2, RequestKept
<1>4. Rest'
  BY <1>1, <1>2, <1>3, RestKept DEF NoOther, Rest
<1>5. status' = status
  BY <1>2 DEF NoOther
<1>6. PICK w : w = World
  OBVIOUS
<1>7. PICK u : u = UninviteFromGroup(w, p)
  OBVIOUS
<1>8. /\ Well(u) /\ Fewer(w, u) /\ u.invite[p] = None
      /\ \A st : Listed(w, st) => Listed(u, st)
      /\ Started(w) => Started(u)
  <2>1. w.grp[w.invite[p]] # None
    BY <1>2, <1>6, WorldFields
  <2> QED BY <1>1, <1>6, <1>7, <2>1, UninviteWell DEF Uninvites
<1>9. Led(w) => Led(u)
  BY <1>8, FewerLed
<1>10. "own invitation" \notin faults' => Listed(u, status') /\ Started(u)
  BY <1>1, <1>2, <1>5, <1>6, <1>8 DEF Invited
<1>11. faults' \cap {"leader lost", "own invitation", "no heir"} = {} => Led(u)
  BY <1>1, <1>2, <1>6, <1>9 DEF Headed
<1> QED BY <1>2, <1>4, <1>6, <1>7, <1>8, <1>10, <1>11, Advance

\* A group without members is not full.
LEMMA EmptyNotFull ==
    ASSUME NEW w, Well(w), NEW g \in Objects, w.grp[g] # None, ~IsCreated(w, g)
    PROVE  ~IsFull(w, g)
<1>1. ~w.grp[g].raid
  BY DEF Well, Formed
<1>2. Cardinality(Members(w, g)) = 0
  BY FS_EmptySet DEF IsCreated
<1>3. GroupSize \in Nat \ {0, 1}
  BY GroupsAssumption
<1> QED BY <1>1, <1>2, <1>3 DEF IsFull

\* AddMember, for a player who holds no invitation.
LEMMA AddMemberKeeps ==
    ASSUME NEW w, Well(w), NEW g \in Objects, w.grp[g] # None, w.grp[g].id # None, NEW p \in Players,
           w.invite[p] = None, NEW u, u = AddMember(w, g, p)
    PROVE  /\ Well(u)
           /\ \A st : Listed(w, st) => Listed(u, st)
           /\ Started(w) => Started(u)
           /\ Led(w) => Led(u)
<1>1. w \in Worlds
  BY DEF Well
<1>2. CASE FreeSub(w, g) \notin Subs
  BY <1>1, <1>2, AddMemberJoins
<1>3. CASE FreeSub(w, g) \in Subs
  <2>1. PICK s \in Subs : s = FreeSub(w, g)
    BY <1>3
  <2>2. Joined(w, u, g, p, s)
    BY <1>1, <1>3, <2>1, AddMemberJoins
  <2>3. Joins(w, u, g, p, s)
    BY <2>2, JoinedWell
  <2>4. /\ Well(u) /\ u.invite = [w.invite EXCEPT ![p] = None]
        /\ u.grp[g] # None /\ u.grp[g].invitees = w.grp[g].invitees
        /\ u.grp[g].leader = w.grp[g].leader /\ u.grp[g].id = w.grp[g].id
        /\ u.grp[g].slots = [w.grp[g].slots EXCEPT ![p] = s]
        /\ \A h \in Objects \ {g} : u.grp[h] = w.grp[h]
    BY <2>3 DEF Joins
  <2>5. u.invite = w.invite
    BY <1>1, <2>4, WorldParts DEF Pointers
  <2>6. \A h \in Objects : u.grp[h] # None => w.grp[h] # None /\ u.grp[h].invitees = w.grp[h].invitees
    BY <2>4
  <2>7. \A st : Listed(w, st) => Listed(u, st)
    BY <2>5, <2>6, SameInvitations
  <2>8. Started(w) => Started(u)
    BY <2>4 DEF Started
  <2>9. ASSUME Led(w) PROVE Led(u)
    <3>1. w.grp[g] \in GroupRecs
      BY <1>1, GroupAt
    <3>2. w.grp[g].slots[w.grp[g].leader] # None
      BY <2>9 DEF Led
    <3>3. u.grp[g].slots[u.grp[g].leader] # None
      BY <2>4, <3>1, <3>2, Nulls DEF GroupRecs
    <3>4. \A h \in Objects \ {g} : w.grp[h] # None /\ w.grp[h].id # None => w.grp[h].slots[w.grp[h].leader] # None
      BY <2>9 DEF Led
    <3>5. \A h \in Objects \ {g} : u.grp[h] # None /\ u.grp[h].id # None => u.grp[h].slots[u.grp[h].leader] # None
      BY <2>4, <3>4
    <3> QED BY <3>3, <3>5 DEF Led
  <2> QED BY <2>4, <2>7, <2>8, <2>9
<1> QED BY <1>2, <1>3

\* HandleGroupInviteResponseOpcode, accepted, preserves the invariant: the
\* first to accept creates the group.
LEMMA AcceptStep ==
    ASSUME GroupsInv, NEW p \in Players, Accept(p)
    PROVE  GroupsInv'
<1>1. Rest /\ Well(World) /\ Invited /\ Headed
  BY DEF GroupsInv
<1>2. Request(p) /\ NoOther /\ invite[p] # None /\ grp[invite[p]] # None
  BY DEF Accept, Dangling
<1>3. left' \in Nat /\ status[p] = "in"
  BY <1>1, <1>2, RequestKept
<1>4. PICK g \in Objects : g = invite[p] /\ grp[g] # None
  BY <1>1, <1>2, InviteFacts
<1>5. PICK l : l = grp[g].leader
  OBVIOUS
<1>6. PICK a : a = World
  OBVIOUS
<1>7. PICK w : w = RemoveInvite(a, g, p)
  OBVIOUS
<1>8. PICK u : u = CASE l = p \/ IsFull(w, g) -> w
                     [] l # p /\ ~IsFull(w, g) /\ IsCreated(w, g) -> AddMember(w, g, p)
                     [] l # p /\ ~IsCreated(w, g) /\ ~FindPlayer(l) -> DeleteGroup(RemoveAllInvites(w, g), g)
                     [] l # p /\ ~IsCreated(w, g) /\ FindPlayer(l) ->
                           AddMember(Create(RemoveInvite(w, g, l), g), g, p)
  OBVIOUS
<1>9. Becomes(u) /\ faults' = IF l = p THEN faults \cup {"own invitation"} ELSE faults
  BY <1>4, <1>5, <1>6, <1>7, <1>8 DEF Accept
<1>10. Rest'
  BY <1>1, <1>2, <1>3, <1>9, RestKept DEF NoOther, Rest
<1>11. status' = status
  BY <1>2 DEF NoOther
<1>12. Well(a) /\ a.grp = grp /\ a.invite = invite
  BY <1>1, <1>6, WorldFields
<1>13. a.grp[g] # None /\ a.invite[p] = g /\ a.grp[g].leader = l /\ a \in Worlds
  BY <1>4, <1>5, <1>12 DEF Well
<1>14. InviteRemoved(a, w, g, p)
  BY <1>7, <1>12, <1>13, RemoveInviteWell
<1>15. /\ Well(w) /\ w.invite = [a.invite EXCEPT ![p] = None]
       /\ w.grp[g].invitees = a.grp[g].invitees \ {p}
       /\ w.grp[g] # None
       /\ w.grp[g].leader = l /\ w.grp[g].slots = a.grp[g].slots /\ w.grp[g].id = a.grp[g].id
       /\ \A h \in Objects \ {g} : w.grp[h] = a.grp[h]
  BY <1>13, <1>14 DEF InviteRemoved
<1>16. Fewer(a, w) /\ \A st : Listed(a, st) => Listed(w, st)
  BY <1>7, <1>12, <1>13, RemoveInviteFewer
<1>17. Led(a) => Led(w)
  BY <1>16, FewerLed
<1>18. w.invite[p] = None
  BY <1>13, <1>15, WorldParts DEF Pointers
<1>19. w \in Worlds /\ Formed(w)
  BY <1>15 DEF Well
<1>20. l \in Players
  BY <1>13, GroupAt DEF GroupRecs
\* What is left to show in every case.
<1>21. ASSUME Well(u),
              l # p /\ Started(a) /\ Listed(a, status) => Started(u) /\ Listed(u, status),
              l # p /\ Started(a) /\ Listed(a, status) /\ Led(a) => Led(u)
       PROVE  GroupsInv'
  <2>1. "own invitation" \notin faults' => l # p /\ "own invitation" \notin faults
    BY <1>9
  <2>2. "own invitation" \notin faults' => Started(a) /\ Listed(a, status)
    BY <1>1, <1>6, <2>1 DEF Invited
  <2>3. faults' \cap {"leader lost", "own invitation", "no heir"} = {} =>
            "own invitation" \notin faults' /\ Led(a)
    BY <1>1, <1>6, <1>9 DEF Headed
  <2>4. faults \subseteq faults'
    BY <1>9
  <2> QED BY <1>9, <1>10, <1>11, <1>21, <2>1, <2>2, <2>3, <2>4, Advance
<1>22. CASE l = p
  BY <1>8, <1>15, <1>21, <1>22
<1>23. CASE l # p /\ IsFull(w, g)
  <2>1. IsCreated(w, g)
    BY <1>15, <1>23, EmptyNotFull
  <2>2. w.grp[g].id # None
    BY <1>15, <1>19, <2>1 DEF Formed
  <2>3. Started(a) => Started(w)
    BY <1>15, <2>2 DEF Started
  <2>4. u = w
    BY <1>8, <1>23, <2>1
  <2> QED BY <1>15, <1>16, <1>17, <1>21, <2>3, <2>4
<1>24. CASE l # p /\ ~IsFull(w, g) /\ IsCreated(w, g)
  <2>1. w.grp[g].id # None
    BY <1>15, <1>19, <1>24 DEF Formed
  <2>2. Started(a) => Started(w)
    BY <1>15, <2>1 DEF Started
  <2>3. u = AddMember(w, g, p)
    BY <1>8, <1>24
  <2>4. /\ Well(u)
        /\ \A st : Listed(w, st) => Listed(u, st)
        /\ Started(w) => Started(u)
        /\ Led(w) => Led(u)
    BY <1>15, <1>18, <2>1, <2>3, AddMemberKeeps
  <2> QED BY <1>16, <1>17, <1>21, <2>2, <2>4
<1>25. CASE l # p /\ ~IsCreated(w, g) /\ ~FindPlayer(l)
  <2>1. ~IsFull(w, g)
    BY <1>15, <1>25, EmptyNotFull
  <2>2. w.grp[g].id = None
    BY <1>15, <1>19, <1>25 DEF Formed
  <2>3. u = DeleteGroup(RemoveAllInvites(w, g), g)
    BY <1>8, <1>25, <2>1
  <2>4. Gone(w, u, g)
    BY <1>15, <1>19, <2>2, <2>3, DeleteGone
  <2>5. Well(u) /\ GoneKeeps(w, u, g)
    BY <1>15, <2>4, GoneWell, GoneFewer
  <2>6. /\ Fewer(w, u)
        /\ \A st : Listed(w, st) => Listed(u, st)
        /\ u.grp[g] = None /\ \A h \in Objects \ {g} : u.grp[h] = w.grp[h]
    BY <2>5 DEF GoneKeeps
  <2>7. Started(a) => Started(u)
    BY <1>15, <2>6 DEF Started
  <2>8. Led(w) => Led(u)
    BY <2>6, FewerLed
  <2> QED BY <1>16, <1>17, <1>21, <2>5, <2>6, <2>7, <2>8
<1>26. CASE l # p /\ ~IsCreated(w, g) /\ FindPlayer(l)
  <2>1. ~IsFull(w, g)
    BY <1>15, <1>26, EmptyNotFull
  <2>2. w.grp[g].id = None
    BY <1>15, <1>19, <1>26 DEF Formed
  <2>3. PICK b : b = RemoveInvite(w, g, l)
    OBVIOUS
  <2>4. InviteRemoved(w, b, g, l)
    BY <1>15, <1>20, <2>3, RemoveInviteWell
  <2>5. /\ Well(b) /\ b.invite = [w.invite EXCEPT ![l] = None]
        /\ b.grp[g] # None
        /\ b.grp[g].leader = l /\ b.grp[g].id = None
        /\ \A h \in Objects \ {g} : b.grp[h] = w.grp[h]
    BY <1>15, <2>2, <2>4 DEF InviteRemoved
  <2>6. Started(a) => l \in w.grp[g].invitees
    BY <1>13, <1>15, <1>26, <2>2 DEF Started
  <2>7. Fewer(w, b) /\ (l \in w.grp[g].invitees => \A st : Listed(w, st) => Listed(b, st))
    BY <1>15, <1>20, <2>3, RemoveInviteFewer
  <2>8. PICK c : c = Create(b, g)
    OBVIOUS
  <2>9. Created(b, c, g)
    BY <2>5, <2>8, CreateWell
  <2>10. /\ Well(c) /\ c.invite = [b.invite EXCEPT ![l] = None]
         /\ c.grp[g] # None /\ c.grp[g].invitees = b.grp[g].invitees
         /\ c.grp[g].leader = l /\ c.grp[g].id # None
         /\ c.grp[g].slots[l] # None
         /\ \A h \in Objects \ {g} : c.grp[h] = b.grp[h]
    BY <2>5, <2>9 DEF Created
  <2>11. b \in Worlds
    BY <2>5 DEF Well
  <2>12. c.invite = b.invite /\ b.invite[p] = None
    BY <1>18, <1>19, <1>26, <2>5, <2>10, <2>11, WorldParts DEF Pointers
  <2>13. \A h \in Objects : c.grp[h] # None => b.grp[h] # None /\ c.grp[h].invitees = b.grp[h].invitees
    BY <2>5, <2>10
  <2>14. \A st : Listed(b, st) => Listed(c, st)
    BY <2>12, <2>13, SameInvitations
  <2>15. Started(a) => Started(c)
    BY <1>15, <2>5, <2>10 DEF Started
  <2>16. Led(a) => Led(c)
    BY <1>15, <2>5, <2>10 DEF Led
  <2>17. u = AddMember(c, g, p)
    BY <1>8, <1>26, <2>1, <2>3, <2>8
  <2>18. c.invite[p] = None
    BY <2>12
  <2>19. /\ Well(u)
         /\ \A st : Listed(c, st) => Listed(u, st)
         /\ Started(c) => Started(u)
         /\ Led(c) => Led(u)
    BY <2>10, <2>17, <2>18, AddMemberKeeps
  <2> QED BY <1>16, <1>21, <2>6, <2>7, <2>14, <2>15, <2>16, <2>19
<1> QED BY <1>22, <1>23, <1>24, <1>25, <1>26

\* A departure keeps the leader among the members, if he stays or has an heir.
LEMMA DepartsLed ==
    ASSUME NEW w, Well(w), NEW g \in Objects, w.grp[g] # None, w.grp[g].id # None, NEW p \in Players,
           NEW new \in {None} \cup Players, NEW u, Departs(w, u, g, p, new), Led(w),
           \/ w.grp[g].leader # p
           \/ new # None /\ new # p /\ w.grp[g].slots[new] # None
           \/ u.grp[g] = None
    PROVE  Led(u)
<1>1. w \in Worlds
  BY DEF Well
<1>2. /\ \A h \in Objects \ {g} : u.grp[h] = w.grp[h]
      /\ u.grp[g] # None =>
           /\ u.grp[g].slots = [w.grp[g].slots EXCEPT ![p] = None]
           /\ u.grp[g].leader = IF w.grp[g].leader = p /\ new # None THEN new ELSE w.grp[g].leader
           /\ u.grp[g].id = w.grp[g].id
  BY DEF Departs
<1>3. w.grp[g] \in GroupRecs /\ w.grp[g].slots[w.grp[g].leader] # None
  BY <1>1, GroupAt DEF Led
<1>4. w.grp[g].leader \in Players /\ w.grp[g].slots \in [Players -> {None} \cup Subs]
  BY <1>3 DEF GroupRecs
<1>5. ASSUME u.grp[g] # None PROVE u.grp[g].slots[u.grp[g].leader] # None
  <2>1. PICK t \in [Players -> {None} \cup Subs] : t = w.grp[g].slots
    BY <1>4
  <2>2. PICK l \in Players : l = u.grp[g].leader /\ l # p /\ t[l] # None
    <3>1. CASE w.grp[g].leader # p
      BY <1>2, <1>3, <1>4, <1>5, <2>1, <3>1
    <3>2. CASE w.grp[g].leader = p
      BY <1>2, <1>5, <2>1, <3>2
    <3> QED BY <3>1, <3>2
  <2>3. u.grp[g].slots = [t EXCEPT ![p] = None]
    BY <1>2, <1>5, <2>1
  <2> QED BY <2>2, <2>3
<1> QED BY <1>2, <1>5 DEF Led

\* HandleGroupUninviteGuidOpcode preserves the invariant: only the leader
\* kicks, and never himself.
LEMMA UninviteStep ==
    ASSUME GroupsInv, NEW p \in Players, NEW q \in Players, Uninvite(p, q)
    PROVE  GroupsInv'
<1>1. Rest /\ Well(World) /\ Invited /\ Headed
  BY DEF GroupsInv
<1>2. Request(p) /\ NoOther /\ faults' = faults /\ p # q /\ link[p] # None
  BY DEF Uninvite
<1>3. left' \in Nat /\ status[p] = "in"
  BY <1>1, <1>2, RequestKept
<1>4. Rest'
  BY <1>1, <1>2, <1>3, RestKept DEF NoOther, Rest
<1>5. status' = status
  BY <1>2 DEF NoOther
<1>6. PICK w : w = World
  OBVIOUS
<1>7. Well(w) /\ w.grp = grp
  BY <1>1, <1>6, WorldFields
<1>8. PICK g \in Objects : g = link[p] /\ grp[g] # None /\ grp[g].id # None
  BY <1>1, <1>2, LinkFacts
<1>9. grp[g].leader = p
  BY <1>8 DEF Uninvite
<1>10. CASE Becomes(RemoveMember(World, g, q, None))
  <2>1. PICK u : u = RemoveMember(w, g, q, None)
    OBVIOUS
  <2>2. w.grp[g] # None /\ w.grp[g].id # None /\ w.grp[g].leader # q
    BY <1>2, <1>7, <1>8, <1>9
  <2>3. Departs(w, u, g, q, None)
    BY <1>7, <2>1, <2>2, RemoveMemberWell
  <2>4. /\ Well(u)
        /\ Started(w) => Started(u)
        /\ \A st : Listed(w, st) => Listed(u, st)
    BY <2>3 DEF Departs
  <2>5. Led(w) => Led(u)
    BY <1>7, <2>2, <2>3, DepartsLed
  <2>6. "own invitation" \notin faults' => Listed(u, status') /\ Started(u)
    BY <1>1, <1>2, <1>5, <1>6, <2>4 DEF Invited
  <2>7. faults' \cap {"leader lost", "own invitation", "no heir"} = {} => Led(u)
    BY <1>1, <1>2, <1>6, <2>5 DEF Headed
  <2>8. Becomes(u)
    BY <1>6, <1>10, <2>1
  <2> QED BY <1>2, <1>4, <2>4, <2>6, <2>7, <2>8, Advance
<1>11. CASE ~Dangling(q) /\ Becomes(UninviteFromGroup(World, q))
  <2>1. PICK u : u = UninviteFromGroup(w, q)
    OBVIOUS
  <2>7. w.invite[q] # None => w.grp[w.invite[q]] # None
    BY <1>6, <1>11, WorldFields DEF Dangling
  <2>2. /\ Well(u) /\ Fewer(w, u) /\ u.invite[q] = None
        /\ \A st : Listed(w, st) => Listed(u, st)
        /\ Started(w) => Started(u)
    BY <1>7, <2>1, <2>7, UninviteWell DEF Uninvites
  <2>3. Led(w) => Led(u)
    BY <2>2, FewerLed
  <2>4. "own invitation" \notin faults' => Listed(u, status') /\ Started(u)
    BY <1>1, <1>2, <1>5, <1>6, <2>2 DEF Invited
  <2>5. faults' \cap {"leader lost", "own invitation", "no heir"} = {} => Led(u)
    BY <1>1, <1>2, <1>6, <2>3 DEF Headed
  <2>6. Becomes(u)
    BY <1>6, <1>11, <2>1
  <2> QED BY <1>2, <1>4, <2>2, <2>4, <2>5, <2>6, Advance
<1> QED BY <1>8, <1>10, <1>11 DEF Uninvite

\* HandleGroupSetLeaderOpcode preserves the invariant: the new leader is a
\* member.
LEMMA SetLeaderStep ==
    ASSUME GroupsInv, NEW p \in Players, NEW q \in Players, SetLeader(p, q)
    PROVE  GroupsInv'
<1>1. Rest /\ Well(World) /\ Invited /\ Headed
  BY DEF GroupsInv
<1>2. Request(p) /\ NoOther /\ faults' = faults /\ link[p] # None
  BY DEF SetLeader
<1>3. left' \in Nat /\ status[p] = "in"
  BY <1>1, <1>2, RequestKept
<1>4. Rest'
  BY <1>1, <1>2, <1>3, RestKept DEF NoOther, Rest
<1>5. status' = status
  BY <1>2 DEF NoOther
<1>6. PICK w : w = World
  OBVIOUS
<1>7. Well(w) /\ w.grp = grp /\ w \in Worlds
  BY <1>1, <1>6, WorldFields DEF Well
<1>8. PICK g \in Objects : g = link[p] /\ grp[g] # None /\ grp[g].id # None
  BY <1>1, <1>2, LinkFacts
<1>9. w.grp[g] # None /\ w.grp[g].id # None /\ w.grp[g].slots[q] # None
  BY <1>6, <1>7, <1>8 DEF SetLeader, Members
<1>10. PICK u : u = ChangeLeader(w, g, q)
  OBVIOUS
<1>11. LedBy(w, u, g, q)
  BY <1>7, <1>9, <1>10, ChangeLeaderParts
<1>12. /\ Well(u) /\ u.invite = w.invite /\ u.link = w.link /\ u.orig = w.orig
       /\ u.grp[g] # None /\ u.grp[g].invitees = w.grp[g].invitees
       /\ u.grp[g].leader = q /\ u.grp[g].id = w.grp[g].id
       /\ u.grp[g].slots = w.grp[g].slots
       /\ \A h \in Objects \ {g} : u.grp[h] = w.grp[h]
  BY <1>7, <1>9, <1>11, LedByWell
<1>13. \A st : Listed(w, st) => Listed(u, st)
  <2>1. \A h \in Objects : u.grp[h] # None => w.grp[h] # None /\ u.grp[h].invitees = w.grp[h].invitees
    BY <1>9, <1>12
  <2> QED BY <1>12, <2>1, SameInvitations
<1>14. Started(w) => Started(u)
  BY <1>9, <1>12 DEF Started
<1>15. Led(w) => Led(u)
  BY <1>9, <1>12 DEF Led
<1>16. "own invitation" \notin faults' => Listed(u, status') /\ Started(u)
  BY <1>1, <1>2, <1>5, <1>6, <1>13, <1>14 DEF Invited
<1>17. faults' \cap {"leader lost", "own invitation", "no heir"} = {} => Led(u)
  BY <1>1, <1>2, <1>6, <1>15 DEF Headed
<1>18. Becomes(u)
  BY <1>6, <1>8, <1>10 DEF SetLeader
<1> QED BY <1>2, <1>4, <1>12, <1>16, <1>17, <1>18, Advance

\* The counters of a raid and of a party are numbers
\* (_initRaidSubGroupsCounter).
LEMMA CountsType ==
    ASSUME NEW t \in [Players -> {None} \cup Subs]
    PROVE  InitCounts(t) \in [Subs -> Nat] /\ NoCounts \in [Subs -> Nat]
<1>1. ASSUME NEW s \in Subs PROVE Cardinality({p \in Players : t[p] = s}) \in Nat
  <2>1. {p \in Players : t[p] = s} \in SUBSET Players /\ IsFiniteSet(Players)
    BY GroupsAssumption
  <2> QED BY <2>1, FS_Subset, FS_CardinalityType
<1> QED BY <1>1 DEF InitCounts, NoCounts

\* HandleGroupRaidConvertOpcode preserves the invariant.
LEMMA RaidConvertStep ==
    ASSUME GroupsInv, NEW p \in Players, NEW b \in BOOLEAN, RaidConvert(p, b)
    PROVE  GroupsInv'
<1>1. Rest /\ Well(World) /\ Invited /\ Headed
  BY DEF GroupsInv
<1>2. Request(p) /\ NoOther /\ faults' = faults /\ link[p] # None
  BY DEF RaidConvert
<1>3. left' \in Nat /\ status[p] = "in"
  BY <1>1, <1>2, RequestKept
<1>4. Rest'
  BY <1>1, <1>2, <1>3, RestKept DEF NoOther, Rest
<1>5. status' = status
  BY <1>2 DEF NoOther
<1>6. PICK w : w = World
  OBVIOUS
<1>7. Well(w) /\ w.grp = grp /\ w \in Worlds /\ Formed(w) /\ Pointed(w)
  BY <1>1, <1>6, WorldFields DEF Well
<1>8. PICK g \in Objects : g = link[p] /\ grp[g] # None /\ grp[g].id # None
  BY <1>1, <1>2, LinkFacts
<1>9. w.grp[g] # None /\ w.grp[g].id # None /\ w.grp[g] \in GroupRecs
  BY <1>7, <1>8, GroupAt
<1>10. PICK c : c = IF b THEN InitCounts(grp[g].slots) ELSE NoCounts
  OBVIOUS
<1>11. c \in [Subs -> Int]
  <2>1. grp[g].slots \in [Players -> {None} \cup Subs]
    BY <1>7, <1>9 DEF GroupRecs
  <2>2. c \in [Subs -> Nat]
    BY <1>10, <2>1, CountsType
  <2> QED BY <2>2
<1>12. PICK r : r = [w.grp[g] EXCEPT !.raid = b, !.counts = c]
  OBVIOUS
<1>13. /\ r \in GroupRecs /\ r.leader = w.grp[g].leader /\ r.slots = w.grp[g].slots
       /\ r.invitees = w.grp[g].invitees /\ r.id = w.grp[g].id
  BY <1>9, <1>11, <1>12 DEF GroupRecs
<1>14. PICK v : v = [w EXCEPT !.grp[g].raid = b, !.grp[g].counts = c]
  OBVIOUS
<1>15. v = [grp |-> [w.grp EXCEPT ![g] = r], link |-> w.link, orig |-> w.orig,
            invite |-> w.invite, store |-> w.store, next |-> w.next, queue |-> w.queue]
  BY <1>7, <1>12, <1>14 DEF Worlds, Groupings
<1>16. v \in Worlds
  BY <1>7, <1>13, <1>15, WorldParts DEF Worlds, Groupings
<1>17. PICK o \in Statements : o = Op("type", grp[g].id, None, b)
  BY <1>7, <1>9 DEF Op, Statements, GroupRecs
<1>18. PICK u : u = Queue(v, o)
  OBVIOUS
<1>19. /\ u \in Worlds
       /\ u.grp = v.grp /\ u.link = v.link /\ u.orig = v.orig /\ u.invite = v.invite
       /\ u.store = v.store /\ u.next = v.next
  BY <1>16, <1>18, QueueParts
<1>20. /\ u.grp = [w.grp EXCEPT ![g] = r] /\ u.link = w.link /\ u.orig = w.orig /\ u.invite = w.invite
       /\ u.store = w.store /\ u.next = w.next
  BY <1>15, <1>19
<1>21. u.grp[g] = r /\ \A h \in Objects \ {g} : u.grp[h] = w.grp[h]
  BY <1>7, <1>20, WorldParts DEF Groupings
<1>22. u.grp[g] # None
  BY <1>13, <1>21, Nulls
<1>23. IsCreated(u, g)
  BY <1>7, <1>9, <1>13, <1>21 DEF Formed, IsCreated, Members
<1>24. NoSelf => \A q \in Players : \/ u.invite[q] = None
                                    \/ u.invite[q] = g /\ q \in u.grp[g].invitees
                                    \/ u.invite[q] = w.invite[q] /\ w.invite[q] # g
  <2>1. ASSUME NoSelf, NEW q \in Players, w.invite[q] = g PROVE q \in w.grp[g].invitees
    BY <1>7, <2>1, Nulls DEF Pointed
  <2> QED BY <1>13, <1>20, <1>21, <2>1
<1>25. Edited(w, u, g)
  BY <1>9, <1>13, <1>19, <1>20, <1>21, <1>22, <1>23, <1>24 DEF Edited
<1>26. Well(u)
  BY <1>7, <1>25, EditedWell
<1>27. \A st : Listed(w, st) => Listed(u, st)
  <2>1. \A h \in Objects : u.grp[h] # None => w.grp[h] # None /\ u.grp[h].invitees = w.grp[h].invitees
    BY <1>9, <1>13, <1>21
  <2> QED BY <1>20, <2>1, SameInvitations
<1>28. Started(w) => Started(u)
  BY <1>9, <1>13, <1>21 DEF Started
<1>29. Led(w) => Led(u)
  BY <1>9, <1>13, <1>21 DEF Led
<1>30. "own invitation" \notin faults' => Listed(u, status') /\ Started(u)
  BY <1>1, <1>2, <1>5, <1>6, <1>27, <1>28 DEF Invited
<1>31. faults' \cap {"leader lost", "own invitation", "no heir"} = {} => Led(u)
  BY <1>1, <1>2, <1>6, <1>29 DEF Headed
<1>32. Becomes(u)
  BY <1>6, <1>8, <1>10, <1>14, <1>17, <1>18 DEF RaidConvert
<1> QED BY <1>2, <1>4, <1>26, <1>30, <1>31, <1>32, Advance

\* An heir is another member of the group; without one, nobody who is in the
\* world could lead it.
LEMMA HeirFacts ==
    ASSUME NEW w, NEW g, NEW p \in Players, NEW new \in Heirs(w, g, p)
    PROVE  /\ new \in {None} \cup Players
           /\ new # None => new # p /\ w.grp[g].slots[new] # None
           /\ new = None => Candidates(w, g, p) = {}
BY Nulls DEF Heirs, Candidates, Members

\* If the leader leaves a group that goes on without an heir, this is on record.
LEMMA OrphanRecorded ==
    ASSUME NEW g \in Objects, NEW p \in Players, grp[g] # None, grp'[g] # None, grp[g].leader = p,
           Candidates(World, g, p) = {}, grp[g].slots[p] # grp'[g].slots[p]
    PROVE  Orphaned(p) = {"no heir"}
BY DEF Orphaned

\* HandleGroupDisbandOpcode preserves the invariant: an heir leads, or the
\* fault is recorded.
LEMMA LeaveStep ==
    ASSUME GroupsInv, NEW p \in Players, Leave(p)
    PROVE  GroupsInv'
<1>1. Rest /\ Well(World) /\ Invited /\ Headed
  BY DEF GroupsInv
<1>2. Request(p) /\ NoOther /\ faults' = faults \cup Orphaned(p) /\ link[p] # None
  BY DEF Leave
<1>3. left' \in Nat /\ status[p] = "in"
  BY <1>1, <1>2, RequestKept
<1>4. Orphaned(p) \subseteq {"no heir"}
  BY DEF Orphaned
<1>5. Rest'
  BY <1>1, <1>2, <1>3, <1>4, RestKept DEF NoOther, Rest
<1>6. status' = status
  BY <1>2 DEF NoOther
<1>7. PICK w : w = World
  OBVIOUS
<1>8. Well(w) /\ w.grp = grp /\ w \in Worlds
  BY <1>1, <1>7, WorldFields DEF Well
<1>9. PICK g \in Objects : g = link[p] /\ grp[g] # None /\ grp[g].id # None
  BY <1>1, <1>2, LinkFacts
<1>10. w.grp[g] # None /\ w.grp[g].id # None
  BY <1>8, <1>9
<1>11. PICK new \in Heirs(w, g, p) : Becomes(RemoveMember(w, g, p, new))
  BY <1>7, <1>9 DEF Leave
<1>12. /\ new \in {None} \cup Players
       /\ new # None => new # p /\ w.grp[g].slots[new] # None
       /\ new = None => Candidates(w, g, p) = {}
  BY <1>11, HeirFacts
<1>13. PICK u : u = RemoveMember(w, g, p, new)
  OBVIOUS
<1>14. Departs(w, u, g, p, new)
  BY <1>8, <1>10, <1>12, <1>13, RemoveMemberWell
<1>15. /\ Well(u)
       /\ Started(w) => Started(u)
       /\ \A st : Listed(w, st) => Listed(u, st)
       /\ u.grp[g] # None => u.grp[g].slots = [w.grp[g].slots EXCEPT ![p] = None]
  BY <1>14 DEF Departs
<1>16. Becomes(u) /\ grp' = u.grp
  BY <1>11, <1>13 DEF Becomes
<1>17. "own invitation" \notin faults' => Listed(u, status') /\ Started(u)
  BY <1>1, <1>2, <1>6, <1>7, <1>15 DEF Invited
<1>18. ASSUME faults' \cap {"leader lost", "own invitation", "no heir"} = {} PROVE Led(u)
  <2>1. Led(w)
    BY <1>1, <1>2, <1>7, <1>18 DEF Headed
  <2>2. "no heir" \notin Orphaned(p)
    BY <1>2, <1>18
  <2>3. ASSUME w.grp[g].leader = p, new = None, u.grp[g] # None PROVE FALSE
    <3>1. w.grp[g] \in GroupRecs /\ w.grp[g].slots[p] # None
      BY <1>8, <1>10, <2>1, <2>3, GroupAt DEF Led
    <3>2. u.grp[g].slots[p] = None
      BY <1>15, <2>3, <3>1 DEF GroupRecs
    <3>3. /\ grp[g] # None /\ grp'[g] # None /\ grp[g].leader = p
          /\ grp[g].slots[p] # grp'[g].slots[p]
      BY <1>8, <1>9, <1>16, <2>3, <3>1, <3>2
    <3>4. Candidates(World, g, p) = {}
      BY <1>7, <1>12, <2>3
    <3>5. Orphaned(p) = {"no heir"}
      BY <3>3, <3>4, OrphanRecorded
    <3> QED BY <2>2, <3>5
  <2>4. \/ w.grp[g].leader # p
        \/ new # None /\ new # p /\ w.grp[g].slots[new] # None
        \/ u.grp[g] = None
    BY <1>12, <2>3
  <2> QED BY <1>8, <1>10, <1>12, <1>14, <2>1, <2>4, DepartsLed
<1> QED BY <1>2, <1>5, <1>15, <1>16, <1>17, <1>18, Advance

\* A player's own links go.
LEMMA CutWell ==
    ASSUME NEW w, Well(w), NEW p \in Players, NEW u, u = [w EXCEPT !.link[p] = None, !.orig[p] = None]
    PROVE  Well(u) /\ u.grp = w.grp /\ u.invite = w.invite
<1>1. w \in Worlds /\ Formed(w) /\ Numbered(w) /\ Pointed(w)
  BY DEF Well
<1>2. PICK a, b : a = [w.link EXCEPT ![p] = None] /\ b = [w.orig EXCEPT ![p] = None]
  OBVIOUS
<1>3. a \in Pointers /\ b \in Pointers
  BY <1>1, <1>2, WorldParts DEF Pointers
<1>4. u = [grp |-> w.grp, link |-> a, orig |-> b, invite |-> w.invite,
           store |-> w.store, next |-> w.next, queue |-> w.queue]
  BY <1>1, <1>2 DEF Worlds
<1>5. u \in Worlds
  BY <1>1, <1>3, <1>4, WorldParts DEF Worlds
<1>6. /\ u.grp = w.grp /\ u.invite = w.invite /\ u.store = w.store /\ u.next = w.next
      /\ u.link = a /\ u.orig = b
  <2>1. PICK y : y = [grp |-> w.grp, link |-> a, orig |-> b, invite |-> w.invite,
                      store |-> w.store, next |-> w.next, queue |-> w.queue]
    OBVIOUS
  <2>2. /\ y.grp = w.grp /\ y.invite = w.invite /\ y.store = w.store /\ y.next = w.next
        /\ y.link = a /\ y.orig = b
    BY <2>1
  <2> QED BY <1>4, <2>1, <2>2
<1>7. \A q \in Players : u.link[q] \in {None, w.link[q]} /\ u.orig[q] \in {None, w.orig[q]}
  BY <1>1, <1>2, <1>6, WorldParts DEF Pointers
<1>8. Formed(u)
  BY <1>1, <1>6 DEF Formed, IsCreated, Members
<1>9. Numbered(u)
  BY <1>1, <1>6 DEF Numbered
<1>10. Pointed(u)
  BY <1>1, <1>6, <1>7 DEF Pointed
<1> QED BY <1>5, <1>6, <1>8, <1>9, <1>10 DEF Well

\* Logout: u is the state before the player's own link goes.
LEMMA LogoutAdvance ==
    ASSUME GroupsInv, NEW p \in Players, NEW u, Well(u),
           status' = [status EXCEPT ![p] = "off"], left' \in Nat,
           faults' = faults \cup Orphaned(p), UNCHANGED <<db, loaded, restarts>>,
           Becomes([u EXCEPT !.link[p] = None, !.orig[p] = None]),
           u.invite[p] = None,
           Started(World) => Started(u), Listed(World, status) => Listed(u, status),
           faults' \cap {"leader lost", "own invitation", "no heir"} = {} => Led(u)
    PROVE  GroupsInv'
<1>1. Rest /\ Invited
  BY DEF GroupsInv
<1>2. left \in Nat /\ status \in [Players -> {"off", "loading", "in", "zoning"}]
  BY <1>1 DEF Rest
<1>3. left' \in Nat /\ status' \in [Players -> {"off", "loading", "in", "zoning"}]
  BY <1>2
<1>4. Orphaned(p) \subseteq {"no heir"}
  BY DEF Orphaned
<1>5. Rest'
  BY <1>1, <1>3, <1>4 DEF Rest
<1>6. PICK x : x = [u EXCEPT !.link[p] = None, !.orig[p] = None]
  OBVIOUS
<1>7. Well(x) /\ x.grp = u.grp /\ x.invite = u.invite
  BY <1>6, CutWell
<1>8. ASSUME Listed(u, status) PROVE Listed(x, status')
  <2> SUFFICES ASSUME NEW h \in Objects, x.grp[h] # None, NEW q \in x.grp[h].invitees
               PROVE  x.invite[q] = h /\ status'[q] \in {"in", "zoning"}
    BY DEF Listed
  <2>1. u.invite[q] = h /\ status[q] \in {"in", "zoning"}
    BY <1>7, <1>8 DEF Listed
  <2>2. q # p
    BY <2>1, Nulls
  <2>3. u \in Worlds
    BY DEF Well
  <2>4. q \in Players
    BY <1>7, <2>3, GroupAt DEF GroupRecs
  <2> QED BY <1>2, <1>7, <2>1, <2>2, <2>4
<1>9. Started(u) => Started(x)
  BY <1>7 DEF Started
<1>10. Led(u) => Led(x)
  BY <1>7 DEF Led
<1>11. "own invitation" \notin faults' => Listed(x, status') /\ Started(x)
  BY <1>1, <1>8, <1>9 DEF Invited
<1> QED BY <1>5, <1>6, <1>7, <1>10, <1>11, Advance

\* LogoutPlayer preserves the invariant, whether or not the player leaves his
\* group.
LEMMA LogoutStep ==
    ASSUME GroupsInv, NEW p \in Players, NEW socket \in BOOLEAN, Logout(p, socket)
    PROVE  GroupsInv'
<1>1. Rest /\ Well(World) /\ Invited /\ Headed
  BY DEF GroupsInv
<1>2. /\ status' = [status EXCEPT ![p] = "off"] /\ left' \in Nat
      /\ faults' = faults \cup Orphaned(p) /\ UNCHANGED <<db, loaded, restarts>>
      /\ ~Dangling(p)
  BY <1>1, OneLess DEF Logout
<1>3. PICK a : a = World
  OBVIOUS
<1>4. Well(a) /\ a.grp = grp /\ a.link = link /\ a \in Worlds
  BY <1>1, <1>3, WorldFields DEF Well
<1>5. PICK w : w = UninviteFromGroup(a, p)
  OBVIOUS
<1>6. /\ Well(w) /\ Fewer(a, w) /\ w.invite[p] = None
      /\ \A st : Listed(a, st) => Listed(w, st)
      /\ Started(a) => Started(w)
  <2>1. a.invite[p] # None => a.grp[a.invite[p]] # None
    BY <1>2, <1>3, WorldFields DEF Dangling
  <2> QED BY <1>4, <1>5, <2>1, UninviteWell DEF Uninvites
<1>7. Led(a) => Led(w)
  BY <1>6, FewerLed
<1>8. faults' \cap {"leader lost", "own invitation", "no heir"} = {} => Led(w)
  BY <1>1, <1>2, <1>3, <1>7 DEF Headed
<1>9. CASE Becomes([w EXCEPT !.link[p] = None, !.orig[p] = None])
  BY <1>2, <1>3, <1>6, <1>8, <1>9, LogoutAdvance
<1>10. ASSUME w.link[p] # None,
              NEW new \in Heirs(w, w.link[p], p),
              Becomes([RemoveMember(w, w.link[p], p, new) EXCEPT !.link[p] = None, !.orig[p] = None])
       PROVE  GroupsInv'
  <2>1. w \in Worlds /\ Pointed(w)
    BY <1>6 DEF Well
  <2>2. PICK g \in Objects : g = w.link[p] /\ w.grp[g] # None /\ w.grp[g].id # None
    BY <1>10, <2>1, WorldParts DEF Pointed, Pointers
  <2>3. /\ new \in {None} \cup Players
        /\ new # None => new # p /\ w.grp[g].slots[new] # None
        /\ new = None => Candidates(w, g, p) = {}
    BY <1>10, <2>2, HeirFacts
  <2>4. PICK u : u = RemoveMember(w, g, p, new)
    OBVIOUS
  <2>5. Departs(w, u, g, p, new)
    BY <1>6, <2>2, <2>3, <2>4, RemoveMemberWell
  <2>6. /\ Well(u)
        /\ Started(w) => Started(u)
        /\ \A st : Listed(w, st) => Listed(u, st)
        /\ u.invite[p] \in {None, w.invite[p]}
        /\ u.grp[g] # None => u.grp[g].slots = [w.grp[g].slots EXCEPT ![p] = None]
    BY <2>5 DEF Departs
  <2>7. PICK x : x = [u EXCEPT !.link[p] = None, !.orig[p] = None]
    OBVIOUS
  <2>8. x.grp = u.grp
    <3>1. Well(u)
      BY <2>6
    <3> QED BY <2>7, <3>1, CutWell
  <2>9. Becomes(x) /\ grp' = u.grp
    BY <1>10, <2>2, <2>4, <2>7, <2>8 DEF Becomes
  <2>10. ASSUME faults' \cap {"leader lost", "own invitation", "no heir"} = {} PROVE Led(u)
    <3>1. Led(w)
      BY <1>8, <2>10
    <3>2. "no heir" \notin Orphaned(p)
      BY <1>2, <2>10
    <3>3. /\ a.grp[g] # None /\ w.grp[g].leader = a.grp[g].leader /\ w.grp[g].slots = a.grp[g].slots
      BY <1>6, <2>2 DEF Fewer
    <3>4. ASSUME w.grp[g].leader = p, new = None, u.grp[g] # None PROVE FALSE
      <4>1. w.grp[g] \in GroupRecs /\ w.grp[g].slots[p] # None
        BY <2>1, <2>2, <3>1, <3>4, GroupAt DEF Led
      <4>2. u.grp[g].slots[p] = None
        BY <2>6, <3>4, <4>1 DEF GroupRecs
      <4>3. /\ grp[g] # None /\ grp'[g] # None /\ grp[g].leader = p
            /\ grp[g].slots[p] # grp'[g].slots[p]
        BY <1>4, <2>9, <3>3, <3>4, <4>1, <4>2
      <4>4. Candidates(a, g, p) = Candidates(w, g, p)
        BY <3>3 DEF Candidates, Members
      <4>5. Candidates(World, g, p) = {}
        BY <1>3, <2>3, <3>4, <4>4
      <4>6. Orphaned(p) = {"no heir"}
        BY <4>3, <4>5, OrphanRecorded
      <4> QED BY <3>2, <4>6
    <3>5. \/ w.grp[g].leader # p
          \/ new # None /\ new # p /\ w.grp[g].slots[new] # None
          \/ u.grp[g] = None
      BY <2>3, <3>4
    <3> QED BY <1>6, <2>2, <2>3, <2>5, <3>1, <3>5, DepartsLed
  <2>11. u.invite[p] = None
    BY <1>6, <2>6
  <2>12. (Started(World) => Started(u)) /\ (Listed(World, status) => Listed(u, status))
    BY <1>3, <1>6, <2>6
  <2>13. Becomes([u EXCEPT !.link[p] = None, !.orig[p] = None])
    BY <2>7, <2>9
  <2> QED BY <1>2, <2>6, <2>10, <2>11, <2>12, <2>13, LogoutAdvance
<1> QED BY <1>3, <1>5, <1>9, <1>10 DEF Logout

\* The steps that change no group and no invitation.
LEMMA SameWorldParts ==
    ASSUME Well(World), NEW u, u = World,
           NEW v \in Worlds, v.grp = u.grp, v.orig = u.orig, v.invite = u.invite, v.store = u.store, v.next = u.next,
           \A p \in Players : v.link[p] = u.link[p]
                              \/ (v.link[p] # None => u.grp[v.link[p]] # None /\ u.grp[v.link[p]].id # None)
    PROVE  /\ Well(v)
           /\ \A st : Listed(u, st) => Listed(v, st)
           /\ Started(u) => Started(v)
           /\ Led(u) => Led(v)
<1>1. u \in Worlds /\ Formed(u) /\ Numbered(u) /\ Pointed(u)
  BY DEF Well
<1>2. Formed(v)
  BY <1>1 DEF Formed, IsCreated, Members
<1>3. Numbered(v)
  BY <1>1 DEF Numbered
<1>4. Pointed(v)
  BY <1>1 DEF Pointed
<1>5. \A st : Listed(u, st) => Listed(v, st)
  BY DEF Listed
<1>6. (Started(u) => Started(v)) /\ (Led(u) => Led(v))
  BY DEF Started, Led
<1> QED BY <1>2, <1>3, <1>4, <1>5, <1>6 DEF Well

\* A player who is out of the game holds no invitation that a group knows of.
LEMMA StatusListed ==
    ASSUME NEW w, w \in Worlds, NEW st \in [Players -> {"off", "loading", "in", "zoning"}], Listed(w, st),
           NEW p \in Players, NEW x, x \in {"in", "zoning"} \/ st[p] \in {"off", "loading"}
    PROVE  Listed(w, [st EXCEPT ![p] = x])
<1> SUFFICES ASSUME NEW h \in Objects, w.grp[h] # None, NEW q \in w.grp[h].invitees
             PROVE  w.invite[q] = h /\ [st EXCEPT ![p] = x][q] \in {"in", "zoning"}
  BY DEF Listed
<1>1. w.invite[q] = h /\ st[q] \in {"in", "zoning"}
  BY DEF Listed
<1>2. q \in Players
  BY GroupAt DEF GroupRecs
<1>3. st[q] # "off" /\ st[q] # "loading"
  BY <1>1
<1> QED BY <1>1, <1>2, <1>3

\* LoginQueryHolder::Initialize preserves the invariant.
LEMMA AskLoginStep ==
    ASSUME GroupsInv, NEW p \in Players, AskLogin(p)
    PROVE  GroupsInv'
<1>1. Rest /\ Well(World) /\ Invited /\ Headed
  BY DEF GroupsInv
<1>2. /\ left > 0 /\ left' = left - 1 /\ status[p] = "off" /\ status' = [status EXCEPT ![p] = "loading"]
      /\ loaded' = [loaded EXCEPT ![p] = None] /\ UNCHANGED <<db, restarts, faults>>
  BY DEF AskLogin
<1>3. left' \in Nat
  BY <1>1, <1>2, OneLess
<1>4. status \in [Players -> {"off", "loading", "in", "zoning"}]
      /\ loaded \in [Players -> {None} \cup [{1} -> {None} \cup MemberRows]]
  BY <1>1 DEF Rest
<1>5. status' \in [Players -> {"off", "loading", "in", "zoning"}]
  BY <1>2, <1>4
<1>6. loaded' \in [Players -> {None} \cup [{1} -> {None} \cup MemberRows]]
  BY <1>2, <1>4
<1>7. Rest'
  BY <1>1, <1>2, <1>3, <1>5, <1>6 DEF Rest
<1>8. PICK w : w = World
  OBVIOUS
<1>9. w \in Worlds
  BY <1>1, <1>8 DEF Well
<1>10. PICK o \in Statements : o = Op("load", None, p, None)
  BY DEF Op, Statements
<1>11. PICK u : u = Queue(w, o)
  OBVIOUS
<1>12. /\ u \in Worlds
       /\ u.queue = Append(w.queue, o)
       /\ u.grp = w.grp /\ u.link = w.link /\ u.orig = w.orig /\ u.invite = w.invite
       /\ u.store = w.store /\ u.next = w.next
  BY <1>9, <1>11, QueueParts
<1>13. /\ Well(u)
       /\ \A st : Listed(w, st) => Listed(u, st)
       /\ Started(w) => Started(u)
       /\ Led(w) => Led(u)
  BY <1>1, <1>8, <1>12, SameWorldParts
<1>14. Listed(u, status) => Listed(u, status')
  BY <1>2, <1>4, <1>12, StatusListed
<1>15. Becomes(u)
  BY <1>8, <1>10, <1>11 DEF AskLogin
<1>16. "own invitation" \notin faults' => Listed(u, status') /\ Started(u)
  BY <1>1, <1>2, <1>8, <1>13, <1>14 DEF Invited
<1>17. faults' \cap {"leader lost", "own invitation", "no heir"} = {} => Led(u)
  BY <1>1, <1>2, <1>8, <1>13 DEF Headed
<1> QED BY <1>2, <1>7, <1>13, <1>15, <1>16, <1>17, Advance

\* _LoadGroup preserves the invariant: the link is to a group in GroupDbStore.
LEMMA LoginStep ==
    ASSUME GroupsInv, NEW p \in Players, Login(p)
    PROVE  GroupsInv'
<1>1. Rest /\ Well(World) /\ Invited /\ Headed
  BY DEF GroupsInv
<1>2. PICK g : g = IF loaded[p][1] = None THEN None ELSE store[loaded[p][1].id]
  OBVIOUS
<1>3. /\ link' = [link EXCEPT ![p] = g]
      /\ faults' = IF g # None /\ p \notin Members(World, g) THEN faults \cup {"stale login"} ELSE faults
      /\ loaded[p] # None /\ status[p] = "loading"
      /\ status' = [status EXCEPT ![p] = "in"] /\ loaded' = [loaded EXCEPT ![p] = None]
      /\ UNCHANGED <<grp, orig, invite, store, next, queue, db, left, restarts>>
  BY <1>2 DEF Login
<1>4. status \in [Players -> {"off", "loading", "in", "zoning"}]
      /\ loaded \in [Players -> {None} \cup [{1} -> {None} \cup MemberRows]]
  BY <1>1 DEF Rest
<1>5. status' \in [Players -> {"off", "loading", "in", "zoning"}]
  BY <1>3, <1>4
<1>6. loaded' \in [Players -> {None} \cup [{1} -> {None} \cup MemberRows]]
  BY <1>3, <1>4
<1>7. faults' \subseteq {"own invitation", "self invitation", "stale login", "leader lost", "no heir", "orphan row"}
  BY <1>1, <1>3 DEF Rest
<1>8. Rest'
  BY <1>1, <1>3, <1>5, <1>6, <1>7 DEF Rest
<1>9. PICK w : w = World
  OBVIOUS
<1>10. /\ w \in Worlds /\ Numbered(w)
       /\ w.grp = grp /\ w.link = link /\ w.orig = orig /\ w.invite = invite
       /\ w.store = store /\ w.next = next /\ w.queue = queue
  BY <1>1, <1>9, WorldFields DEF Well
<1>11. g # None => g \in Objects /\ grp[g] # None /\ grp[g].id # None
  <2>1. loaded[p] \in [{1} -> {None} \cup MemberRows]
    BY <1>3, <1>4
  <2>2. loaded[p][1] \in {None} \cup MemberRows
    BY <2>1
  <2>3. ASSUME g # None PROVE g \in Objects /\ grp[g] # None /\ grp[g].id # None
    <3>1. PICK i \in Ids : g = store[i]
      BY <1>2, <2>2, <2>3 DEF MemberRows
    <3>2. w.store[i] \in Objects
      BY <1>10, <2>3, <3>1, WorldParts
    <3>3. w.grp[w.store[i]] # None /\ w.grp[w.store[i]].id = i
      BY <1>10, <3>2, Nulls DEF Numbered
    <3> QED BY <1>10, <3>1, <3>2, <3>3, Nulls
  <2> QED BY <2>3
<1>12. PICK u : u = [grp |-> grp, link |-> link', orig |-> orig, invite |-> invite,
                     store |-> store, next |-> next, queue |-> queue]
  OBVIOUS
<1>13. /\ u.grp = w.grp /\ u.orig = w.orig /\ u.invite = w.invite /\ u.store = w.store /\ u.next = w.next
       /\ u.link = link' /\ u.queue = w.queue
  BY <1>10, <1>12
<1>14. link' \in Pointers
  BY <1>3, <1>10, <1>11, WorldParts DEF Pointers
<1>15. u \in Worlds
  BY <1>10, <1>12, <1>14, WorldParts DEF Worlds
<1>16. \A q \in Players : u.link[q] = w.link[q]
                          \/ (u.link[q] # None => w.grp[u.link[q]] # None /\ w.grp[u.link[q]].id # None)
  <2>1. \A q \in Players : u.link[q] = w.link[q] \/ u.link[q] = g
    BY <1>3, <1>10, <1>13, WorldParts DEF Pointers
  <2> QED BY <1>10, <1>11, <2>1
<1>17. /\ Well(u)
       /\ \A st : Listed(w, st) => Listed(u, st)
       /\ Started(w) => Started(u)
       /\ Led(w) => Led(u)
  BY <1>1, <1>9, <1>13, <1>15, <1>16, SameWorldParts
<1>18. Listed(u, status) => Listed(u, status')
  BY <1>3, <1>4, <1>15, StatusListed
<1>19. Becomes(u)
  BY <1>3, <1>10, <1>13 DEF Becomes
<1>20. "own invitation" \notin faults' => Listed(u, status') /\ Started(u)
  BY <1>1, <1>3, <1>9, <1>17, <1>18 DEF Invited
<1>21. faults' \cap {"leader lost", "own invitation", "no heir"} = {} => Led(u)
  BY <1>1, <1>3, <1>9, <1>17 DEF Headed
<1> QED BY <1>3, <1>8, <1>17, <1>19, <1>20, <1>21, Advance

\* Zone and Arrive.
LEMMA MoveStep ==
    ASSUME GroupsInv, NEW p \in Players, Zone(p) \/ Arrive(p)
    PROVE  GroupsInv'
<1>1. Rest /\ Well(World) /\ Invited /\ Headed
  BY DEF GroupsInv
<1>2. PICK x \in {"in", "zoning"} : status' = [status EXCEPT ![p] = x]
  BY DEF Zone, Arrive
<1>3. UNCHANGED <<grp, link, orig, invite, store, next, queue, db, loaded, restarts, faults>>
  BY DEF Zone, Arrive
<1>4. left' \in Nat
  <2>1. CASE Zone(p)
    BY <1>1, <2>1, RequestKept DEF Zone
  <2>2. CASE Arrive(p)
    BY <1>1, <2>2 DEF Arrive, Rest
  <2> QED BY <2>1, <2>2
<1>5. status \in [Players -> {"off", "loading", "in", "zoning"}]
  BY <1>1 DEF Rest
<1>6. status' \in [Players -> {"off", "loading", "in", "zoning"}]
  BY <1>2, <1>5
<1>7. Rest'
  BY <1>1, <1>3, <1>4, <1>6 DEF Rest
<1>8. PICK w : w = World
  OBVIOUS
<1>9. w \in Worlds /\ Well(w)
  BY <1>1, <1>8 DEF Well
<1>10. Becomes(w)
  BY <1>3, <1>8, WorldFields DEF Becomes
<1>11. Listed(w, status) => Listed(w, status')
  BY <1>2, <1>5, <1>9, StatusListed
<1>12. "own invitation" \notin faults' => Listed(w, status') /\ Started(w)
  BY <1>1, <1>3, <1>8, <1>11 DEF Invited
<1>13. faults' \cap {"leader lost", "own invitation", "no heir"} = {} => Led(w)
  BY <1>1, <1>3, <1>8 DEF Headed
<1> QED BY <1>3, <1>7, <1>9, <1>10, <1>12, <1>13, Advance

\* The tables groups and group_member.
Tables == [groups : [Ids -> {None} \cup GroupRows], members : [Players -> {None} \cup MemberRows]]

\* A statement that is executed leaves tables.
LEMMA ApplyType ==
    ASSUME NEW d \in Tables, NEW o \in Statements
    PROVE  Apply(d, o) \in Tables
<1>1. d.groups \in [Ids -> {None} \cup GroupRows] /\ d.members \in [Players -> {None} \cup MemberRows]
  BY DEF Tables
<1>2. ASSUME NEW x \in [Ids -> {None} \cup GroupRows], NEW y \in [Players -> {None} \cup MemberRows],
             Apply(d, o) = [groups |-> x, members |-> y]
      PROVE  Apply(d, o) \in Tables
  BY <1>2 DEF Tables
<1>3. d = [groups |-> d.groups, members |-> d.members]
  BY DEF Tables
<1>4. CASE o.op = "ins_group"
  <2>1. o.id \in Ids /\ o.p \in Players /\ o.v \in BOOLEAN
    BY <1>4 DEF Statements
  <2>2. PICK r : r = IF d.groups[o.id] = None THEN [leader |-> o.p, raid |-> o.v] ELSE d.groups[o.id]
    OBVIOUS
  <2>3. r \in {None} \cup GroupRows
    BY <1>1, <2>1, <2>2 DEF GroupRows
  <2>4. Apply(d, o) = [groups |-> [d.groups EXCEPT ![o.id] = r], members |-> d.members]
    BY <1>4, <2>2 DEF Apply, Tables
  <2>5. [d.groups EXCEPT ![o.id] = r] \in [Ids -> {None} \cup GroupRows]
    BY <1>1, <2>3
  <2> QED BY <1>1, <1>2, <2>4, <2>5
<1>5. CASE o.op = "ins_member"
  <2>1. o.id \in Ids /\ o.p \in Players /\ o.v \in Subs
    BY <1>5 DEF Statements
  <2>2. PICK r : r = IF d.members[o.p] = None THEN [id |-> o.id, sub |-> o.v] ELSE d.members[o.p]
    OBVIOUS
  <2>3. r \in {None} \cup MemberRows
    BY <1>1, <2>1, <2>2 DEF MemberRows
  <2>4. Apply(d, o) = [groups |-> d.groups, members |-> [d.members EXCEPT ![o.p] = r]]
    BY <1>5, <2>2 DEF Apply, Tables
  <2>5. [d.members EXCEPT ![o.p] = r] \in [Players -> {None} \cup MemberRows]
    BY <1>1, <2>3
  <2> QED BY <1>1, <1>2, <2>4, <2>5
<1>6. CASE o.op = "del_member"
  <2>1. Apply(d, o) = [groups |-> d.groups, members |-> [d.members EXCEPT ![o.p] = None]]
    BY <1>6 DEF Apply, Tables
  <2>2. [d.members EXCEPT ![o.p] = None] \in [Players -> {None} \cup MemberRows]
    BY <1>1
  <2> QED BY <1>1, <1>2, <2>1, <2>2
<1>7. CASE o.op = "leader"
  <2>1. o.id \in Ids /\ o.p \in Players
    BY <1>7 DEF Statements
  <2>2. PICK r : r = IF d.groups[o.id] = None THEN d.groups[o.id] ELSE [d.groups[o.id] EXCEPT !.leader = o.p]
    OBVIOUS
  <2>3. r \in {None} \cup GroupRows
    BY <1>1, <2>1, <2>2 DEF GroupRows
  <2>4. Apply(d, o) = [groups |-> [d.groups EXCEPT ![o.id] = r], members |-> d.members]
    BY <1>7, <2>2 DEF Apply, Tables
  <2>5. [d.groups EXCEPT ![o.id] = r] \in [Ids -> {None} \cup GroupRows]
    BY <1>1, <2>3
  <2> QED BY <1>1, <1>2, <2>4, <2>5
<1>8. CASE o.op = "type"
  <2>1. o.id \in Ids /\ o.v \in BOOLEAN
    BY <1>8 DEF Statements
  <2>2. PICK r : r = IF d.groups[o.id] = None THEN d.groups[o.id] ELSE [d.groups[o.id] EXCEPT !.raid = o.v]
    OBVIOUS
  <2>3. r \in {None} \cup GroupRows
    BY <1>1, <2>1, <2>2 DEF GroupRows
  <2>4. Apply(d, o) = [groups |-> [d.groups EXCEPT ![o.id] = r], members |-> d.members]
    BY <1>8, <2>2 DEF Apply, Tables
  <2>5. [d.groups EXCEPT ![o.id] = r] \in [Ids -> {None} \cup GroupRows]
    BY <1>1, <2>3
  <2> QED BY <1>1, <1>2, <2>4, <2>5
<1>9. CASE o.op = "del_group"
  <2>1. PICK y : y = [p \in Players |-> IF d.members[p] # None /\ d.members[p].id = o.id
                                        THEN None ELSE d.members[p]]
    OBVIOUS
  <2>2. y \in [Players -> {None} \cup MemberRows]
    BY <1>1, <2>1
  <2>3. [d.groups EXCEPT ![o.id] = None] \in [Ids -> {None} \cup GroupRows]
    BY <1>1
  <2>4. Apply(d, o) = [groups |-> [d.groups EXCEPT ![o.id] = None], members |-> y]
    BY <1>9, <2>1 DEF Apply
  <2> QED BY <1>2, <2>2, <2>3, <2>4
<1>10. CASE o.op = "load"
  <2>1. Apply(d, o) = d
    BY <1>10 DEF Apply
  <2> QED BY <2>1
<1>11. o.op \in {"ins_group", "ins_member", "del_member", "leader", "type", "del_group", "load"}
  BY DEF Statements
<1> QED BY <1>4, <1>5, <1>6, <1>7, <1>8, <1>9, <1>10, <1>11

\* DatabaseWorker preserves the invariant.
LEMMA WorkerStep ==
    ASSUME GroupsInv, DatabaseWorker
    PROVE  GroupsInv'
<1>1. Rest /\ Well(World) /\ Invited /\ Headed
  BY DEF GroupsInv
<1>2. PICK o : o = Head(queue)
  OBVIOUS
<1>3. /\ queue # <<>> /\ queue' = Tail(queue) /\ db' = Apply(db, o)
      /\ loaded' = IF o.op = "load" THEN [loaded EXCEPT ![o.p] = <<db.members[o.p]>>] ELSE loaded
      /\ UNCHANGED <<grp, link, orig, invite, store, next, status, left, restarts, faults>>
  BY <1>2 DEF DatabaseWorker
<1>4. PICK w : w = World
  OBVIOUS
<1>5. /\ w \in Worlds
      /\ w.grp = grp /\ w.link = link /\ w.orig = orig /\ w.invite = invite
      /\ w.store = store /\ w.next = next /\ w.queue = queue
  BY <1>1, <1>4, WorldFields DEF Well
<1>6. queue \in Seq(Statements)
  BY <1>5, WorldParts
<1>7. o \in Statements /\ queue' \in Seq(Statements)
  BY <1>2, <1>3, <1>6
<1>8. db \in Tables /\ loaded \in [Players -> {None} \cup [{1} -> {None} \cup MemberRows]]
  BY <1>1 DEF Rest, Tables
<1>9. db' \in Tables
  BY <1>3, <1>7, <1>8, ApplyType
<1>10. loaded' \in [Players -> {None} \cup [{1} -> {None} \cup MemberRows]]
  <2>1. CASE o.op = "load"
    <3>1. o.p \in Players
      BY <1>7, <2>1 DEF Statements
    <3>2. PICK m \in {None} \cup MemberRows : m = db.members[o.p]
      BY <1>8, <3>1 DEF Tables
    <3>3. <<m>> \in [{1} -> {None} \cup MemberRows]
      OBVIOUS
    <3> QED BY <1>3, <1>8, <2>1, <3>2, <3>3
  <2>2. CASE o.op # "load"
    BY <1>3, <1>8, <2>2
  <2> QED BY <2>1, <2>2
<1>11. Rest'
  BY <1>1, <1>3, <1>9, <1>10 DEF Rest, Tables
<1>12. PICK u : u = [grp |-> grp, link |-> link, orig |-> orig, invite |-> invite,
                     store |-> store, next |-> next, queue |-> queue']
  OBVIOUS
<1>13. /\ u.grp = w.grp /\ u.orig = w.orig /\ u.invite = w.invite /\ u.store = w.store /\ u.next = w.next
       /\ u.link = w.link /\ u.queue = queue'
  BY <1>5, <1>12
<1>14. u \in Worlds
  BY <1>5, <1>7, <1>12, WorldParts DEF Worlds
<1>15. /\ Well(u)
       /\ \A st : Listed(w, st) => Listed(u, st)
       /\ Started(w) => Started(u)
       /\ Led(w) => Led(u)
  BY <1>1, <1>4, <1>13, <1>14, SameWorldParts
<1>16. Becomes(u)
  BY <1>3, <1>5, <1>13 DEF Becomes
<1>17. "own invitation" \notin faults' => Listed(u, status') /\ Started(u)
  BY <1>1, <1>3, <1>4, <1>15 DEF Invited
<1>18. faults' \cap {"leader lost", "own invitation", "no heir"} = {} => Led(u)
  BY <1>1, <1>3, <1>4, <1>15 DEF Headed
<1> QED BY <1>3, <1>11, <1>15, <1>16, <1>17, <1>18, Advance

\* The rows of a group that the start keeps make a group with members.
LEMMA StoredGroupFacts ==
    ASSUME db \in Tables, NEW i \in Kept
    PROVE  /\ i \in Ids /\ StoredGroup(i) \in GroupRecs
           /\ StoredGroup(i).id = i /\ StoredGroup(i).invitees = {}
           /\ StoredGroup(i).slots = StoredSlots(i) /\ StoredGroup(i).leader = db.groups[i].leader
           /\ \E p \in Players : StoredSlots(i)[p] # None
<1>1. i \in Ids /\ db.groups[i] # None
      /\ Cardinality({p \in Players : db.members[p] # None /\ db.members[p].id = i}) > 1
  BY DEF Kept
<1>2. db.groups[i] \in GroupRows /\ db.members \in [Players -> {None} \cup MemberRows]
  BY <1>1 DEF Tables
<1>3. StoredSlots(i) \in [Players -> {None} \cup Subs]
  BY <1>2 DEF StoredSlots, MemberRows
<1>4. PICK c : c = IF db.groups[i].raid THEN InitCounts(StoredSlots(i)) ELSE NoCounts
  OBVIOUS
<1>5. c \in [Subs -> Int]
  <2>1. c \in [Subs -> Nat]
    BY <1>3, <1>4, CountsType
  <2> QED BY <2>1
<1>6. PICK l \in Players, b \in BOOLEAN : l = db.groups[i].leader /\ b = db.groups[i].raid
  BY <1>2 DEF GroupRows
<1>7. StoredGroup(i) = [leader |-> l, slots |-> StoredSlots(i), invitees |-> {}, raid |-> b, counts |-> c, id |-> i]
  BY <1>4, <1>6 DEF StoredGroup
<1>8. StoredGroup(i) \in GroupRecs
  BY <1>1, <1>3, <1>5, <1>7 DEF GroupRecs
<1>9. {p \in Players : db.members[p] # None /\ db.members[p].id = i} # {}
  <2>1. PICK S : S = {p \in Players : db.members[p] # None /\ db.members[p].id = i}
    OBVIOUS
  <2>2. Cardinality(S) > 1
    BY <1>1, <2>1
  <2>3. S # {}
    BY <2>2, FS_EmptySet
  <2> QED BY <2>1, <2>3
<1>10. PICK p \in Players : db.members[p] # None /\ db.members[p].id = i
  BY <1>9
<1>11. StoredSlots(i)[p] # None
  BY <1>2, <1>10, Nulls DEF StoredSlots, MemberRows
<1> QED BY <1>1, <1>6, <1>7, <1>8, <1>11

\* There are fewer objects than identifiers.
LEMMA OneNotKept ==
    ASSUME NEW K \in SUBSET Ids, NEW f \in [K -> Objects], \A i, j \in K : f[i] = f[j] => i = j
    PROVE  Min(Ids \ K) \in Ids \ K /\ \A i \in Ids : i < Min(Ids \ K) => i \in K
<1>1. MaxGroups \in Nat \ {0}
  BY GroupsAssumption
<1>2. IsFiniteSet(Ids) /\ Cardinality(Ids) = MaxGroups + 1
  <2>1. MaxGroups + 1 \in Int
    BY <1>1
  <2> QED BY <1>1, <2>1, FS_Interval DEF Ids
<1>3. IsFiniteSet(Objects) /\ Cardinality(Objects) = MaxGroups
  BY <1>1, FS_Interval DEF Objects
<1>4. K # Ids
  <2>1. SUFFICES ASSUME K = Ids PROVE FALSE
    OBVIOUS
  <2>2. Cardinality(Objects) < Cardinality(Ids)
    BY <1>1, <1>2, <1>3
  <2>3. \E x, y \in Ids : x # y /\ f[x] = f[y]
    BY <1>2, <1>3, <2>1, <2>2, FS_PigeonHole
  <2> QED BY <2>1, <2>3
<1>5. PICK S : S = Ids \ K
  OBVIOUS
<1>6. S \subseteq Nat /\ S # {}
  BY <1>4, <1>5, Nulls
<1>7. Min(S) \in S /\ \A y \in S : Min(S) <= y
  BY <1>6, MinFacts
<1>8. PICK m \in S : m = Min(S) /\ \A y \in S : m <= y
  BY <1>7
<1>9. ASSUME NEW i \in Ids, i < m PROVE i \in K
  <2>1. i \in Nat /\ m \in Nat
    BY <1>6, <1>8, Nulls
  <2>2. i \notin S
    BY <1>8, <1>9, <2>1
  <2> QED BY <1>5, <2>2
<1> QED BY <1>5, <1>8, <1>9

\* A restart preserves the invariant: LoadGroups gives every kept group an
\* object of its own and its old identifier, and finds the next one.
LEMMA RestartStep ==
    ASSUME GroupsInv, Restart
    PROVE  GroupsInv'
<1>1. Rest /\ Well(World) /\ Invited /\ Headed
  BY DEF GroupsInv
<1>2. db \in Tables /\ Kept \in SUBSET Ids
  BY <1>1 DEF Rest, Tables, Kept
<1>3. PICK object : object = CHOOSE f \in [Kept -> Objects] : Separate(f)
  OBVIOUS
<1>4. object \in [Kept -> Objects] /\ Separate(object)
  BY <1>3 DEF Restart
<1>5. /\ grp' = [g \in Objects |-> IF \E i \in Kept : object[i] = g
                                   THEN StoredGroup(CHOOSE i \in Kept : object[i] = g) ELSE None]
      /\ store' = [i \in Ids |-> IF i \in Kept THEN object[i] ELSE None]
      /\ next' = Min(Ids \ Kept)
      /\ link' = [p \in Players |-> None] /\ orig' = link' /\ invite' = [p \in Players |-> None]
      /\ queue' = <<>>
  BY <1>3 DEF Restart
<1>6. \A i, j \in Kept : object[i] = object[j] => i = j
  BY <1>4 DEF Separate
<1>7. next' \in Ids \ Kept /\ \A i \in Ids : i < next' => i \in Kept
  BY <1>2, <1>4, <1>5, <1>6, OneNotKept
<1>8. \A i \in Kept : /\ i \in Ids /\ StoredGroup(i) \in GroupRecs
                      /\ StoredGroup(i).id = i /\ StoredGroup(i).invitees = {}
                      /\ StoredGroup(i).slots = StoredSlots(i) /\ StoredGroup(i).leader = db.groups[i].leader
                      /\ \E p \in Players : StoredSlots(i)[p] # None
  BY <1>2, StoredGroupFacts
<1>9. \A i \in Kept : object[i] \in Objects /\ grp'[object[i]] = StoredGroup(i)
  <2> SUFFICES ASSUME NEW i \in Kept PROVE object[i] \in Objects /\ grp'[object[i]] = StoredGroup(i)
    OBVIOUS
  <2>1. object[i] \in Objects
    BY <1>4
  <2>2. (CHOOSE j \in Kept : object[j] = object[i]) = i
    BY <1>6
  <2> QED BY <1>5, <2>1, <2>2
<1>10. \A g \in Objects : grp'[g] # None => \E i \in Kept : object[i] = g /\ grp'[g] = StoredGroup(i)
  BY <1>5, <1>9
<1>11. grp' \in Groupings
  <2>1. \A g \in Objects : grp'[g] \in {None} \cup GroupRecs
    BY <1>8, <1>10
  <2> QED BY <1>5, <2>1 DEF Groupings
<1>12. link' \in Pointers /\ orig' \in Pointers /\ invite' \in Pointers
  BY <1>5 DEF Pointers
<1>13. store' \in [Ids -> {None} \cup Objects]
  BY <1>4, <1>5
<1>14. queue' \in Seq(Statements)
  BY <1>5
<1>15. PICK u : u = [grp |-> grp', link |-> link', orig |-> orig', invite |-> invite',
                     store |-> store', next |-> next', queue |-> queue']
  OBVIOUS
<1>16. /\ u.grp = grp' /\ u.link = link' /\ u.orig = orig' /\ u.invite = invite'
       /\ u.store = store' /\ u.next = next' /\ u.queue = queue'
  BY <1>15
<1>17. u \in Worlds
  BY <1>7, <1>11, <1>12, <1>13, <1>14, <1>15 DEF Worlds
<1>18. Becomes(u)
  BY <1>16 DEF Becomes
<1>19. \A g \in Objects : u.grp[g] # None =>
           \E i \in Kept : /\ object[i] = g /\ u.grp[g].id = i /\ u.grp[g].invitees = {}
                           /\ u.grp[g].slots = StoredSlots(i) /\ u.grp[g].leader = db.groups[i].leader
  BY <1>8, <1>10, <1>16
<1>20. Formed(u)
  <2> SUFFICES ASSUME NEW h \in Objects, u.grp[h] # None
               PROVE  u.grp[h].id # None /\ IsCreated(u, h)
    BY DEF Formed
  <2>1. PICK i \in Kept : u.grp[h].id = i /\ u.grp[h].slots = StoredSlots(i)
    BY <1>19
  <2>2. PICK p \in Players : u.grp[h].slots[p] # None
    BY <1>8, <2>1
  <2>3. IsCreated(u, h)
    BY <2>2 DEF IsCreated, Members
  <2> QED BY <1>8, <2>1, <2>3, Nulls
<1>21. Numbered(u)
  <2>1. \A i \in Ids : u.store[i] = IF i \in Kept THEN object[i] ELSE None
    BY <1>5, <1>16
  <2>2. \A g \in Objects : u.grp[g] # None /\ u.grp[g].id # None => u.store[u.grp[g].id] = g
    BY <1>8, <1>19, <2>1
  <2>3. \A i \in Ids : u.store[i] # None => u.grp[u.store[i]] # None /\ u.grp[u.store[i]].id = i
    <3> SUFFICES ASSUME NEW i \in Ids, u.store[i] # None
                 PROVE  u.grp[u.store[i]] # None /\ u.grp[u.store[i]].id = i
      OBVIOUS
    <3>1. i \in Kept /\ u.store[i] = object[i]
      BY <2>1
    <3>2. u.grp[u.store[i]] = StoredGroup(i)
      BY <1>9, <1>16, <3>1
    <3> QED BY <1>8, <3>1, <3>2, Nulls
  <2>4. u.store[u.next] = None
    BY <1>7, <1>16, <2>1
  <2>5. \A i \in Ids : i < u.next => u.store[i] # None
    BY <1>7, <1>9, <1>16, <2>1, Nulls
  <2> QED BY <2>2, <2>3, <2>4, <2>5 DEF Numbered
<1>22. Pointed(u)
  <2>1. \A p \in Players : u.link[p] = None /\ u.orig[p] = None /\ u.invite[p] = None
    BY <1>5, <1>16
  <2> QED BY <2>1 DEF Pointed
<1>23. Well(u)
  BY <1>17, <1>20, <1>21, <1>22 DEF Well
<1>24. Listed(u, status') /\ Started(u)
  <2>1. \A g \in Objects : u.grp[g] # None => u.grp[g].invitees = {} /\ u.grp[g].id # None
    BY <1>8, <1>19, Nulls
  <2> QED BY <2>1 DEF Listed, Started
<1>25. /\ faults \subseteq faults' /\ faults' \subseteq faults \cup {"leader lost", "orphan row"}
       /\ "leader lost" \notin faults' => \A i \in Kept : StoredSlots(i)[db.groups[i].leader] # None
  BY DEF Restart
<1>26. ASSUME faults' \cap {"leader lost", "own invitation", "no heir"} = {} PROVE Led(u)
  <2>1. \A i \in Kept : StoredSlots(i)[db.groups[i].leader] # None
    BY <1>25, <1>26
  <2> QED BY <1>19, <2>1 DEF Led
<1>27. Rest'
  <2>1. db' = [groups  |-> [i \in Ids |-> IF i \in Kept THEN db.groups[i] ELSE None],
               members |-> [p \in Players |-> IF Kept # {} /\ p \in Orphans THEN None ELSE db.members[p]]]
    BY DEF Restart
  <2>2. db.groups \in [Ids -> {None} \cup GroupRows] /\ db.members \in [Players -> {None} \cup MemberRows]
    BY <1>2 DEF Tables
  <2>3. PICK x, y : /\ x = [i \in Ids |-> IF i \in Kept THEN db.groups[i] ELSE None]
                    /\ y = [p \in Players |-> IF Kept # {} /\ p \in Orphans THEN None ELSE db.members[p]]
    OBVIOUS
  <2>4. x \in [Ids -> {None} \cup GroupRows]
    BY <2>2, <2>3
  <2>5. y \in [Players -> {None} \cup MemberRows]
    BY <2>2, <2>3
  <2>6. db' \in Tables
    BY <2>1, <2>3, <2>4, <2>5 DEF Tables
  <2>7. status' \in [Players -> {"off", "loading", "in", "zoning"}]
    BY DEF Restart
  <2>8. loaded' \in [Players -> {None} \cup [{1} -> {None} \cup MemberRows]]
    BY DEF Restart
  <2>9. restarts' \in Nat /\ left' = left
    <3>1. restarts \in Nat
      BY <1>1 DEF Rest
    <3>2. restarts' = restarts + 1 /\ left' = left
      BY DEF Restart
    <3> QED BY <3>1, <3>2
  <2>10. faults' \subseteq {"own invitation", "self invitation", "stale login", "leader lost", "no heir", "orphan row"}
    BY <1>1, <1>25 DEF Rest
  <2> QED BY <1>1, <2>6, <2>7, <2>8, <2>9, <2>10 DEF Rest, Tables
<1> QED BY <1>18, <1>23, <1>24, <1>25, <1>26, <1>27, Advance

\* The invariant holds at first: in an empty realm, and with a raid of
\* everybody.
LEMMA InitStep == Init => GroupsInv
<1> SUFFICES ASSUME Init PROVE GroupsInv
  OBVIOUS
<1>1. /\ orig = [p \in Players |-> None] /\ invite = [p \in Players |-> None] /\ queue = <<>>
      /\ status = [p \in Players |-> "in"] /\ loaded = [p \in Players |-> None]
      /\ restarts = 0 /\ faults = {}
  BY DEF Init
<1>2. MaxRequests \in Nat /\ MaxRaidRequests \in Nat
  BY GroupsAssumption
<1>3. PICK u : u = World
  OBVIOUS
<1>4. /\ u.grp = grp /\ u.link = link /\ u.orig = orig /\ u.invite = invite
      /\ u.store = store /\ u.next = next /\ u.queue = queue
  BY <1>3, WorldFields
<1>5. orig \in Pointers /\ invite \in Pointers /\ queue \in Seq(Statements)
  BY <1>1 DEF Pointers
<1>6. ASSUME grp \in Groupings, link \in Pointers, store \in [Ids -> {None} \cup Objects], next \in Ids
      PROVE  u \in Worlds
  BY <1>3, <1>5, <1>6 DEF World, Worlds
<1>7. CASE /\ grp = [g \in Objects |-> None] /\ store = [i \in Ids |-> None] /\ next = 1
           /\ link = [p \in Players |-> None] /\ left = MaxRequests
           /\ db = [groups |-> [i \in Ids |-> None], members |-> [p \in Players |-> None]]
  <2>1. u \in Worlds
    BY <1>6, <1>7, Nulls DEF Groupings, Pointers
  <2>2. \A g \in Objects : u.grp[g] = None
    BY <1>4, <1>7
  <2>3. Formed(u)
    BY <2>2 DEF Formed
  <2>4. Numbered(u)
    BY <1>4, <1>7, <2>2, Nulls DEF Numbered, Ids
  <2>5. Pointed(u)
    BY <1>1, <1>4, <1>7 DEF Pointed
  <2>6. Listed(u, status) /\ Started(u) /\ Led(u)
    BY <2>2 DEF Listed, Started, Led
  <2>7. Rest
    BY <1>1, <1>2, <1>7 DEF Rest
  <2> QED BY <1>3, <2>1, <2>3, <2>4, <2>5, <2>6, <2>7 DEF GroupsInv, Well, Invited, Headed
<1>8. ASSUME NEW slots \in Raids, NEW l \in Players,
             /\ grp = [g \in Objects |-> IF g > 1 THEN None
                         ELSE [NewGroup(l) EXCEPT !.slots = slots, !.raid = TRUE, !.counts = InitCounts(slots), !.id = 1]]
             /\ store = [i \in Ids |-> IF i > 1 THEN None ELSE 1] /\ next = 2
             /\ link = [p \in Players |-> 1] /\ left = MaxRaidRequests
             /\ db = [groups  |-> [i \in Ids |-> IF i > 1 THEN None ELSE [leader |-> l, raid |-> TRUE]],
                      members |-> [p \in Players |-> [id |-> 1, sub |-> slots[p]]]]
      PROVE  GroupsInv
  <2>1. slots \in [Players -> Subs]
    BY GroupsAssumption
  <2>2. PICK t \in [Players -> {None} \cup Subs] : t = slots
    BY <2>1
  <2>3. InitCounts(t) \in [Subs -> Int]
    <3>1. InitCounts(t) \in [Subs -> Nat]
      BY CountsType
    <3> QED BY <3>1
  <2>4. PICK r : r = [NewGroup(l) EXCEPT !.slots = t, !.raid = TRUE, !.counts = InitCounts(t), !.id = 1]
    OBVIOUS
  <2>5. r \in GroupRecs /\ r.leader = l /\ r.slots = t /\ r.invitees = {} /\ r.id = 1
    <3>1. PICK y \in GroupRecs : y = NewGroup(l) /\ y.leader = l /\ y.invitees = {}
      BY NewGroupType
    <3>2. PICK c \in [Subs -> Int] : c = InitCounts(t)
      BY <2>3
    <3>3. r = [y EXCEPT !.slots = t, !.raid = TRUE, !.counts = c, !.id = 1]
      BY <2>4, <3>1, <3>2
    <3>4. 1 \in Ids
      BY Nulls
    <3> QED BY <3>1, <3>3, <3>4 DEF GroupRecs
  <2>6. \A g \in Objects : g > 1 <=> g # 1
    BY Nulls DEF Objects
  <2>7. \A i \in Ids : i > 1 <=> i # 1
    BY Nulls DEF Ids
  <2>8. grp = [g \in Objects |-> IF g = 1 THEN r ELSE None]
    BY <1>8, <2>2, <2>4, <2>6
  <2>9. store = [i \in Ids |-> IF i = 1 THEN 1 ELSE None]
    BY <1>8, <2>7
  <2>10. 2 \in Ids
    BY GroupsAssumption DEF Ids
  <2>11. grp \in Groupings /\ link \in Pointers /\ store \in [Ids -> {None} \cup Objects] /\ next \in Ids
    BY <1>8, <2>5, <2>8, <2>9, <2>10, Nulls DEF Groupings, Pointers
  <2>12. u \in Worlds
    BY <1>6, <2>11
  <2>13. u.grp[1] = r /\ r # None /\ \A g \in Objects : u.grp[g] # None => g = 1
    BY <1>4, <2>5, <2>8, Nulls
  <2>14. \A p \in Players : t[p] # None
    BY <2>1, <2>2, Nulls
  <2>15. Formed(u)
    BY <2>5, <2>13, <2>14, Nulls DEF Formed, IsCreated, Members
  <2>16. Numbered(u)
    <3>1. u.store[1] = 1 /\ \A i \in Ids : u.store[i] # None => i = 1
      BY <1>4, <2>9, Nulls
    <3>2. u.next = 2 /\ u.store[2] = None
      BY <1>4, <1>8, <2>9, <2>10
    <3>3. \A i \in Ids : i < 2 => i = 1
      BY Nulls DEF Ids
    <3>4. u.store[1] # None
      BY <3>1, Nulls
    <3> QED BY <2>5, <2>13, <3>1, <3>2, <3>3, <3>4, Nulls DEF Numbered
  <2>17. Pointed(u)
    <3>1. \A p \in Players : u.link[p] = 1 /\ u.orig[p] = None /\ u.invite[p] = None
      BY <1>1, <1>4, <1>8
    <3> QED BY <2>5, <2>13, <3>1, Nulls DEF Pointed
  <2>18. Listed(u, status) /\ Started(u) /\ Led(u)
    BY <2>5, <2>13, <2>14, Nulls DEF Listed, Started, Led
  <2>19. db \in Tables
    <3>1. PICK x, y : /\ x = [i \in Ids |-> IF i > 1 THEN None ELSE [leader |-> l, raid |-> TRUE]]
                      /\ y = [p \in Players |-> [id |-> 1, sub |-> slots[p]]]
      OBVIOUS
    <3>2. x \in [Ids -> {None} \cup GroupRows]
      BY <3>1 DEF GroupRows
    <3>3. y \in [Players -> {None} \cup MemberRows]
      BY <2>1, <3>1, Nulls DEF MemberRows
    <3> QED BY <1>8, <3>1, <3>2, <3>3 DEF Tables
  <2>20. Rest
    BY <1>1, <1>2, <1>8, <2>19 DEF Rest, Tables
  <2> QED BY <1>3, <2>12, <2>15, <2>16, <2>17, <2>18, <2>20 DEF GroupsInv, Well, Invited, Headed
<1> QED BY <1>7, <1>8 DEF Init

-----------------------------------------------------------------------------
\* The invariant is inductive.
LEMMA Inductive == GroupsInv /\ [Next]_vars => GroupsInv'
<1> SUFFICES ASSUME GroupsInv, [Next]_vars PROVE GroupsInv'
  OBVIOUS
<1>1. CASE DatabaseWorker
  BY <1>1, WorkerStep
<1>2. CASE Restart
  BY <1>2, RestartStep
<1>3. ASSUME NEW p \in Players,
             \/ InviteSelf(p) \/ Accept(p) \/ AcceptFreed(p) \/ Decline(p) \/ Leave(p)
             \/ AskLogin(p) \/ Login(p) \/ Zone(p) \/ Arrive(p)
      PROVE  GroupsInv'
  BY <1>3, InviteSelfStep, AcceptStep, AcceptFreedStep, DeclineStep, LeaveStep, AskLoginStep, LoginStep, MoveStep
<1>4. ASSUME NEW p \in Players, NEW b \in BOOLEAN, RaidConvert(p, b) \/ Logout(p, b)
      PROVE  GroupsInv'
  BY <1>4, RaidConvertStep, LogoutStep
<1>5. ASSUME NEW p \in Players, NEW q \in Players, Invite(p, q) \/ Uninvite(p, q) \/ SetLeader(p, q)
      PROVE  GroupsInv'
  BY <1>5, InviteStep, UninviteStep, SetLeaderStep
<1>6. CASE UNCHANGED vars
  <2>1. Rest /\ Well(World)
    BY DEF GroupsInv
  <2>2. World' = World /\ status' = status /\ faults' = faults
    BY <1>6 DEF World, vars
  <2>3. Rest'
    BY <1>6, <2>1 DEF Rest, vars
  <2>4. Becomes(World)
    BY <1>6, WorldFields DEF Becomes, vars
  <2> QED BY <2>1, <2>2, <2>3, <2>4, Advance DEF GroupsInv, Invited, Headed
<1> QED BY <1>1, <1>2, <1>3, <1>4, <1>5, <1>6 DEF Next

\* The invariant is strong enough for the properties the runs check.
LEMMA InvParts == GroupsInv => TypeOK /\ InvitationsMatch /\ LeaderIsMember /\ IdsAgree
<1> SUFFICES ASSUME GroupsInv PROVE TypeOK /\ InvitationsMatch /\ LeaderIsMember /\ IdsAgree
  OBVIOUS
<1>1. Rest /\ World \in Worlds /\ Formed(World) /\ Pointed(World) /\ Invited /\ Headed
  BY DEF GroupsInv, Well
<1>2. TypeOK
  BY <1>1, TypeParts
<1>3. InvitationsMatch
  <2>1. ASSUME "self invitation" \notin faults, NEW p \in Players, invite[p] # None
        PROVE  invite[p] \in Live /\ p \in grp[invite[p]].invitees
    <3>1. invite[p] \in Objects
      BY <2>1, InviteFacts DEF GroupsInv
    <3>2. grp[invite[p]] # None /\ p \in grp[invite[p]].invitees
      BY <1>1, <2>1, WorldFields DEF Pointed, NoSelf
    <3> QED BY <3>1, <3>2 DEF Live
  <2>2. ASSUME "own invitation" \notin faults, NEW g \in Live, NEW p \in grp[g].invitees
        PROVE  invite[p] = g /\ status[p] \in {"in", "zoning"}
    <3>1. g \in Objects /\ grp[g] # None
      BY DEF Live
    <3> QED BY <1>1, <2>2, <3>1, WorldFields DEF Invited, Listed
  <2> QED BY <2>1, <2>2 DEF InvitationsMatch
<1>4. LeaderIsMember
  <2> SUFFICES ASSUME faults \cap {"leader lost", "own invitation", "no heir"} = {},
                      NEW g \in Live, IsCreated(World, g)
               PROVE  grp[g].leader \in Members(World, g)
    BY DEF LeaderIsMember
  <2>1. g \in Objects /\ World.grp[g] # None
    BY WorldFields DEF Live
  <2>2. World.grp[g].id # None
    BY <1>1, <2>1 DEF Formed
  <2>3. World.grp[g].slots[World.grp[g].leader] # None
    BY <1>1, <2>1, <2>2 DEF Headed, Led
  <2>4. World.grp[g].leader \in Players
    BY <1>1, <2>1, GroupAt DEF GroupRecs
  <2> QED BY <2>3, <2>4, WorldFields DEF Members
<1>5. IdsAgree
  <2>1. Numbered(World) /\ store \in [Ids -> {None} \cup Objects]
    BY <1>2 DEF GroupsInv, Well, TypeOK
  <2>2. \A g \in Live : IsCreated(World, g) => store[grp[g].id] = g
    BY <1>1, <2>1, WorldFields DEF Numbered, Formed, Live
  <2>3. \A i \in Ids : store[i] # None => store[i] \in Live /\ grp[store[i]].id = i
    BY <2>1, WorldFields DEF Numbered, Live
  <2>4. store[next] = None
    BY <2>1, WorldFields DEF Numbered
  <2> QED BY <2>2, <2>3, <2>4 DEF IdsAgree
<1> QED BY <1>2, <1>3, <1>4, <1>5

\* Every part of the state keeps its type: in particular there is always an
\* identifier left for the next group (GenerateNewGroupDbStoreId).
THEOREM GroupsTypeCorrect == Spec => []TypeOK
BY InitStep, Inductive, InvParts, PTL DEF Spec

\* An invitation is known to the group and to the player, whatever the order of
\* invitations, answers, departures, logouts, disbandings and restarts; a player
\* who has invited himself is the only way to a pointer that is not, and one who
\* has accepted his own invitation the only way to a list that is not (AddInvite,
\* RemoveInvite, RemoveAllInvites, UninviteFromGroup, ~Group).
THEOREM InvitationsAreMutual == Spec => []InvitationsMatch
BY InitStep, Inductive, InvParts, PTL DEF Spec

\* A group with members is led by one of them, as long as every departing leader
\* finds an heir in the world and no restart falls between the removal of a
\* leader and the storing of the next one (RemoveMember, ChangeLeader, LoadGroups).
THEOREM LedByAMember == Spec => []LeaderIsMember
BY InitStep, Inductive, InvParts, PTL DEF Spec

\* Two groups never have one storage identifier, and the one that is given next is
\* free, after any number of groups were formed, disbanded and loaded again
\* (GenerateNewGroupDbStoreId, FreeGroupDbStoreId, LoadGroups).
THEOREM IdsAreUnique == Spec => []IdsAgree
BY InitStep, Inductive, InvParts, PTL DEF Spec

\* The history of the tables while a queue of statements is executed: from what
\* is stored, one table per statement (DatabaseWorker::run).
Chain(H, d, q) ==
    /\ H \in [0 .. Len(q) -> Tables]
    /\ H[0] = d
    /\ \A k \in 1 .. Len(q) : H[k] = Apply(H[k - 1], q[k])

\* Two histories of the same statements are one.
LEMMA ChainUnique ==
    ASSUME NEW d, NEW q \in Seq(Statements), NEW H, Chain(H, d, q),
           NEW f, f = [n \in 0 .. Len(q) |-> IF n = 0 THEN d ELSE Apply(f[n - 1], q[n])]
    PROVE  f = H
<1>1. Len(q) \in Nat
  OBVIOUS
<1>2. /\ H \in [0 .. Len(q) -> Tables] /\ H[0] = d
      /\ \A k \in 1 .. Len(q) : H[k] = Apply(H[k - 1], q[k])
  BY DEF Chain
<1>3. PICK T : T = {n \in 0 .. Len(q) : f[n] # H[n]}
  OBVIOUS
<1>4. ASSUME T # {} PROVE FALSE
  <2>1. T \subseteq Nat
    BY <1>1, <1>3
  <2>2. PICK x \in T : \A y \in T : x <= y
    BY <1>4, <2>1, LeastNatural
  <2>3. x \in 0 .. Len(q) /\ f[x] # H[x]
    BY <1>3, <2>2
  <2>4. x # 0
    BY <1>2, <2>3
  <2>5. x - 1 \in 0 .. Len(q) /\ x \in 1 .. Len(q)
    BY <1>1, <2>3, <2>4
  <2>6. x - 1 \notin T
    <3>1. x \in Nat
      BY <2>1, <2>2
    <3> QED BY <2>2, <3>1
  <2>7. f[x - 1] = H[x - 1]
    BY <1>3, <2>5, <2>6
  <2>8. f[x] = Apply(f[x - 1], q[x])
    BY <2>3, <2>4
  <2> QED BY <1>2, <2>3, <2>5, <2>7, <2>8
<1>5. \A n \in 0 .. Len(q) : f[n] = H[n]
  BY <1>3, <1>4
<1>6. f = [n \in 0 .. Len(q) |-> f[n]]
  OBVIOUS
<1>7. H = [n \in 0 .. Len(q) |-> H[n]]
  BY <1>2
<1> QED BY <1>5, <1>6, <1>7

\* What the queue will have written is the end of any history of it.
LEMMA WrittenChain ==
    ASSUME queue \in Seq(Statements), NEW H, Chain(H, db, queue)
    PROVE  Written = H
<1>1. Len(queue) \in Nat
  OBVIOUS
<1>2. /\ H \in [0 .. Len(queue) -> Tables] /\ H[0] = db
      /\ \A k \in 1 .. Len(queue) : H[k] = Apply(H[k - 1], queue[k])
  BY DEF Chain
<1>3. \A n \in 0 .. Len(queue) : H[n] = IF n = 0 THEN db ELSE Apply(H[n - 1], queue[n])
  BY <1>1, <1>2
<1>4. H = [n \in 0 .. Len(queue) |-> IF n = 0 THEN db ELSE Apply(H[n - 1], queue[n])]
  BY <1>2, <1>3
<1>5. Written = CHOOSE f : f = [n \in 0 .. Len(queue) |-> IF n = 0 THEN db ELSE Apply(f[n - 1], queue[n])]
  BY DEF Written
<1>6. Written = [n \in 0 .. Len(queue) |-> IF n = 0 THEN db ELSE Apply(Written[n - 1], queue[n])]
  BY <1>4, <1>5, Zenon
<1> QED BY <1>6, ChainUnique

\* The tables change in one place (the statements of CharacterDatabase that the
\* operations of a group queue).
LEMMA ApplyInsGroup ==
    ASSUME NEW d \in Tables, NEW i \in Ids, NEW p \in Players, NEW b \in BOOLEAN,
           NEW a, a = Apply(d, Op("ins_group", i, p, b)), d.groups[i] = None
    PROVE  /\ a.members = d.members /\ a.groups[i] = [leader |-> p, raid |-> b]
           /\ \A j \in Ids \ {i} : a.groups[j] = d.groups[j]
<1>1. d.groups \in [Ids -> {None} \cup GroupRows]
  BY DEF Tables
<1>2. PICK r : r = [leader |-> p, raid |-> b]
  OBVIOUS
<1>3. a = [groups |-> [d.groups EXCEPT ![i] = r], members |-> d.members]
  BY <1>2 DEF Apply, Op, Tables
<1> QED BY <1>1, <1>2, <1>3

\* AddMember stores the row of a player.
LEMMA ApplyInsMember ==
    ASSUME NEW d \in Tables, NEW i \in Ids, NEW p \in Players, NEW s \in Subs,
           NEW a, a = Apply(d, Op("ins_member", i, p, s)), d.members[p] = None
    PROVE  /\ a.groups = d.groups /\ a.members[p] = [id |-> i, sub |-> s]
           /\ \A q \in Players \ {p} : a.members[q] = d.members[q]
<1>1. d.members \in [Players -> {None} \cup MemberRows]
  BY DEF Tables
<1>2. PICK r : r = [id |-> i, sub |-> s]
  OBVIOUS
<1>3. a = [groups |-> d.groups, members |-> [d.members EXCEPT ![p] = r]]
  BY <1>2 DEF Apply, Op, Tables
<1> QED BY <1>1, <1>2, <1>3

\* RemoveMember deletes the row of a player.
LEMMA ApplyDelMember ==
    ASSUME NEW d \in Tables, NEW p \in Players, NEW a, a = Apply(d, Op("del_member", None, p, None))
    PROVE  /\ a.groups = d.groups /\ a.members[p] = None
           /\ \A q \in Players \ {p} : a.members[q] = d.members[q]
<1>1. d.members \in [Players -> {None} \cup MemberRows]
  BY DEF Tables
<1>3. a = [groups |-> d.groups, members |-> [d.members EXCEPT ![p] = None]]
  BY DEF Apply, Op, Tables
<1> QED BY <1>1, <1>3

\* ChangeLeader rewrites the leader of a group.
LEMMA ApplyLeader ==
    ASSUME NEW d \in Tables, NEW i \in Ids, NEW p \in Players,
           NEW a, a = Apply(d, Op("leader", i, p, None)), d.groups[i] # None
    PROVE  /\ a.members = d.members /\ a.groups[i] = [leader |-> p, raid |-> d.groups[i].raid]
           /\ \A j \in Ids \ {i} : a.groups[j] = d.groups[j]
<1>1. d.groups \in [Ids -> {None} \cup GroupRows]
  BY DEF Tables
<1>2. PICK r : r = [d.groups[i] EXCEPT !.leader = p]
  OBVIOUS
<1>3. a = [groups |-> [d.groups EXCEPT ![i] = r], members |-> d.members]
  BY <1>2 DEF Apply, Op, Tables
<1>4. r = [leader |-> p, raid |-> d.groups[i].raid]
  <2>1. d.groups[i] \in GroupRows
    BY <1>1
  <2> QED BY <1>2, <2>1 DEF GroupRows
<1> QED BY <1>1, <1>3, <1>4

\* ConvertToRaid rewrites the type of a group.
LEMMA ApplyType2 ==
    ASSUME NEW d \in Tables, NEW i \in Ids, NEW b \in BOOLEAN,
           NEW a, a = Apply(d, Op("type", i, None, b)), d.groups[i] # None
    PROVE  /\ a.members = d.members /\ a.groups[i] = [leader |-> d.groups[i].leader, raid |-> b]
           /\ \A j \in Ids \ {i} : a.groups[j] = d.groups[j]
<1>1. d.groups \in [Ids -> {None} \cup GroupRows]
  BY DEF Tables
<1>2. PICK r : r = [d.groups[i] EXCEPT !.raid = b]
  OBVIOUS
<1>3. a = [groups |-> [d.groups EXCEPT ![i] = r], members |-> d.members]
  BY <1>2 DEF Apply, Op, Tables
<1>4. r = [leader |-> d.groups[i].leader, raid |-> b]
  <2>1. d.groups[i] \in GroupRows
    BY <1>1
  <2> QED BY <1>2, <2>1 DEF GroupRows
<1> QED BY <1>1, <1>3, <1>4

\* Disband deletes the row of a group and those of its members.
LEMMA ApplyDelGroup ==
    ASSUME NEW d \in Tables, NEW i \in Ids,
           NEW a, a = Apply(d, Op("del_group", i, None, None))
    PROVE  /\ a.groups[i] = None /\ \A j \in Ids \ {i} : a.groups[j] = d.groups[j]
           /\ \A q \in Players : a.members[q] = IF d.members[q] # None /\ d.members[q].id = i
                                                THEN None ELSE d.members[q]
<1>1. d.groups \in [Ids -> {None} \cup GroupRows]
  BY DEF Tables
<1>2. PICK y : y = [p \in Players |-> IF d.members[p] # None /\ d.members[p].id = i
                                      THEN None ELSE d.members[p]]
  OBVIOUS
<1>3. a = [groups |-> [d.groups EXCEPT ![i] = None], members |-> y]
  BY <1>2 DEF Apply, Op
<1> QED BY <1>1, <1>2, <1>3

\* The query of a login changes no table (CHAR_SEL_GROUP_MEMBER).
LEMMA ApplyLoad ==
    ASSUME NEW d, NEW p
    PROVE  Apply(d, Op("load", None, p, None)) = d
BY DEF Apply, Op

\* A statement more at the end of the queue is a table more in the history.
LEMMA ChainAppend ==
    ASSUME NEW d \in Tables, NEW q \in Seq(Statements), NEW H, Chain(H, d, q), NEW o \in Statements
    PROVE  \E G : /\ Chain(G, d, Append(q, o))
                  /\ G[Len(q) + 1] = Apply(H[Len(q)], o)
                  /\ \A k \in 0 .. Len(q) : G[k] = H[k]
<1>1. Len(q) \in Nat /\ Len(Append(q, o)) = Len(q) + 1 /\ Append(q, o)[Len(q) + 1] = o
      /\ \A k \in 1 .. Len(q) : Append(q, o)[k] = q[k]
  OBVIOUS
<1>2. /\ H \in [0 .. Len(q) -> Tables] /\ H[0] = d
      /\ \A k \in 1 .. Len(q) : H[k] = Apply(H[k - 1], q[k])
  BY DEF Chain
<1>3. PICK t \in Tables : t = Apply(H[Len(q)], o)
  <2>1. H[Len(q)] \in Tables
    BY <1>1, <1>2
  <2> QED BY <2>1, ApplyType
<1>4. PICK n \in Nat : n = Len(q)
  BY <1>1
<1>5. PICK G : G = [k \in 0 .. n + 1 |-> IF k = n + 1 THEN t ELSE H[k]]
  OBVIOUS
<1>6. \A k \in 0 .. n : G[k] = H[k]
  BY <1>4, <1>5
<1>7. G[n + 1] = t
  BY <1>5
<1>8. G \in [0 .. n + 1 -> Tables]
  <2>1. \A k \in 0 .. n + 1 : k # n + 1 => k \in 0 .. n
    OBVIOUS
  <2> QED BY <1>2, <1>4, <1>5, <2>1
<1>9. ASSUME NEW k \in 1 .. n + 1 PROVE G[k] = Apply(G[k - 1], Append(q, o)[k])
  <2>1. CASE k = n + 1
    <3>1. k - 1 = n /\ n \in 0 .. n
      BY <2>1
    <3> QED BY <1>1, <1>3, <1>4, <1>6, <1>7, <2>1, <3>1
  <2>2. CASE k # n + 1
    <3>1. k \in 1 .. n /\ k \in 0 .. n /\ k - 1 \in 0 .. n
      BY <2>2
    <3> QED BY <1>1, <1>2, <1>4, <1>6, <3>1
  <2> QED BY <2>1, <2>2
<1>10. 0 \in 0 .. n
  OBVIOUS
<1>11. Chain(G, d, Append(q, o))
  BY <1>1, <1>2, <1>4, <1>6, <1>8, <1>9, <1>10 DEF Chain
<1> QED BY <1>3, <1>4, <1>6, <1>7, <1>11

\* Once its first statement is executed, the rest of the history remains.
LEMMA ChainTail ==
    ASSUME NEW d \in Tables, NEW q \in Seq(Statements), q # <<>>, NEW H, Chain(H, d, q)
    PROVE  \E G : /\ Chain(G, Apply(d, Head(q)), Tail(q))
                  /\ \A k \in 0 .. Len(q) - 1 : G[k] = H[k + 1]
<1>1. Len(q) \in Nat \ {0} /\ Len(Tail(q)) = Len(q) - 1 /\ Head(q) = q[1]
      /\ \A k \in 1 .. Len(q) - 1 : Tail(q)[k] = q[k + 1]
  OBVIOUS
<1>2. /\ H \in [0 .. Len(q) -> Tables] /\ H[0] = d
      /\ \A k \in 1 .. Len(q) : H[k] = Apply(H[k - 1], q[k])
  BY Zenon DEF Chain
<1>3. PICK n \in Nat : n = Len(q) - 1 /\ Len(q) = n + 1
  <2>1. ASSUME NEW m \in Nat \ {0} PROVE \E n \in Nat : n = m - 1 /\ m = n + 1
    OBVIOUS
  <2> QED BY <1>1, <2>1
<1>4. PICK G : G = [k \in 0 .. n |-> H[k + 1]]
  OBVIOUS
<1>5. \A k \in 0 .. n : G[k] = H[k + 1] /\ k + 1 \in 1 .. n + 1 /\ k + 1 \in 0 .. n + 1
  BY <1>4
<1>6. G \in [0 .. n -> Tables]
  BY <1>2, <1>3, <1>4, <1>5
<1>7. G[0] = Apply(d, Head(q))
  <2>1. 0 \in 0 .. n /\ 1 \in 1 .. n + 1 /\ 0 + 1 = 1 /\ 1 - 1 = 0
    OBVIOUS
  <2>2. H[1] = Apply(H[1 - 1], q[1])
    BY <1>2, <1>3, <2>1
  <2>3. G[0] = H[1]
    BY <1>5, <2>1
  <2> QED BY <1>1, <1>2, <2>1, <2>2, <2>3
<1>8. ASSUME NEW k \in 1 .. n PROVE G[k] = Apply(G[k - 1], Tail(q)[k])
  <2>1. k \in 0 .. n /\ k - 1 \in 0 .. n /\ (k - 1) + 1 = k /\ k + 1 \in 1 .. n + 1 /\ (k + 1) - 1 = k
    OBVIOUS
  <2>2. G[k] = H[k + 1] /\ G[k - 1] = H[k]
    BY <1>5, <2>1
  <2>3. H[k + 1] = Apply(H[k], q[k + 1])
    BY <1>2, <1>3, <2>1
  <2> QED BY <1>1, <1>3, <2>2, <2>3
<1>9. Chain(G, Apply(d, Head(q)), Tail(q))
  BY <1>1, <1>3, <1>6, <1>7, <1>8 DEF Chain
<1> QED BY <1>3, <1>5, <1>9

-----------------------------------------------------------------------------
(* Memory and tables.                                                      *)

\* p has a slot in the group g.
Has(w, g, p) == w.grp[g] # None /\ w.grp[g].slots[p] # None

\* A party has its places and a raid its subgroups, and the counters are right.
Fitting(r) ==
    /\ r.raid => r.counts = InitCounts(r.slots)
    /\ \A s \in Subs : Cardinality({p \in Players : r.slots[p] = s}) <= GroupSize
    /\ ~r.raid => Cardinality({p \in Players : r.slots[p] # None}) <= GroupSize

\* Every group in memory is so.
Sized(w) == \A g \in Objects : w.grp[g] # None => Fitting(w.grp[g])

\* The rows of a group.
RowsOf(d, i) == {p \in Players : d.members[p] # None /\ d.members[p].id = i}

\* Every stored group has no more rows than its places.
RowsFit(d) ==
    \A i \in Ids : d.groups[i] # None =>
        /\ ~d.groups[i].raid => Cardinality(RowsOf(d, i)) <= GroupSize
        /\ \A s \in Subs : Cardinality({p \in RowsOf(d, i) : d.members[p].sub = s}) <= GroupSize

\* The tables d hold what is in memory.
Final(w, d) ==
    /\ \A i \in Ids : w.store[i] = None => d.groups[i] = None
    /\ \A i \in Ids : w.store[i] # None =>
          d.groups[i] = [leader |-> w.grp[w.store[i]].leader, raid |-> w.grp[w.store[i]].raid]
    /\ \A p \in Players : \A g \in Objects : Has(w, g, p) =>
          w.grp[g].id # None /\ d.members[p] = [id |-> w.grp[g].id, sub |-> w.grp[g].slots[p]]
    /\ \A p \in Players : d.members[p] # None => \E g \in Objects : Has(w, g, p)

\* The query for the group of p, in the queue.
Load(p) == Op("load", None, p, None)

\* A player who is loading reads, or has read, the group he has a slot in.
Awaited(w, H, st, ld) ==
    \A p \in Players : \A g \in Objects : st[p] = "loading" /\ Has(w, g, p) =>
        /\ ld[p] # None => ld[p][1] # None /\ ld[p][1].id = w.grp[g].id
        /\ \A k \in 1 .. Len(w.queue) : w.queue[k] = Load(p) =>
              H[k - 1].members[p] # None /\ H[k - 1].members[p].id = w.grp[g].id

\* Every query is awaited, and no player awaits two.
Once(q, st, ld) ==
    \A k \in 1 .. Len(q) : \A p \in Players : q[k] = Load(p) =>
        /\ st[p] = "loading" /\ ld[p] = None
        /\ \A j \in 1 .. Len(q) : q[j] = Load(p) => j = k

\* There is a history of the tables, from d to what is in memory, in which
\* every group has its places.
Consistent(w, d, st, ld) ==
    \E H : /\ Chain(H, d, w.queue)
           /\ Final(w, H[Len(w.queue)])
           /\ \A k \in 0 .. Len(w.queue) : RowsFit(H[k])
           /\ Awaited(w, H, st, ld)

\* A member who is in the game points to his group, and one who holds an
\* invitation is in the game and points to none.
Linked(w, st) ==
    \A p \in Players :
        /\ w.orig[p] = None
        /\ w.invite[p] # None => w.link[p] = None /\ st[p] \in {"in", "zoning"}
        /\ st[p] \in {"in", "zoning"} => \A g \in Objects : Has(w, g, p) => w.link[p] = g

\* A player points to a group that has a slot for him.
Placed(w) == \A p \in Players : w.link[p] # None => Has(w, w.link[p], p)

\* What every handler keeps of memory and tables.
Agreed(w, d, st, ld) == Consistent(w, d, st, ld) /\ Once(w.queue, st, ld) /\ Linked(w, st) /\ Sized(w)

\* The identifiers of the groups are those of GroupDbStore.
Indexed(w) ==
    /\ \A g \in Objects : w.grp[g] # None /\ w.grp[g].id # None => w.store[w.grp[g].id] = g
    /\ \A i \in Ids : w.store[i] # None => w.grp[w.store[i]] # None /\ w.grp[w.store[i]].id = i

\* A part of the players is no larger than another that contains it.
LEMMA PartSize ==
    ASSUME NEW S, NEW T, S \subseteq T, T \subseteq Players
    PROVE  Cardinality(S) \in Nat /\ Cardinality(T) \in Nat /\ Cardinality(S) <= Cardinality(T)
<1>1. IsFiniteSet(T)
  BY GroupsAssumption, FS_Subset
<1>2. IsFiniteSet(S) /\ Cardinality(S) <= Cardinality(T)
  BY <1>1, FS_Subset
<1> QED BY <1>1, <1>2, FS_CardinalityType

\* A row is of a group that has the player.
LEMMA RowFacts ==
    ASSUME NEW w \in Worlds, Indexed(w), NEW d \in Tables, Final(w, d),
           NEW p \in Players, d.members[p] # None
    PROVE  \E g \in Objects : /\ Has(w, g, p) /\ w.grp[g].id \in Ids /\ w.store[w.grp[g].id] = g
                              /\ d.members[p].id = w.grp[g].id /\ d.members[p].sub = w.grp[g].slots[p]
<1>1. PICK g \in Objects : Has(w, g, p)
  BY DEF Final
<1>2. d.members[p] = [id |-> w.grp[g].id, sub |-> w.grp[g].slots[p]]
  BY <1>1 DEF Final
<1>3. d.members[p] \in MemberRows
  BY DEF Tables
<1>4. d.members[p].id \in Ids
  BY <1>3 DEF MemberRows
<1>5. d.members[p].id = w.grp[g].id /\ d.members[p].sub = w.grp[g].slots[p]
  BY <1>2
<1>6. w.store[w.grp[g].id] = g
  BY <1>1, <1>4, <1>5, Nulls DEF Indexed, Has
<1> QED BY <1>1, <1>4, <1>5, <1>6

\* A player has one slot, of a group with an identifier.
LEMMA OneSlot ==
    ASSUME NEW w \in Worlds, Indexed(w), NEW d \in Tables, Final(w, d),
           NEW p \in Players, NEW g \in Objects, Has(w, g, p)
    PROVE  /\ w.grp[g].id \in Ids /\ w.store[w.grp[g].id] = g
           /\ d.members[p] # None /\ d.members[p].id = w.grp[g].id
           /\ \A h \in Objects : Has(w, h, p) => h = g
<1>1. ASSUME NEW h \in Objects, Has(w, h, p)
      PROVE  /\ w.grp[h].id \in Ids /\ w.store[w.grp[h].id] = h
             /\ d.members[p] # None /\ d.members[p].id = w.grp[h].id
  <2>1. w.grp[h] \in GroupRecs
    BY <1>1, GroupAt DEF Has
  <2>2. w.grp[h].id # None /\ d.members[p] = [id |-> w.grp[h].id, sub |-> w.grp[h].slots[p]]
    BY <1>1 DEF Final
  <2>3. PICK i \in Ids, s \in Subs : i = w.grp[h].id /\ s = w.grp[h].slots[p]
    BY <1>1, <2>1, <2>2 DEF Has, GroupRecs
  <2>4. d.members[p] = [id |-> i, sub |-> s]
    BY <2>2, <2>3
  <2>5. d.members[p] \in MemberRows /\ d.members[p].id = i
    BY <2>4 DEF MemberRows
  <2>6. w.store[i] = h
    BY <1>1, <2>2, <2>3 DEF Indexed, Has
  <2> QED BY <2>3, <2>5, <2>6, Nulls
<1>2. ASSUME NEW h \in Objects, Has(w, h, p) PROVE h = g
  <2>1. w.store[w.grp[h].id] = h /\ d.members[p].id = w.grp[h].id
    BY <1>1, <1>2
  <2>2. w.store[w.grp[g].id] = g /\ d.members[p].id = w.grp[g].id
    BY <1>1
  <2> QED BY <2>1, <2>2
<1> QED BY <1>1, <1>2

\* The tables that hold what is in memory have the places that the groups have.
LEMMA FinalFits ==
    ASSUME NEW w \in Worlds, Indexed(w), Sized(w), NEW d \in Tables, Final(w, d)
    PROVE  RowsFit(d)
<1> SUFFICES ASSUME NEW i \in Ids, d.groups[i] # None
             PROVE  /\ ~d.groups[i].raid => Cardinality(RowsOf(d, i)) <= GroupSize
                    /\ \A s \in Subs : Cardinality({p \in RowsOf(d, i) : d.members[p].sub = s}) <= GroupSize
  BY DEF RowsFit
<1>1. w.store[i] # None
  BY DEF Final
<1>2. PICK g \in Objects : g = w.store[i] /\ w.grp[g] # None /\ w.grp[g].id = i
  BY <1>1, WorldParts DEF Indexed
<1>3. PICK r : r = w.grp[g]
  OBVIOUS
<1>4. Fitting(r)
  BY <1>2, <1>3 DEF Sized
<1>5. d.groups[i].raid = r.raid
  <2>1. d.groups[i] = [leader |-> r.leader, raid |-> r.raid]
    BY <1>1, <1>2, <1>3 DEF Final
  <2> QED BY <2>1
<1>6. ASSUME NEW p \in RowsOf(d, i) PROVE p \in Players /\ r.slots[p] # None /\ d.members[p].sub = r.slots[p]
  <2>1. p \in Players /\ d.members[p] # None /\ d.members[p].id = i
    BY <1>6 DEF RowsOf
  <2>2. PICK h \in Objects : /\ Has(w, h, p) /\ w.store[w.grp[h].id] = h
                             /\ d.members[p].id = w.grp[h].id /\ d.members[p].sub = w.grp[h].slots[p]
    BY <2>1, RowFacts
  <2>3. h = g
    BY <1>2, <2>1, <2>2
  <2> QED BY <1>3, <2>1, <2>2, <2>3 DEF Has
<1>7. GroupSize \in Nat
  BY GroupsAssumption
<1>8. ASSUME ~r.raid PROVE Cardinality(RowsOf(d, i)) <= GroupSize
  <2>1. PICK S, T : S = RowsOf(d, i) /\ T = {p \in Players : r.slots[p] # None}
    OBVIOUS
  <2>2. S \subseteq T /\ T \subseteq Players
    BY <1>6, <2>1
  <2>3. Cardinality(S) \in Nat /\ Cardinality(T) \in Nat /\ Cardinality(S) <= Cardinality(T)
    BY <2>2, PartSize
  <2>4. Cardinality(T) <= GroupSize
    BY <1>4, <1>8, <2>1 DEF Fitting
  <2> QED BY <1>7, <2>1, <2>3, <2>4
<1>9. ASSUME NEW s \in Subs PROVE Cardinality({p \in RowsOf(d, i) : d.members[p].sub = s}) <= GroupSize
  <2>1. PICK S, T : S = {p \in RowsOf(d, i) : d.members[p].sub = s} /\ T = {p \in Players : r.slots[p] = s}
    OBVIOUS
  <2>2. S \subseteq T /\ T \subseteq Players
    BY <1>6, <2>1
  <2>3. Cardinality(S) \in Nat /\ Cardinality(T) \in Nat /\ Cardinality(S) <= Cardinality(T)
    BY <2>2, PartSize
  <2>4. Cardinality(T) <= GroupSize
    BY <1>4, <2>1 DEF Fitting
  <2> QED BY <1>7, <2>1, <2>3, <2>4
<1> QED BY <1>5, <1>8, <1>9

\* Players who are loading get no slot, and no group another identifier.
Shrinks(w, u, st) ==
    \A p \in Players : \A g \in Objects :
        st[p] = "loading" /\ Has(u, g, p) => Has(w, g, p) /\ u.grp[g].id = w.grp[g].id

\* An operation that queues nothing keeps the history.
LEMMA CarrySame ==
    ASSUME NEW w \in Worlds, NEW u \in Worlds, NEW d, NEW st, NEW ld, u.queue = w.queue,
           Consistent(w, d, st, ld), Shrinks(w, u, st),
           \A e \in Tables : Final(w, e) => Final(u, e)
    PROVE  Consistent(u, d, st, ld)
<1>1. PICK H : /\ Chain(H, d, w.queue)
               /\ Final(w, H[Len(w.queue)])
               /\ \A k \in 0 .. Len(w.queue) : RowsFit(H[k])
               /\ Awaited(w, H, st, ld)
  BY DEF Consistent
<1>2. H[Len(w.queue)] \in Tables
  <2>1. Len(w.queue) \in Nat
    BY WorldParts
  <2> QED BY <1>1, <2>1 DEF Chain
<1>3. Final(u, H[Len(u.queue)])
  BY <1>1, <1>2
<1>4. Awaited(u, H, st, ld)
  <2> SUFFICES ASSUME NEW p \in Players, NEW g \in Objects, st[p] = "loading", Has(u, g, p)
               PROVE  /\ ld[p] # None => ld[p][1] # None /\ ld[p][1].id = u.grp[g].id
                      /\ \A k \in 1 .. Len(u.queue) : u.queue[k] = Load(p) =>
                            H[k - 1].members[p] # None /\ H[k - 1].members[p].id = u.grp[g].id
    BY DEF Awaited
  <2>1. Has(w, g, p) /\ u.grp[g].id = w.grp[g].id
    BY DEF Shrinks
  <2> QED BY <1>1, <2>1 DEF Awaited
<1> QED BY <1>1, <1>3, <1>4 DEF Consistent

\* An operation that queues one statement, which does to the tables what the
\* operation does in memory, makes it longer.
LEMMA CarryQueued ==
    ASSUME NEW w \in Worlds, NEW u \in Worlds, NEW d \in Tables, NEW st, NEW ld,
           NEW o \in Statements, \A p \in Players : o # Load(p),
           u.queue = Append(w.queue, o),
           Consistent(w, d, st, ld), Once(w.queue, st, ld), Shrinks(w, u, st),
           Indexed(u), Sized(u),
           \A e \in Tables : Final(w, e) => Final(u, Apply(e, o))
    PROVE  Consistent(u, d, st, ld) /\ Once(u.queue, st, ld)
<1>1. PICK H : /\ Chain(H, d, w.queue)
               /\ Final(w, H[Len(w.queue)])
               /\ \A k \in 0 .. Len(w.queue) : RowsFit(H[k])
               /\ Awaited(w, H, st, ld)
  BY DEF Consistent
<1>2. PICK q \in Seq(Statements) : q = w.queue
  BY WorldParts
<1>3. PICK n \in Nat : n = Len(q)
  BY <1>2
<1>4. /\ Len(u.queue) = n + 1 /\ u.queue[n + 1] = o
      /\ \A k \in 1 .. n : u.queue[k] = q[k]
  BY <1>2, <1>3
<1>5. PICK G : /\ Chain(G, d, u.queue)
               /\ G[n + 1] = Apply(H[n], o)
               /\ \A k \in 0 .. n : G[k] = H[k]
  BY <1>1, <1>2, <1>3, ChainAppend
<1>6. H[n] \in Tables /\ G[n + 1] \in Tables
  <2>1. H \in [0 .. n -> Tables] /\ G \in [0 .. n + 1 -> Tables]
    BY <1>1, <1>2, <1>3, <1>4, <1>5 DEF Chain
  <2>2. n \in 0 .. n /\ n + 1 \in 0 .. n + 1
    OBVIOUS
  <2> QED BY <2>1, <2>2
<1>7. Final(u, G[n + 1])
  BY <1>1, <1>2, <1>3, <1>5, <1>6
<1>8. RowsFit(G[n + 1])
  BY <1>6, <1>7, FinalFits
<1>9. \A k \in 0 .. n + 1 : RowsFit(G[k])
  <2>1. \A k \in 0 .. n + 1 : k = n + 1 \/ k \in 0 .. n
    OBVIOUS
  <2> QED BY <1>1, <1>2, <1>3, <1>5, <1>8, <2>1
<1>10. ASSUME NEW p \in Players, NEW k \in 1 .. n + 1, u.queue[k] = Load(p)
       PROVE  k \in 1 .. n /\ q[k] = Load(p) /\ k - 1 \in 0 .. n
  <2>1. k # n + 1
    BY <1>4, <1>10
  <2>2. k \in 1 .. n /\ k - 1 \in 0 .. n
    BY <2>1
  <2> QED BY <1>4, <1>10, <2>2
<1>11. Awaited(u, G, st, ld)
  <2> SUFFICES ASSUME NEW p \in Players, NEW g \in Objects, st[p] = "loading", Has(u, g, p)
               PROVE  /\ ld[p] # None => ld[p][1] # None /\ ld[p][1].id = u.grp[g].id
                      /\ \A k \in 1 .. Len(u.queue) : u.queue[k] = Load(p) =>
                            G[k - 1].members[p] # None /\ G[k - 1].members[p].id = u.grp[g].id
    BY DEF Awaited
  <2>1. Has(w, g, p) /\ u.grp[g].id = w.grp[g].id
    BY DEF Shrinks
  <2>2. /\ ld[p] # None => ld[p][1] # None /\ ld[p][1].id = w.grp[g].id
        /\ \A k \in 1 .. n : q[k] = Load(p) =>
              H[k - 1].members[p] # None /\ H[k - 1].members[p].id = w.grp[g].id
    BY <1>1, <1>2, <1>3, <2>1 DEF Awaited
  <2>3. ASSUME NEW k \in 1 .. n + 1, u.queue[k] = Load(p)
        PROVE  G[k - 1].members[p] # None /\ G[k - 1].members[p].id = u.grp[g].id
    <3>1. k \in 1 .. n /\ q[k] = Load(p) /\ k - 1 \in 0 .. n
      BY <1>10, <2>3
    <3> QED BY <1>5, <2>1, <2>2, <3>1
  <2> QED BY <1>4, <2>1, <2>2, <2>3
<1>12. Once(u.queue, st, ld)
  <2> SUFFICES ASSUME NEW k \in 1 .. n + 1, NEW p \in Players, u.queue[k] = Load(p)
               PROVE  /\ st[p] = "loading" /\ ld[p] = None
                      /\ \A j \in 1 .. n + 1 : u.queue[j] = Load(p) => j = k
    BY <1>4 DEF Once
  <2>1. k \in 1 .. n /\ q[k] = Load(p)
    BY <1>10
  <2>2. /\ st[p] = "loading" /\ ld[p] = None
        /\ \A j \in 1 .. n : q[j] = Load(p) => j = k
    BY <1>2, <1>3, <2>1 DEF Once
  <2>3. \A j \in 1 .. n + 1 : u.queue[j] = Load(p) => j \in 1 .. n /\ q[j] = Load(p)
    BY <1>10
  <2> QED BY <2>2, <2>3
<1> QED BY <1>4, <1>5, <1>7, <1>9, <1>11, <1>12 DEF Consistent

\* What an operation that leads from w to u keeps.
Follows(w, u, d, st, ld) == Agreed(u, d, st, ld) /\ (Placed(w) => Placed(u))

\* The counters and places depend on the slots and the kind of the group.
LEMMA FittingSame ==
    ASSUME NEW r, NEW y, Fitting(r), y.raid = r.raid, y.slots = r.slots, y.counts = r.counts
    PROVE  Fitting(y)
BY DEF Fitting

\* A group that has nobody fits.
LEMMA EmptyFits ==
    ASSUME NEW r, r.slots = NoSlots, ~r.raid
    PROVE  Fitting(r)
<1>1. {p \in Players : r.slots[p] # None} = {}
  BY DEF NoSlots
<1>2. \A s \in Subs : {p \in Players : r.slots[p] = s} = {}
  BY Nulls DEF NoSlots
<1>3. Cardinality({}) = 0 /\ 0 <= GroupSize
  BY GroupsAssumption, FS_EmptySet
<1> QED BY <1>1, <1>2, <1>3 DEF Fitting

\* The groups of w are those of u but for their invitations, and a new one is
\* empty.
SameGroups(w, u) ==
    \A h \in Objects :
        /\ w.grp[h] # None =>
              /\ u.grp[h] # None /\ u.grp[h].leader = w.grp[h].leader /\ u.grp[h].slots = w.grp[h].slots
              /\ u.grp[h].raid = w.grp[h].raid /\ u.grp[h].counts = w.grp[h].counts
              /\ u.grp[h].id = w.grp[h].id
        /\ w.grp[h] = None /\ u.grp[h] # None => u.grp[h].slots = NoSlots /\ ~u.grp[h].raid

\* The memberships are then the same.
LEMMA SameHas ==
    ASSUME NEW w, NEW u, SameGroups(w, u), NEW h \in Objects, NEW p \in Players
    PROVE  /\ Has(u, h, p) <=> Has(w, h, p)
           /\ Has(w, h, p) => u.grp[h].id = w.grp[h].id /\ u.grp[h].slots = w.grp[h].slots
<1>1. CASE w.grp[h] = None
  BY <1>1 DEF SameGroups, Has, NoSlots
<1>2. CASE w.grp[h] # None
  BY <1>2 DEF SameGroups, Has
<1> QED BY <1>1, <1>2

\* Invitations change neither the tables nor the places (AddInvite,
\* RemoveInvite, Group::Group).
LEMMA SameFollows ==
    ASSUME NEW w \in Worlds, NEW u \in Worlds, Indexed(w), SameGroups(w, u),
           u.link = w.link, u.orig = w.orig, u.store = w.store, u.queue = w.queue,
           NEW d, NEW st, NEW ld, Agreed(w, d, st, ld),
           \A p \in Players : u.invite[p] # None =>
               (w.link[p] = None /\ st[p] \in {"in", "zoning"}) \/ u.invite[p] = w.invite[p]
    PROVE  Follows(w, u, d, st, ld)
<1>1. Consistent(w, d, st, ld) /\ Once(w.queue, st, ld) /\ Linked(w, st) /\ Sized(w)
  BY DEF Agreed
<1>2. \A h \in Objects : \A p \in Players :
          /\ Has(u, h, p) <=> Has(w, h, p)
          /\ Has(w, h, p) => u.grp[h].id = w.grp[h].id /\ u.grp[h].slots = w.grp[h].slots
  BY SameHas
<1>3. \A i \in Ids : w.store[i] # None => w.store[i] \in Objects /\ w.grp[w.store[i]] # None
  BY WorldParts DEF Indexed
<1>4. ASSUME NEW e \in Tables, Final(w, e) PROVE Final(u, e)
  <2>1. \A i \in Ids : u.store[i] = None => e.groups[i] = None
    BY <1>4 DEF Final
  <2>2. \A i \in Ids : u.store[i] # None =>
            e.groups[i] = [leader |-> u.grp[u.store[i]].leader, raid |-> u.grp[u.store[i]].raid]
    BY <1>3, <1>4 DEF Final, SameGroups
  <2>3. \A p \in Players : \A g \in Objects : Has(u, g, p) =>
            u.grp[g].id # None /\ e.members[p] = [id |-> u.grp[g].id, sub |-> u.grp[g].slots[p]]
    BY <1>2, <1>4 DEF Final
  <2>4. \A p \in Players : e.members[p] # None => \E g \in Objects : Has(u, g, p)
    BY <1>2, <1>4 DEF Final
  <2> QED BY <2>1, <2>2, <2>3, <2>4 DEF Final
<1>5. Shrinks(w, u, st)
  BY <1>2 DEF Shrinks
<1>6. Consistent(u, d, st, ld)
  BY <1>1, <1>4, <1>5, CarrySame
<1>7. Sized(u)
  <2> SUFFICES ASSUME NEW g \in Objects, u.grp[g] # None PROVE Fitting(u.grp[g])
    BY DEF Sized
  <2>1. CASE w.grp[g] = None
    BY <2>1, EmptyFits DEF SameGroups
  <2>2. CASE w.grp[g] # None
    <3>1. Fitting(w.grp[g])
      BY <1>1, <2>2 DEF Sized
    <3> QED BY <2>2, <3>1, FittingSame DEF SameGroups
  <2> QED BY <2>1, <2>2
<1>8. Linked(u, st)
  BY <1>1, <1>2 DEF Linked
<1>9. Placed(w) => Placed(u)
  <2>1. \A p \in Players : w.link[p] # None => w.link[p] \in Objects
    BY WorldParts DEF Pointers
  <2> QED BY <1>2, <2>1 DEF Placed
<1> QED BY <1>1, <1>6, <1>7, <1>8, <1>9 DEF Agreed, Follows

\* The end of a group is the end of its rows (Disband, ~Group).
LEMMA GoneFollows ==
    ASSUME NEW w \in Worlds, Indexed(w), NEW g \in Objects, w.grp[g] # None,
           NEW u, Gone(w, u, g), Indexed(u),
           NEW d \in Tables, NEW st, NEW ld, Agreed(w, d, st, ld)
    PROVE  Follows(w, u, d, st, ld)
<1>1. Consistent(w, d, st, ld) /\ Once(w.queue, st, ld) /\ Linked(w, st) /\ Sized(w)
  BY DEF Agreed
<1>2. /\ u \in Worlds
      /\ u.grp = [w.grp EXCEPT ![g] = None]
      /\ \A p \in Players : u.link[p] \in {None, w.link[p]} \ {g} /\ u.orig[p] \in {None, w.orig[p]} \ {g}
      /\ \A p \in Players : w.link[p] # g /\ w.grp[g].slots[p] = None => u.link[p] = w.link[p]
      /\ u.invite = Uninvited(w, g)
  BY DEF Gone
<1>3. u.grp[g] = None /\ \A h \in Objects \ {g} : u.grp[h] = w.grp[h]
  BY <1>2, WorldParts DEF Groupings
<1>4. \A h \in Objects : \A p \in Players : Has(u, h, p) <=> h # g /\ Has(w, h, p)
  BY <1>3 DEF Has
<1>5. Shrinks(w, u, st)
  BY <1>3, <1>4 DEF Shrinks
<1>6. Sized(u)
  BY <1>1, <1>3 DEF Sized
<1>7. Linked(u, st)
  <2> SUFFICES ASSUME NEW p \in Players
               PROVE  /\ u.orig[p] = None
                      /\ u.invite[p] # None => u.link[p] = None /\ st[p] \in {"in", "zoning"}
                      /\ st[p] \in {"in", "zoning"} => \A h \in Objects : Has(u, h, p) => u.link[p] = h
    BY DEF Linked
  <2>1. /\ w.orig[p] = None
        /\ w.invite[p] # None => w.link[p] = None /\ st[p] \in {"in", "zoning"}
        /\ st[p] \in {"in", "zoning"} => \A h \in Objects : Has(w, h, p) => w.link[p] = h
    BY <1>1 DEF Linked
  <2>2. u.orig[p] = None
    BY <1>2, <2>1
  <2>3. u.invite[p] \in {None, w.invite[p]}
    BY <1>2 DEF Uninvited
  <2>4. u.invite[p] # None => u.link[p] = None /\ st[p] \in {"in", "zoning"}
    BY <1>2, <2>1, <2>3
  <2>5. ASSUME st[p] \in {"in", "zoning"}, NEW h \in Objects, Has(u, h, p) PROVE u.link[p] = h
    <3>1. h # g /\ w.link[p] = h
      BY <1>4, <2>1, <2>5
    <3>2. ~Has(w, g, p)
      BY <2>1, <2>5, <3>1
    <3> QED BY <1>2, <3>1, <3>2 DEF Has
  <2> QED BY <2>2, <2>4, <2>5
<1>8. Placed(w) => Placed(u)
  <2>1. \A p \in Players : w.link[p] # None => w.link[p] \in Objects
    BY WorldParts DEF Pointers
  <2> QED BY <1>2, <1>4, <2>1 DEF Placed
<1>9. \A j \in Ids : w.store[j] # None => w.store[j] \in Objects /\ w.grp[w.store[j]].id = j
  BY WorldParts DEF Indexed
<1>10. CASE w.grp[g].id = None
  <2>1. u.store = w.store /\ u.queue = w.queue
    BY <1>10 DEF Gone
  <2>2. ASSUME NEW e \in Tables, Final(w, e) PROVE Final(u, e)
    <3>1. \A p \in Players : ~Has(w, g, p)
      BY <1>10, <2>2 DEF Final
    <3>2. \A j \in Ids : w.store[j] # g
      BY <1>9, <1>10, Nulls
    <3>3. \A h \in Objects : \A p \in Players : Has(u, h, p) <=> Has(w, h, p)
      BY <1>4, <3>1
    <3>4. \A j \in Ids : u.store[j] = None => e.groups[j] = None
      BY <2>1, <2>2 DEF Final
    <3>5. \A j \in Ids : u.store[j] # None =>
            e.groups[j] = [leader |-> u.grp[u.store[j]].leader, raid |-> u.grp[u.store[j]].raid]
      BY <1>3, <1>9, <2>1, <2>2, <3>2 DEF Final
    <3>6. \A p \in Players : \A h \in Objects : Has(u, h, p) =>
            u.grp[h].id # None /\ e.members[p] = [id |-> u.grp[h].id, sub |-> u.grp[h].slots[p]]
      BY <1>3, <1>4, <2>2, <3>3 DEF Final
    <3>7. \A p \in Players : e.members[p] # None => \E h \in Objects : Has(u, h, p)
      BY <2>2, <3>3 DEF Final
    <3> QED BY <3>4, <3>5, <3>6, <3>7 DEF Final
  <2>3. Consistent(u, d, st, ld)
    BY <1>1, <1>2, <1>5, <2>1, <2>2, CarrySame
  <2> QED BY <1>1, <1>6, <1>7, <1>8, <2>1, <2>3 DEF Agreed, Follows
<1>11. CASE w.grp[g].id # None
  <2>1. PICK i \in Ids : i = w.grp[g].id
    BY <1>11, GroupAt DEF GroupRecs
  <2>2. PICK o \in Statements : o = Op("del_group", i, None, None)
    BY DEF Op, Statements
  <2>3. u.store = [w.store EXCEPT ![i] = None] /\ u.queue = Append(w.queue, o)
    BY <1>11, <2>1, <2>2 DEF Gone
  <2>4. \A p \in Players : o # Load(p)
    BY <2>2 DEF Load, Op
  <2>5. \A j \in Ids : u.store[j] = IF j = i THEN None ELSE w.store[j]
    BY <2>3, WorldParts
  <2>6. ASSUME NEW e \in Tables, Final(w, e) PROVE Final(u, Apply(e, o))
    <3>1. PICK a : a = Apply(e, o)
      OBVIOUS
    <3>2. /\ a.groups[i] = None /\ \A j \in Ids \ {i} : a.groups[j] = e.groups[j]
          /\ \A q \in Players : a.members[q] = IF e.members[q] # None /\ e.members[q].id = i
                                               THEN None ELSE e.members[q]
      BY <2>2, <3>1, ApplyDelGroup
    <3>3. \A j \in Ids : w.store[j] = g => j = i
      BY <1>9, <2>1, Nulls
    <3>4. \A j \in Ids : u.store[j] = None => a.groups[j] = None
      BY <2>5, <2>6, <3>2 DEF Final
    <3>5. \A j \in Ids : u.store[j] # None =>
            a.groups[j] = [leader |-> u.grp[u.store[j]].leader, raid |-> u.grp[u.store[j]].raid]
      BY <1>3, <1>9, <2>5, <2>6, <3>2, <3>3 DEF Final
    <3>6. ASSUME NEW p \in Players, NEW h \in Objects, Has(u, h, p)
          PROVE  u.grp[h].id # None /\ a.members[p] = [id |-> u.grp[h].id, sub |-> u.grp[h].slots[p]]
      <4>1. h # g /\ Has(w, h, p) /\ u.grp[h] = w.grp[h]
        BY <1>3, <1>4, <3>6
      <4>2. w.store[w.grp[h].id] = h /\ e.members[p].id = w.grp[h].id
        BY <2>6, <4>1, OneSlot
      <4>3. w.grp[h].id # i
        <5>1. w.store[i] = g
          BY <1>11, <2>1 DEF Indexed
        <5> QED BY <4>1, <4>2, <5>1
      <4>4. a.members[p] = e.members[p]
        BY <3>2, <4>2, <4>3
      <4> QED BY <2>6, <4>1, <4>4 DEF Final
    <3>7. ASSUME NEW p \in Players, a.members[p] # None PROVE \E h \in Objects : Has(u, h, p)
      <4>1. e.members[p] # None /\ e.members[p].id # i
        BY <3>2, <3>7
      <4>2. PICK h \in Objects : Has(w, h, p) /\ e.members[p].id = w.grp[h].id
        BY <2>6, <4>1, RowFacts
      <4>3. h # g
        BY <2>1, <4>1, <4>2
      <4> QED BY <1>4, <4>2, <4>3
    <3> QED BY <3>1, <3>4, <3>5, <3>6, <3>7 DEF Final
  <2>7. Consistent(u, d, st, ld) /\ Once(u.queue, st, ld)
    BY <1>1, <1>2, <1>5, <1>6, <2>3, <2>4, <2>6, CarryQueued
  <2> QED BY <1>6, <1>7, <1>8, <2>7 DEF Agreed, Follows
<1> QED BY <1>10, <1>11

\* The slots z have one player more in the subgroup s than t.
More(t, z, s) ==
    /\ InitCounts(z) = SubGroupCounterIncrease(InitCounts(t), s)
    /\ Cardinality({q \in Players : z[q] # None}) = Cardinality({q \in Players : t[q] # None}) + 1
    /\ \A x \in Subs : Cardinality({q \in Players : z[q] = x}) =
                       IF x = s THEN Cardinality({q \in Players : t[q] = x}) + 1
                       ELSE Cardinality({q \in Players : t[q] = x})

\* A slot that is given makes one member more.
LEMMA OneMore ==
    ASSUME NEW t \in [Players -> {None} \cup Subs], NEW p \in Players, NEW s \in Subs, t[p] = None,
           NEW z, z = [t EXCEPT ![p] = s]
    PROVE  More(t, z, s)
<1>1. \A q \in Players : z[q] = IF q = p THEN s ELSE t[q]
  OBVIOUS
<1>2. ASSUME NEW A, NEW B, A \subseteq Players, p \notin A, B = A \cup {p}
      PROVE  Cardinality(B) = Cardinality(A) + 1
  <2>1. IsFiniteSet(A)
    BY <1>2, GroupsAssumption, FS_Subset
  <2> QED BY <1>2, <2>1, FS_AddElement
<1>3. Cardinality({q \in Players : z[q] # None}) = Cardinality({q \in Players : t[q] # None}) + 1
  <2>1. PICK A, B : A = {q \in Players : t[q] # None} /\ B = {q \in Players : z[q] # None}
    OBVIOUS
  <2>2. A \subseteq Players /\ p \notin A /\ B = A \cup {p}
    BY <1>1, <2>1, Nulls
  <2> QED BY <1>2, <2>1, <2>2
<1>4. ASSUME NEW x \in Subs
      PROVE  Cardinality({q \in Players : z[q] = x}) =
                 IF x = s THEN Cardinality({q \in Players : t[q] = x}) + 1
                 ELSE Cardinality({q \in Players : t[q] = x})
  <2>1. PICK A, B : A = {q \in Players : t[q] = x} /\ B = {q \in Players : z[q] = x}
    OBVIOUS
  <2>2. A \subseteq Players /\ p \notin A
    BY <2>1, Nulls
  <2>3. CASE x = s
    <3>1. B = A \cup {p}
      BY <1>1, <2>1, <2>3
    <3> QED BY <1>2, <2>1, <2>2, <2>3, <3>1
  <2>4. CASE x # s
    <3>1. B = A
      BY <1>1, <2>1, <2>2, <2>4
    <3> QED BY <2>1, <2>4, <3>1
  <2> QED BY <2>3, <2>4
<1>5. InitCounts(z) = SubGroupCounterIncrease(InitCounts(t), s)
  <2>1. PICK c : c = InitCounts(t)
    OBVIOUS
  <2>2. c = [x \in Subs |-> Cardinality({q \in Players : t[q] = x})]
    BY <2>1 DEF InitCounts
  <2>3. InitCounts(z) = [x \in Subs |-> Cardinality({q \in Players : z[q] = x})]
    BY DEF InitCounts
  <2>4. SubGroupCounterIncrease(c, s) = [c EXCEPT ![s] = c[s] + 1]
    BY DEF SubGroupCounterIncrease
  <2>5. \A x \in Subs : Cardinality({q \in Players : z[q] = x}) = IF x = s THEN c[x] + 1 ELSE c[x]
    BY <1>4, <2>2
  <2>6. PICK e : e = [c EXCEPT ![s] = c[s] + 1]
    OBVIOUS
  <2>7. e = [x \in Subs |-> IF x = s THEN c[x] + 1 ELSE c[x]]
    BY <2>2, <2>6
  <2>8. PICK k : k = InitCounts(z)
    OBVIOUS
  <2>9. k = [x \in Subs |-> k[x]]
    BY <2>3, <2>8
  <2>10. \A x \in Subs : k[x] = IF x = s THEN c[x] + 1 ELSE c[x]
    BY <2>3, <2>5, <2>8
  <2>11. k = e
    BY <2>7, <2>9, <2>10
  <2> QED BY <2>1, <2>4, <2>6, <2>8, <2>11
<1> QED BY <1>3, <1>4, <1>5 DEF More

\* A slot that is taken makes one less in its subgroup.
LEMMA OneFewer ==
    ASSUME NEW t \in [Players -> {None} \cup Subs], NEW p \in Players, NEW s \in Subs, t[p] = s,
           NEW z, z = [t EXCEPT ![p] = None]
    PROVE  InitCounts(z) = SubGroupCounterDecrease(InitCounts(t), s)
<1>1. \A q \in Players : z[q] = IF q = p THEN None ELSE t[q]
  OBVIOUS
<1>2. ASSUME NEW x \in Subs
      PROVE  Cardinality({q \in Players : z[q] = x}) =
                 IF x = s THEN Cardinality({q \in Players : t[q] = x}) - 1
                 ELSE Cardinality({q \in Players : t[q] = x})
  <2>1. PICK A, B : A = {q \in Players : t[q] = x} /\ B = {q \in Players : z[q] = x}
    OBVIOUS
  <2>2. A \subseteq Players /\ IsFiniteSet(A)
    BY <2>1, GroupsAssumption, FS_Subset
  <2>3. CASE x = s
    <3>1. p \in A /\ B = A \ {p}
      BY <1>1, <2>1, <2>3, Nulls
    <3>2. Cardinality(B) = Cardinality(A) - 1
      BY <2>2, <3>1, FS_RemoveElement
    <3> QED BY <2>1, <2>3, <3>2
  <2>4. CASE x # s
    <3>1. B = A
      BY <1>1, <2>1, <2>4, Nulls
    <3> QED BY <2>1, <2>4, <3>1
  <2> QED BY <2>3, <2>4
<1>3. PICK c : c = InitCounts(t)
  OBVIOUS
<1>4. c = [x \in Subs |-> Cardinality({q \in Players : t[q] = x})]
  BY <1>3 DEF InitCounts
<1>5. InitCounts(z) = [x \in Subs |-> Cardinality({q \in Players : z[q] = x})]
  BY DEF InitCounts
<1>6. SubGroupCounterDecrease(c, s) = [c EXCEPT ![s] = c[s] - 1]
  BY DEF SubGroupCounterDecrease
<1>7. \A x \in Subs : Cardinality({q \in Players : z[q] = x}) = IF x = s THEN c[x] - 1 ELSE c[x]
  BY <1>2, <1>4
<1>8. PICK e : e = [c EXCEPT ![s] = c[s] - 1]
  OBVIOUS
<1>9. e = [x \in Subs |-> IF x = s THEN c[x] - 1 ELSE c[x]]
  BY <1>4, <1>8
<1>10. PICK k : k = InitCounts(z)
  OBVIOUS
<1>11. k = [x \in Subs |-> k[x]]
  BY <1>5, <1>10
<1>12. \A x \in Subs : k[x] = IF x = s THEN c[x] - 1 ELSE c[x]
  BY <1>5, <1>7, <1>10
<1>13. k = e
  BY <1>9, <1>11, <1>12
<1> QED BY <1>3, <1>6, <1>8, <1>10, <1>13

\* A new member takes a place that is free (AddMember).
LEMMA JoinFits ==
    ASSUME NEW r \in GroupRecs, NEW y \in GroupRecs, Fitting(r), NEW p \in Players, NEW s \in Subs,
           r.slots[p] = None, y.slots = [r.slots EXCEPT ![p] = s], y.raid = r.raid,
           y.counts = IF y.raid THEN SubGroupCounterIncrease(r.counts, s) ELSE r.counts,
           r.raid => r.counts[s] < GroupSize,
           ~r.raid => Cardinality({q \in Players : r.slots[q] # None}) < GroupSize
    PROVE  Fitting(y)
<1>1. PICK t \in [Players -> {None} \cup Subs] : t = r.slots /\ t[p] = None
  BY DEF GroupRecs
<1>2. PICK z : z = [t EXCEPT ![p] = s]
  OBVIOUS
<1>3. y.slots = z
  BY <1>1, <1>2
<1>4. /\ InitCounts(z) = SubGroupCounterIncrease(InitCounts(t), s)
      /\ Cardinality({q \in Players : z[q] # None}) = Cardinality({q \in Players : t[q] # None}) + 1
      /\ \A x \in Subs : Cardinality({q \in Players : z[q] = x}) =
                         IF x = s THEN Cardinality({q \in Players : t[q] = x}) + 1
                         ELSE Cardinality({q \in Players : t[q] = x})
  <2>1. More(t, z, s)
    BY <1>1, <1>2, OneMore
  <2> QED BY <2>1 DEF More
<1>5. GroupSize \in Nat
  BY GroupsAssumption
<1>6. /\ r.raid => r.counts = InitCounts(t)
      /\ \A x \in Subs : Cardinality({q \in Players : t[q] = x}) <= GroupSize
  BY <1>1 DEF Fitting
<1>7. y.raid => y.counts = InitCounts(y.slots)
  BY <1>3, <1>4, <1>6
<1>8. ASSUME ~y.raid PROVE Cardinality({q \in Players : y.slots[q] # None}) <= GroupSize
  <2>1. PICK n : n = Cardinality({q \in Players : t[q] # None})
    OBVIOUS
  <2>2. n \in Nat
    <3>1. {q \in Players : t[q] # None} \subseteq Players
      OBVIOUS
    <3> QED BY <2>1, <3>1, PartSize
  <2>3. n < GroupSize
    BY <1>1, <1>8, <2>1
  <2>4. n + 1 <= GroupSize
    BY <1>5, <2>2, <2>3
  <2> QED BY <1>3, <1>4, <2>1, <2>4
<1>9. ASSUME NEW x \in Subs PROVE Cardinality({q \in Players : y.slots[q] = x}) <= GroupSize
  <2>1. CASE x # s
    BY <1>3, <1>4, <1>6, <2>1
  <2>2. CASE x = s /\ ~y.raid
    <3>1. PICK A, B : A = {q \in Players : z[q] = x} /\ B = {q \in Players : z[q] # None}
      OBVIOUS
    <3>2. A \subseteq B /\ B \subseteq Players
      BY <3>1, Nulls
    <3>3. Cardinality(A) \in Nat /\ Cardinality(B) \in Nat /\ Cardinality(A) <= Cardinality(B)
      BY <3>2, PartSize
    <3>4. Cardinality(B) <= GroupSize
      BY <1>3, <1>8, <2>2, <3>1
    <3>5. Cardinality(A) <= GroupSize
      BY <1>5, <3>3, <3>4
    <3> QED BY <1>3, <3>1, <3>5
  <2>3. CASE x = s /\ y.raid
    <3>1. PICK n : n = Cardinality({q \in Players : t[q] = s})
      OBVIOUS
    <3>2. n \in Nat
      <4>1. {q \in Players : t[q] = s} \subseteq Players
        OBVIOUS
      <4> QED BY <3>1, <4>1, PartSize
    <3>3. r.counts[s] = n
      BY <1>6, <2>3, <3>1 DEF InitCounts
    <3>4. n + 1 <= GroupSize
      <4>1. n < GroupSize
        BY <2>3, <3>3
      <4> QED BY <1>5, <3>2, <4>1
    <3> QED BY <1>3, <1>4, <2>3, <3>1, <3>4
  <2> QED BY <2>1, <2>2, <2>3
<1> QED BY <1>7, <1>8, <1>9 DEF Fitting

\* A member fewer leaves the counters right (RemoveMember).
LEMMA RemovalFits ==
    ASSUME NEW r \in GroupRecs, NEW y \in GroupRecs, Fitting(r), NEW p \in Players,
           y.slots = [r.slots EXCEPT ![p] = None], y.raid = r.raid,
           y.counts = IF r.slots[p] # None /\ y.raid
                      THEN SubGroupCounterDecrease(r.counts, r.slots[p]) ELSE r.counts
    PROVE  Fitting(y)
<1>1. PICK t \in [Players -> {None} \cup Subs] : t = r.slots
  BY DEF GroupRecs
<1>2. PICK z : z = [t EXCEPT ![p] = None]
  OBVIOUS
<1>3. y.slots = z /\ \A q \in Players : z[q] = IF q = p THEN None ELSE t[q]
  BY <1>1, <1>2
<1>4. GroupSize \in Nat
  BY GroupsAssumption
<1>5. /\ r.raid => r.counts = InitCounts(t)
      /\ \A x \in Subs : Cardinality({q \in Players : t[q] = x}) <= GroupSize
      /\ ~r.raid => Cardinality({q \in Players : t[q] # None}) <= GroupSize
  BY <1>1 DEF Fitting
<1>6. ASSUME y.raid PROVE y.counts = InitCounts(y.slots)
  <2>1. CASE t[p] = None
    <3>1. z = t
      BY <1>2, <2>1
    <3> QED BY <1>1, <1>3, <1>5, <1>6, <2>1, <3>1
  <2>2. CASE t[p] # None
    <3>1. PICK s \in Subs : s = t[p]
      BY <2>2
    <3>2. InitCounts(z) = SubGroupCounterDecrease(InitCounts(t), s)
      BY <1>2, <3>1, OneFewer
    <3> QED BY <1>1, <1>3, <1>5, <1>6, <2>2, <3>1, <3>2
  <2> QED BY <2>1, <2>2
<1>7. ASSUME NEW A, NEW B, A \subseteq B, B \subseteq Players, Cardinality(B) <= GroupSize
      PROVE  Cardinality(A) <= GroupSize
  <2>1. Cardinality(A) \in Nat /\ Cardinality(B) \in Nat /\ Cardinality(A) <= Cardinality(B)
    BY <1>7, PartSize
  <2> QED BY <1>4, <1>7, <2>1
<1>8. ASSUME ~y.raid PROVE Cardinality({q \in Players : y.slots[q] # None}) <= GroupSize
  <2>1. PICK A, B : A = {q \in Players : z[q] # None} /\ B = {q \in Players : t[q] # None}
    OBVIOUS
  <2>2. A \subseteq B /\ B \subseteq Players /\ Cardinality(B) <= GroupSize
    BY <1>3, <1>5, <1>8, <2>1
  <2> QED BY <1>3, <1>7, <2>1, <2>2
<1>9. ASSUME NEW x \in Subs PROVE Cardinality({q \in Players : y.slots[q] = x}) <= GroupSize
  <2>1. PICK A, B : A = {q \in Players : z[q] = x} /\ B = {q \in Players : t[q] = x}
    OBVIOUS
  <2>2. A \subseteq B /\ B \subseteq Players /\ Cardinality(B) <= GroupSize
    BY <1>3, <1>5, <2>1, Nulls
  <2> QED BY <1>3, <1>7, <2>1, <2>2
<1> QED BY <1>6, <1>8, <1>9 DEF Fitting

\* u is w with r in the place of the group g, which keeps its identifier.
Changed(w, u, g, r) ==
    /\ u \in Worlds /\ r \in GroupRecs /\ u.grp[g] = r /\ r.id = w.grp[g].id
    /\ \A h \in Objects \ {g} : u.grp[h] = w.grp[h]
    /\ u.store = w.store

\* The identifiers are then those that they were.
LEMMA ChangedIndexed ==
    ASSUME NEW w \in Worlds, Indexed(w), NEW g \in Objects, w.grp[g] # None, NEW r, NEW u, Changed(w, u, g, r)
    PROVE  Indexed(u)
<1>1. \A i \in Ids : w.store[i] # None => w.store[i] \in Objects
  BY WorldParts
<1>2. \A h \in Objects : /\ u.grp[h] # None <=> w.grp[h] # None
                         /\ w.grp[h] # None => u.grp[h].id = w.grp[h].id
  BY Nulls DEF Changed
<1> QED BY <1>1, <1>2 DEF Indexed, Changed

\* The other groups keep their places.
LEMMA ChangedSized ==
    ASSUME NEW w \in Worlds, NEW g \in Objects, NEW r, NEW u, Changed(w, u, g, r), Sized(w), Fitting(r)
    PROVE  Sized(u)
BY DEF Sized, Changed

\* A change of the row of the group, and of no member.
LEMMA RowChanged ==
    ASSUME NEW w \in Worlds, Indexed(w), NEW g \in Objects, w.grp[g] # None, NEW i \in Ids, w.grp[g].id = i,
           NEW r, NEW u, Changed(w, u, g, r), r.slots = w.grp[g].slots,
           NEW e \in Tables, Final(w, e), NEW a,
           a.members = e.members, a.groups[i] = [leader |-> r.leader, raid |-> r.raid],
           \A j \in Ids \ {i} : a.groups[j] = e.groups[j]
    PROVE  Final(u, a)
<1>1. /\ u \in Worlds /\ r \in GroupRecs /\ u.grp[g] = r /\ r.id = i
      /\ \A h \in Objects \ {g} : u.grp[h] = w.grp[h]
      /\ u.store = w.store
  BY DEF Changed
<1>2. w.store[i] = g
  BY Nulls DEF Indexed
<1>3. \A j \in Ids : w.store[j] # None => w.store[j] \in Objects /\ (w.store[j] = g => j = i)
  BY WorldParts, Nulls DEF Indexed
<1>4. \A j \in Ids : u.store[j] = None => a.groups[j] = None
  BY <1>1, <1>2, Nulls DEF Final
<1>5. ASSUME NEW j \in Ids, u.store[j] # None
      PROVE  a.groups[j] = [leader |-> u.grp[u.store[j]].leader, raid |-> u.grp[u.store[j]].raid]
  <2>1. CASE j = i
    BY <1>1, <1>2, <2>1
  <2>2. CASE j # i
    <3>1. u.grp[u.store[j]] = w.grp[w.store[j]]
      BY <1>1, <1>3, <1>5, <2>2
    <3>2. e.groups[j] = [leader |-> w.grp[w.store[j]].leader, raid |-> w.grp[w.store[j]].raid]
      BY <1>1, <1>5 DEF Final
    <3> QED BY <2>2, <3>1, <3>2
  <2> QED BY <2>1, <2>2
<1>6. \A h \in Objects : \A p \in Players :
          /\ Has(u, h, p) <=> Has(w, h, p)
          /\ Has(w, h, p) => u.grp[h].id = w.grp[h].id /\ u.grp[h].slots = w.grp[h].slots
  BY <1>1, Nulls DEF Has
<1>7. \A p \in Players : \A h \in Objects : Has(u, h, p) =>
          u.grp[h].id # None /\ a.members[p] = [id |-> u.grp[h].id, sub |-> u.grp[h].slots[p]]
  BY <1>6 DEF Final
<1>8. \A p \in Players : a.members[p] # None => \E h \in Objects : Has(u, h, p)
  BY <1>6 DEF Final
<1> QED BY <1>4, <1>5, <1>7, <1>8 DEF Final

\* The leader or the kind changes in memory and in the row (ChangeLeader,
\* ConvertToRaid, ConvertToGroup).
LEMMA RowFollows ==
    ASSUME NEW w \in Worlds, Indexed(w), NEW g \in Objects, w.grp[g] # None, NEW i \in Ids, w.grp[g].id = i,
           NEW r, NEW u, Changed(w, u, g, r), r.slots = w.grp[g].slots, Fitting(r),
           u.link = w.link, u.orig = w.orig, u.invite = w.invite,
           NEW o \in Statements, u.queue = Append(w.queue, o),
           \/ o = Op("leader", i, r.leader, None) /\ r.raid = w.grp[g].raid
           \/ o = Op("type", i, None, r.raid) /\ r.leader = w.grp[g].leader,
           NEW d \in Tables, NEW st, NEW ld, Agreed(w, d, st, ld)
    PROVE  Follows(w, u, d, st, ld)
<1>1. Consistent(w, d, st, ld) /\ Once(w.queue, st, ld) /\ Linked(w, st) /\ Sized(w)
  BY DEF Agreed
<1>2. Indexed(u) /\ Sized(u) /\ u \in Worlds
  BY <1>1, ChangedIndexed, ChangedSized DEF Changed
<1>3. \A p \in Players : o # Load(p)
  BY DEF Load, Op
<1>4. w.store[i] = g /\ w.store[i] # None
  BY Nulls DEF Indexed
<1>5. ASSUME NEW e \in Tables, Final(w, e) PROVE Final(u, Apply(e, o))
  <2>1. PICK a : a = Apply(e, o)
    OBVIOUS
  <2>2. e.groups[i] = [leader |-> w.grp[g].leader, raid |-> w.grp[g].raid]
    BY <1>4, <1>5 DEF Final
  <2>3. e.groups[i].leader = w.grp[g].leader /\ e.groups[i].raid = w.grp[g].raid
    BY <2>2
  <2>4. e.groups[i] # None
    <3>1. w.grp[g] \in GroupRecs
      BY GroupAt
    <3>2. PICK l \in Players, b \in BOOLEAN : l = w.grp[g].leader /\ b = w.grp[g].raid
      BY <3>1 DEF GroupRecs
    <3>3. e.groups[i] \in GroupRows
      BY <2>2, <3>2 DEF GroupRows
    <3> QED BY <3>3, Nulls
  <2>5. PICK l \in Players, b \in BOOLEAN : l = r.leader /\ b = r.raid
    BY DEF Changed, GroupRecs
  <2>6. /\ a.members = e.members /\ a.groups[i] = [leader |-> r.leader, raid |-> r.raid]
        /\ \A j \in Ids \ {i} : a.groups[j] = e.groups[j]
    <3>1. CASE o = Op("leader", i, r.leader, None) /\ r.raid = w.grp[g].raid
      <4>1. /\ a.members = e.members /\ a.groups[i] = [leader |-> l, raid |-> e.groups[i].raid]
            /\ \A j \in Ids \ {i} : a.groups[j] = e.groups[j]
        BY <2>1, <2>4, <2>5, <3>1, ApplyLeader
      <4> QED BY <2>3, <2>5, <3>1, <4>1
    <3>2. CASE o = Op("type", i, None, r.raid) /\ r.leader = w.grp[g].leader
      <4>1. /\ a.members = e.members /\ a.groups[i] = [leader |-> e.groups[i].leader, raid |-> b]
            /\ \A j \in Ids \ {i} : a.groups[j] = e.groups[j]
        BY <2>1, <2>4, <2>5, <3>2, ApplyType2
      <4> QED BY <2>3, <2>5, <3>2, <4>1
    <3> QED BY <3>1, <3>2
  <2>7. Final(u, a)
    BY <1>5, <2>6, RowChanged
  <2> QED BY <2>1, <2>7
<1>6. \A h \in Objects : \A p \in Players :
          /\ Has(u, h, p) <=> Has(w, h, p)
          /\ Has(w, h, p) => u.grp[h].id = w.grp[h].id
  BY Nulls DEF Has, Changed
<1>7. Shrinks(w, u, st)
  BY <1>6 DEF Shrinks
<1>8. Consistent(u, d, st, ld) /\ Once(u.queue, st, ld)
  BY <1>1, <1>2, <1>3, <1>5, <1>7, CarryQueued
<1>9. Linked(u, st)
  BY <1>1, <1>6 DEF Linked
<1>10. Placed(w) => Placed(u)
  <2>1. \A p \in Players : w.link[p] # None => w.link[p] \in Objects
    BY WorldParts DEF Pointers
  <2> QED BY <1>6, <2>1 DEF Placed
<1> QED BY <1>2, <1>8, <1>9, <1>10 DEF Agreed, Follows

\* A new leader (ChangeLeader).
LEMMA LedByFollows ==
    ASSUME NEW w \in Worlds, Indexed(w), NEW g \in Objects, w.grp[g] # None, w.grp[g].id # None,
           NEW p \in Players, NEW u, LedBy(w, u, g, p),
           NEW d \in Tables, NEW st, NEW ld, Agreed(w, d, st, ld)
    PROVE  Follows(w, u, d, st, ld)
<1>1. PICK i \in Ids : i = w.grp[g].id
  BY GroupAt DEF GroupRecs
<1>2. PICK r \in GroupRecs :
          /\ u.grp = [w.grp EXCEPT ![g] = r]
          /\ r.leader = p /\ r.raid = w.grp[g].raid
          /\ r.slots = w.grp[g].slots /\ r.counts = w.grp[g].counts /\ r.id = w.grp[g].id
  BY DEF LedBy
<1>3. /\ u \in Worlds
      /\ u.invite = w.invite /\ u.link = w.link /\ u.orig = w.orig /\ u.store = w.store
      /\ u.queue = Append(w.queue, Op("leader", i, p, None))
  BY <1>1 DEF LedBy
<1>4. u.grp[g] = r /\ \A h \in Objects \ {g} : u.grp[h] = w.grp[h]
  BY <1>2, WorldParts DEF Groupings
<1>5. Changed(w, u, g, r)
  BY <1>2, <1>3, <1>4 DEF Changed
<1>6. Fitting(r)
  <2>1. Fitting(w.grp[g])
    BY DEF Agreed, Sized
  <2> QED BY <1>2, <2>1, FittingSame
<1>7. PICK o \in Statements : o = Op("leader", i, p, None)
  BY DEF Op, Statements
<1>8. u.queue = Append(w.queue, o) /\ o = Op("leader", i, r.leader, None) /\ r.raid = w.grp[g].raid
  BY <1>2, <1>3, <1>7
<1> QED BY <1>1, <1>2, <1>3, <1>5, <1>6, <1>8, RowFollows

\* A group that gets an identifier gets a row (Create).
LEMMA NumberingFollows ==
    ASSUME NEW w \in Worlds, Numbered(w), NEW g \in Objects, w.grp[g] # None, w.grp[g].id = None,
           NEW u, Numbering(w, u, g),
           NEW d \in Tables, NEW st, NEW ld, Agreed(w, d, st, ld)
    PROVE  Indexed(u) /\ Follows(w, u, d, st, ld)
<1>1. Consistent(w, d, st, ld) /\ Once(w.queue, st, ld) /\ Linked(w, st) /\ Sized(w) /\ Indexed(w)
  BY DEF Agreed, Numbered, Indexed
<1>2. PICK i \in Ids : i = w.next /\ w.store[i] = None
  BY WorldParts DEF Numbered
<1>3. PICK r \in GroupRecs :
          /\ u.grp = [w.grp EXCEPT ![g] = r]
          /\ r.leader = w.grp[g].leader /\ r.raid = w.grp[g].raid
          /\ r.slots = w.grp[g].slots /\ r.counts = w.grp[g].counts /\ r.id = i
  BY <1>2 DEF Numbering
<1>4. /\ u \in Worlds
      /\ u.invite = w.invite /\ u.link = w.link /\ u.orig = w.orig
      /\ u.store = [w.store EXCEPT ![i] = g]
      /\ u.queue = Append(w.queue, Op("ins_group", i, r.leader, r.raid))
  BY <1>2, <1>3 DEF Numbering
<1>5. u.grp[g] = r /\ \A h \in Objects \ {g} : u.grp[h] = w.grp[h]
  BY <1>3, WorldParts DEF Groupings
<1>6. \A j \in Ids : u.store[j] = IF j = i THEN g ELSE w.store[j]
  BY <1>4, WorldParts
<1>7. \A j \in Ids : w.store[j] # None => w.store[j] \in Objects \ {g}
  BY <1>1, WorldParts, Nulls DEF Indexed
<1>8. Indexed(u)
  <2>1. ASSUME NEW h \in Objects, u.grp[h] # None, u.grp[h].id # None PROVE u.store[u.grp[h].id] = h
    <3>1. CASE h = g
      BY <1>3, <1>5, <1>6, <3>1
    <3>2. CASE h # g
      <4>1. w.grp[h] # None /\ w.grp[h].id # None /\ u.grp[h].id = w.grp[h].id
        BY <1>5, <2>1, <3>2
      <4>2. w.grp[h].id \in Ids /\ w.store[w.grp[h].id] = h
        BY <1>1, <4>1, GroupAt DEF Indexed, GroupRecs
      <4>3. w.grp[h].id # i
        BY <1>2, <4>2, Nulls
      <4> QED BY <1>6, <4>1, <4>2, <4>3
    <3> QED BY <3>1, <3>2
  <2>2. ASSUME NEW j \in Ids, u.store[j] # None PROVE u.grp[u.store[j]] # None /\ u.grp[u.store[j]].id = j
    <3>1. CASE j = i
      BY <1>3, <1>5, <1>6, <3>1, Nulls
    <3>2. CASE j # i
      <4>1. u.store[j] = w.store[j] /\ w.store[j] # None
        BY <1>6, <2>2, <3>2
      <4>2. u.grp[u.store[j]] = w.grp[w.store[j]]
        BY <1>5, <1>7, <4>1
      <4> QED BY <1>1, <4>1, <4>2 DEF Indexed
    <3> QED BY <3>1, <3>2
  <2> QED BY <2>1, <2>2 DEF Indexed
<1>9. Sized(u)
  <2>1. Fitting(r)
    <3>1. Fitting(w.grp[g])
      BY <1>1 DEF Sized
    <3> QED BY <1>3, <3>1, FittingSame
  <2> QED BY <1>1, <1>5, <2>1 DEF Sized
<1>10. PICK l \in Players, b \in BOOLEAN : l = r.leader /\ b = r.raid
  BY DEF GroupRecs
<1>11. PICK o \in Statements : o = Op("ins_group", i, l, b)
  BY DEF Op, Statements
<1>12. u.queue = Append(w.queue, o)
  BY <1>4, <1>10, <1>11
<1>13. \A p \in Players : o # Load(p)
  BY <1>11 DEF Load, Op
<1>14. \A h \in Objects : \A p \in Players : Has(u, h, p) <=> Has(w, h, p)
  BY <1>3, <1>5, Nulls DEF Has
<1>15. \A p \in Players : ~Has(w, g, p)
  <2>1. PICK H : Chain(H, d, w.queue) /\ Final(w, H[Len(w.queue)])
    BY <1>1 DEF Consistent
  <2> QED BY <2>1 DEF Final
<1>16. ASSUME NEW e \in Tables, Final(w, e) PROVE Final(u, Apply(e, o))
  <2>1. PICK a : a = Apply(e, o)
    OBVIOUS
  <2>2. e.groups[i] = None
    BY <1>2, <1>16 DEF Final
  <2>3. /\ a.members = e.members /\ a.groups[i] = [leader |-> l, raid |-> b]
        /\ \A j \in Ids \ {i} : a.groups[j] = e.groups[j]
    BY <1>11, <2>1, <2>2, ApplyInsGroup
  <2>4. \A j \in Ids : u.store[j] = None => a.groups[j] = None
    BY <1>6, <1>16, <2>3, Nulls DEF Final
  <2>5. ASSUME NEW j \in Ids, u.store[j] # None
        PROVE  a.groups[j] = [leader |-> u.grp[u.store[j]].leader, raid |-> u.grp[u.store[j]].raid]
    <3>1. CASE j = i
      BY <1>5, <1>6, <1>10, <2>3, <3>1
    <3>2. CASE j # i
      <4>1. u.store[j] = w.store[j] /\ w.store[j] # None
        BY <1>6, <2>5, <3>2
      <4>2. u.grp[u.store[j]] = w.grp[w.store[j]]
        BY <1>5, <1>7, <4>1
      <4>3. e.groups[j] = [leader |-> w.grp[w.store[j]].leader, raid |-> w.grp[w.store[j]].raid]
        BY <1>16, <4>1 DEF Final
      <4> QED BY <2>3, <3>2, <4>2, <4>3
    <3> QED BY <3>1, <3>2
  <2>6. \A p \in Players : \A h \in Objects : Has(u, h, p) =>
            u.grp[h].id # None /\ a.members[p] = [id |-> u.grp[h].id, sub |-> u.grp[h].slots[p]]
    BY <1>5, <1>14, <1>15, <1>16, <2>3 DEF Final
  <2>7. \A p \in Players : a.members[p] # None => \E h \in Objects : Has(u, h, p)
    BY <1>14, <1>16, <2>3 DEF Final
  <2> QED BY <2>1, <2>4, <2>5, <2>6, <2>7 DEF Final
<1>17. Shrinks(w, u, st)
  BY <1>5, <1>14, <1>15 DEF Shrinks
<1>18. Consistent(u, d, st, ld) /\ Once(u.queue, st, ld)
  BY <1>1, <1>4, <1>8, <1>9, <1>12, <1>13, <1>16, <1>17, CarryQueued
<1>19. Linked(u, st)
  BY <1>1, <1>4, <1>14 DEF Linked
<1>20. Placed(w) => Placed(u)
  <2>1. \A p \in Players : w.link[p] # None => w.link[p] \in Objects
    BY WorldParts DEF Pointers
  <2> QED BY <1>4, <1>14, <2>1 DEF Placed
<1> QED BY <1>8, <1>9, <1>18, <1>19, <1>20 DEF Agreed, Follows

\* A player who has no group gets a slot and a row (AddMember).
LEMMA JoinedFollows ==
    ASSUME NEW w \in Worlds, Indexed(w), NEW g \in Objects, w.grp[g] # None, w.grp[g].id # None,
           NEW p \in Players, NEW s, NEW u, Joined(w, u, g, p, s),
           NEW d \in Tables, NEW st, NEW ld, Agreed(w, d, st, ld),
           st[p] = "in", w.link[p] = None,
           w.grp[g].raid => w.grp[g].counts[s] < GroupSize,
           ~w.grp[g].raid => Cardinality(Members(w, g)) < GroupSize
    PROVE  Indexed(u) /\ Follows(w, u, d, st, ld)
<1>1. Consistent(w, d, st, ld) /\ Once(w.queue, st, ld) /\ Linked(w, st) /\ Sized(w)
  BY DEF Agreed
<1>2. PICK i \in Ids : i = w.grp[g].id
  BY GroupAt DEF GroupRecs
<1>3. PICK r \in GroupRecs :
          /\ u.grp = [w.grp EXCEPT ![g] = r]
          /\ r.leader = w.grp[g].leader /\ r.raid = w.grp[g].raid /\ r.id = i
          /\ r.slots = [w.grp[g].slots EXCEPT ![p] = s]
          /\ r.counts = IF r.raid THEN SubGroupCounterIncrease(w.grp[g].counts, s) ELSE w.grp[g].counts
  BY <1>2 DEF Joined
<1>4. /\ u \in Worlds /\ s \in Subs
      /\ u.invite = [w.invite EXCEPT ![p] = None]
      /\ u.link = [w.link EXCEPT ![p] = g]
      /\ u.orig = w.orig
      /\ u.store = w.store
      /\ u.queue = Append(w.queue, Op("ins_member", i, p, s))
  <2>1. /\ u \in Worlds /\ s \in Subs
        /\ u.invite = [w.invite EXCEPT ![p] = None]
        /\ u.link = [w.link EXCEPT ![p] = IF @ = None THEN g ELSE @]
        /\ u.orig = [w.orig EXCEPT ![p] = IF w.link[p] = None THEN @ ELSE g]
        /\ u.store = w.store
        /\ u.queue = Append(w.queue, Op("ins_member", i, p, s))
    BY <1>2 DEF Joined
  <2>2. u.link = [w.link EXCEPT ![p] = g]
    BY <2>1
  <2>3. w.orig \in Pointers
    BY WorldParts
  <2>4. u.orig = w.orig
    BY <2>1, <2>3 DEF Pointers
  <2> QED BY <2>1, <2>2, <2>4
<1>5. u.grp[g] = r /\ \A h \in Objects \ {g} : u.grp[h] = w.grp[h]
  BY <1>3, WorldParts DEF Groupings
<1>6. Changed(w, u, g, r)
  BY <1>2, <1>3, <1>4, <1>5 DEF Changed
<1>7. \A h \in Objects : ~Has(w, h, p)
  BY <1>1, Nulls DEF Linked
<1>8. w.grp[g] \in GroupRecs /\ w.grp[g].slots[p] = None
  BY <1>7, GroupAt DEF Has
<1>9. Fitting(r)
  <2>1. Fitting(w.grp[g])
    BY <1>1 DEF Sized
  <2>2. ~w.grp[g].raid => Cardinality({q \in Players : w.grp[g].slots[q] # None}) < GroupSize
    BY DEF Members
  <2> QED BY <1>3, <1>4, <1>8, <2>1, <2>2, JoinFits
<1>10. Indexed(u) /\ Sized(u)
  BY <1>1, <1>6, <1>9, ChangedIndexed, ChangedSized
<1>11. PICK o \in Statements : o = Op("ins_member", i, p, s)
  BY <1>4 DEF Op, Statements
<1>12. \A q \in Players : o # Load(q)
  BY <1>11 DEF Load, Op
<1>13. \A q \in Players : r.slots[q] = IF q = p THEN s ELSE w.grp[g].slots[q]
  BY <1>3, <1>8 DEF GroupRecs
<1>14. Has(u, g, p) /\ \A h \in Objects \ {g} : ~Has(u, h, p)
  BY <1>3, <1>4, <1>5, <1>7, <1>13, Nulls DEF Has
<1>15. \A h \in Objects : \A q \in Players \ {p} :
           /\ Has(u, h, q) <=> Has(w, h, q)
           /\ Has(w, h, q) => u.grp[h].id = w.grp[h].id /\ u.grp[h].slots[q] = w.grp[h].slots[q]
  <2> SUFFICES ASSUME NEW h \in Objects, NEW q \in Players \ {p}
               PROVE  /\ Has(u, h, q) <=> Has(w, h, q)
                      /\ Has(w, h, q) => u.grp[h].id = w.grp[h].id /\ u.grp[h].slots[q] = w.grp[h].slots[q]
    OBVIOUS
  <2>1. CASE h = g
    <3>1. r # None /\ r.id = w.grp[g].id /\ r.slots[q] = w.grp[g].slots[q]
      BY <1>2, <1>3, <1>13, Nulls
    <3> QED BY <1>5, <2>1, <3>1 DEF Has
  <2>2. CASE h # g
    BY <1>5, <2>2 DEF Has
  <2> QED BY <2>1, <2>2
<1>16. ASSUME NEW e \in Tables, Final(w, e) PROVE Final(u, Apply(e, o))
  <2>1. PICK a : a = Apply(e, o)
    OBVIOUS
  <2>2. e.members[p] = None
    BY <1>7, <1>16 DEF Final
  <2>3. /\ a.groups = e.groups /\ a.members[p] = [id |-> i, sub |-> s]
        /\ \A q \in Players \ {p} : a.members[q] = e.members[q]
    BY <1>4, <1>11, <2>1, <2>2, ApplyInsMember
  <2>4. \A j \in Ids : u.store[j] = None => a.groups[j] = None
    BY <1>4, <1>16, <2>3 DEF Final
  <2>5. \A j \in Ids : u.store[j] # None =>
            a.groups[j] = [leader |-> u.grp[u.store[j]].leader, raid |-> u.grp[u.store[j]].raid]
    <3>1. \A j \in Ids : w.store[j] # None => w.store[j] \in Objects
      BY WorldParts
    <3>2. \A h \in Objects : u.grp[h].leader = w.grp[h].leader /\ u.grp[h].raid = w.grp[h].raid
      BY <1>3, <1>5
    <3> QED BY <1>4, <1>16, <2>3, <3>1, <3>2 DEF Final
  <2>6. ASSUME NEW q \in Players, NEW h \in Objects, Has(u, h, q)
        PROVE  u.grp[h].id # None /\ a.members[q] = [id |-> u.grp[h].id, sub |-> u.grp[h].slots[q]]
    <3>1. CASE q = p
      <4>1. h = g
        BY <1>14, <2>6, <3>1
      <4> QED BY <1>3, <1>5, <1>13, <2>3, <3>1, <4>1, Nulls
    <3>2. CASE q # p
      BY <1>15, <1>16, <2>3, <2>6, <3>2 DEF Final
    <3> QED BY <3>1, <3>2
  <2>7. \A q \in Players : a.members[q] # None => \E h \in Objects : Has(u, h, q)
    BY <1>14, <1>15, <1>16, <2>3 DEF Final
  <2> QED BY <2>1, <2>4, <2>5, <2>6, <2>7 DEF Final
<1>17. Shrinks(w, u, st)
  BY <1>15 DEF Shrinks
<1>18. Consistent(u, d, st, ld) /\ Once(u.queue, st, ld)
  BY <1>1, <1>4, <1>10, <1>11, <1>12, <1>16, <1>17, CarryQueued
<1>19. \A q \in Players : /\ u.link[q] = IF q = p THEN g ELSE w.link[q]
                          /\ u.invite[q] = IF q = p THEN None ELSE w.invite[q]
  BY <1>4, WorldParts DEF Pointers
<1>20. Linked(u, st)
  BY <1>1, <1>4, <1>14, <1>15, <1>19 DEF Linked
<1>21. Placed(w) => Placed(u)
  <2>1. \A q \in Players : w.link[q] # None => w.link[q] \in Objects
    BY WorldParts DEF Pointers
  <2> QED BY <1>14, <1>15, <1>19, <2>1 DEF Placed
<1> QED BY <1>10, <1>18, <1>20, <1>21 DEF Agreed, Follows

\* A player who has no slot elsewhere loses his slot and his row
\* (RemoveMember).
LEMMA RemovedFollows ==
    ASSUME NEW w \in Worlds, Indexed(w), NEW g \in Objects, w.grp[g] # None,
           NEW p \in Players, NEW u, Removed(w, u, g, p),
           NEW d \in Tables, NEW st, NEW ld, Agreed(w, d, st, ld),
           \A h \in Objects : Has(w, h, p) => h = g
    PROVE  Indexed(u) /\ Follows(w, u, d, st, ld)
<1>1. Consistent(w, d, st, ld) /\ Once(w.queue, st, ld) /\ Linked(w, st) /\ Sized(w)
  BY DEF Agreed
<1>2. w.grp[g] \in GroupRecs
  BY GroupAt
<1>3. PICK r \in GroupRecs :
          /\ u.grp = [w.grp EXCEPT ![g] = r]
          /\ r.leader = w.grp[g].leader /\ r.raid = w.grp[g].raid /\ r.id = w.grp[g].id
          /\ r.slots = [w.grp[g].slots EXCEPT ![p] = None]
          /\ r.counts = IF w.grp[g].slots[p] # None /\ r.raid
                        THEN SubGroupCounterDecrease(w.grp[g].counts, w.grp[g].slots[p]) ELSE w.grp[g].counts
  BY DEF Removed
<1>4. /\ u \in Worlds /\ u.invite = w.invite /\ u.store = w.store
      /\ u.link = [w.link EXCEPT ![p] = IF (FindPlayer(p) /\ w.orig[p] # g) \/ @ = g THEN None ELSE @]
      /\ u.orig = [w.orig EXCEPT ![p] = IF @ = g THEN None ELSE @]
      /\ u.queue = Append(w.queue, Op("del_member", None, p, None))
  BY DEF Removed
<1>5. u.grp[g] = r /\ \A h \in Objects \ {g} : u.grp[h] = w.grp[h]
  BY <1>3, WorldParts DEF Groupings
<1>6. Changed(w, u, g, r)
  BY <1>3, <1>4, <1>5 DEF Changed
<1>7. Fitting(r)
  <2>1. Fitting(w.grp[g])
    BY <1>1 DEF Sized
  <2> QED BY <1>2, <1>3, <2>1, RemovalFits
<1>8. Indexed(u) /\ Sized(u)
  BY <1>1, <1>6, <1>7, ChangedIndexed, ChangedSized
<1>9. PICK o \in Statements : o = Op("del_member", None, p, None)
  BY DEF Op, Statements
<1>10. \A q \in Players : o # Load(q)
  BY <1>9 DEF Load, Op
<1>11. \A q \in Players : r.slots[q] = IF q = p THEN None ELSE w.grp[g].slots[q]
  BY <1>2, <1>3 DEF GroupRecs
<1>12. \A h \in Objects : ~Has(u, h, p)
  BY <1>5, <1>11 DEF Has
<1>13. \A h \in Objects : \A q \in Players \ {p} :
           /\ Has(u, h, q) <=> Has(w, h, q)
           /\ Has(w, h, q) => u.grp[h].id = w.grp[h].id /\ u.grp[h].slots[q] = w.grp[h].slots[q]
  <2> SUFFICES ASSUME NEW h \in Objects, NEW q \in Players \ {p}
               PROVE  /\ Has(u, h, q) <=> Has(w, h, q)
                      /\ Has(w, h, q) => u.grp[h].id = w.grp[h].id /\ u.grp[h].slots[q] = w.grp[h].slots[q]
    OBVIOUS
  <2>1. CASE h = g
    <3>1. r # None /\ r.id = w.grp[g].id /\ r.slots[q] = w.grp[g].slots[q]
      BY <1>3, <1>11, Nulls
    <3> QED BY <1>5, <2>1, <3>1 DEF Has
  <2>2. CASE h # g
    BY <1>5, <2>2 DEF Has
  <2> QED BY <2>1, <2>2
<1>14. ASSUME NEW e \in Tables, Final(w, e) PROVE Final(u, Apply(e, o))
  <2>1. PICK a : a = Apply(e, o)
    OBVIOUS
  <2>2. /\ a.groups = e.groups /\ a.members[p] = None
        /\ \A q \in Players \ {p} : a.members[q] = e.members[q]
    BY <1>9, <2>1, ApplyDelMember
  <2>3. \A j \in Ids : u.store[j] = None => a.groups[j] = None
    BY <1>4, <1>14, <2>2 DEF Final
  <2>4. \A j \in Ids : u.store[j] # None =>
            a.groups[j] = [leader |-> u.grp[u.store[j]].leader, raid |-> u.grp[u.store[j]].raid]
    <3>1. \A j \in Ids : w.store[j] # None => w.store[j] \in Objects
      BY WorldParts
    <3>2. \A h \in Objects : u.grp[h].leader = w.grp[h].leader /\ u.grp[h].raid = w.grp[h].raid
      BY <1>3, <1>5
    <3> QED BY <1>4, <1>14, <2>2, <3>1, <3>2 DEF Final
  <2>5. \A q \in Players : \A h \in Objects : Has(u, h, q) =>
            u.grp[h].id # None /\ a.members[q] = [id |-> u.grp[h].id, sub |-> u.grp[h].slots[q]]
    BY <1>12, <1>13, <1>14, <2>2 DEF Final
  <2>6. \A q \in Players : a.members[q] # None => \E h \in Objects : Has(u, h, q)
    BY <1>13, <1>14, <2>2 DEF Final
  <2> QED BY <2>1, <2>3, <2>4, <2>5, <2>6 DEF Final
<1>15. Shrinks(w, u, st)
  BY <1>12, <1>13 DEF Shrinks
<1>16. Consistent(u, d, st, ld) /\ Once(u.queue, st, ld)
  BY <1>1, <1>4, <1>8, <1>9, <1>10, <1>14, <1>15, CarryQueued
<1>17. /\ \A q \in Players \ {p} : u.link[q] = w.link[q]
       /\ u.link[p] \in {None, w.link[p]} \ {g}
       /\ \A q \in Players : u.orig[q] \in {None, w.orig[q]}
  BY <1>4, WorldParts, Nulls DEF Pointers
<1>18. Linked(u, st)
  BY <1>1, <1>4, <1>12, <1>13, <1>17 DEF Linked
<1>19. ASSUME Placed(w) PROVE Placed(u)
  <2>1. \A q \in Players : w.link[q] # None => w.link[q] \in Objects /\ Has(w, w.link[q], q)
    BY <1>19, WorldParts DEF Pointers, Placed
  <2>2. u.link[p] = None
    BY <1>17, <2>1
  <2> QED BY <1>13, <1>17, <2>1, <2>2 DEF Placed
<1> QED BY <1>8, <1>16, <1>18, <1>19 DEF Agreed, Follows

\* A well-formed world is indexed.
LEMMA WellIndexed ==
    ASSUME NEW w, Well(w)
    PROVE  w \in Worlds /\ Numbered(w) /\ Indexed(w)
BY DEF Well, Numbered, Indexed

\* Two operations, one after the other.
LEMMA FollowsTwice ==
    ASSUME NEW w, NEW v, NEW u, NEW d, NEW st, NEW ld, Follows(w, v, d, st, ld), Follows(v, u, d, st, ld)
    PROVE  Follows(w, u, d, st, ld)
BY DEF Follows

\* RemoveInvite changes neither the tables nor the places.
LEMMA RemoveInviteFollows ==
    ASSUME NEW w \in Worlds, Indexed(w), NEW g \in Objects, w.grp[g] # None, NEW p \in Players,
           NEW u, u = RemoveInvite(w, g, p), NEW d, NEW st, NEW ld, Agreed(w, d, st, ld)
    PROVE  Follows(w, u, d, st, ld)
<1>1. /\ u \in Worlds
      /\ u.grp = [w.grp EXCEPT ![g] = [w.grp[g] EXCEPT !.invitees = @ \ {p}]]
      /\ u.invite = [w.invite EXCEPT ![p] = None]
      /\ u.link = w.link /\ u.orig = w.orig /\ u.store = w.store /\ u.queue = w.queue
  BY RemoveInviteParts
<1>2. PICK r : r = [w.grp[g] EXCEPT !.invitees = @ \ {p}]
  OBVIOUS
<1>3. w.grp[g] \in GroupRecs
  BY GroupAt
<1>4. /\ r \in GroupRecs
      /\ r.leader = w.grp[g].leader /\ r.slots = w.grp[g].slots /\ r.raid = w.grp[g].raid
      /\ r.counts = w.grp[g].counts /\ r.id = w.grp[g].id
  BY <1>2, <1>3 DEF GroupRecs
<1>5. u.grp[g] = r /\ \A h \in Objects \ {g} : u.grp[h] = w.grp[h]
  BY <1>1, <1>2, WorldParts DEF Groupings
<1>6. SameGroups(w, u)
  BY <1>4, <1>5, Nulls DEF SameGroups
<1>7. \A q \in Players : u.invite[q] # None =>
          (w.link[q] = None /\ st[q] \in {"in", "zoning"}) \/ u.invite[q] = w.invite[q]
  BY <1>1, WorldParts DEF Pointers
<1> QED BY <1>1, <1>6, <1>7, SameFollows

\* AddInvite, for a player who has no group.
LEMMA AddInviteFollows ==
    ASSUME NEW w \in Worlds, Indexed(w), NEW g \in Objects, w.grp[g] # None, NEW p \in Players, w.link[p] = None,
           NEW u, u = AddInvite(w, g, p), NEW d, NEW st, NEW ld, Agreed(w, d, st, ld), st[p] = "in"
    PROVE  Follows(w, u, d, st, ld)
<1>1. /\ u \in Worlds
      /\ u.grp = [w.grp EXCEPT ![g] = [w.grp[g] EXCEPT !.invitees = @ \cup {p}]]
      /\ u.invite = [w.invite EXCEPT ![p] = g]
      /\ u.link = w.link /\ u.orig = w.orig /\ u.store = w.store /\ u.queue = w.queue
  BY AddInviteParts
<1>2. PICK r : r = [w.grp[g] EXCEPT !.invitees = @ \cup {p}]
  OBVIOUS
<1>3. w.grp[g] \in GroupRecs
  BY GroupAt
<1>4. /\ r \in GroupRecs
      /\ r.leader = w.grp[g].leader /\ r.slots = w.grp[g].slots /\ r.raid = w.grp[g].raid
      /\ r.counts = w.grp[g].counts /\ r.id = w.grp[g].id
  BY <1>2, <1>3 DEF GroupRecs
<1>5. u.grp[g] = r /\ \A h \in Objects \ {g} : u.grp[h] = w.grp[h]
  BY <1>1, <1>2, WorldParts DEF Groupings
<1>6. SameGroups(w, u)
  BY <1>4, <1>5, Nulls DEF SameGroups
<1>7. \A q \in Players : u.invite[q] # None =>
          (w.link[q] = None /\ st[q] \in {"in", "zoning"}) \/ u.invite[q] = w.invite[q]
  BY <1>1, WorldParts DEF Pointers
<1> QED BY <1>1, <1>6, <1>7, SameFollows

\* A group that is only constructed has no members and no row (Group::Group).
LEMMA NewGroupFollows ==
    ASSUME NEW w \in Worlds, Indexed(w), NEW g \in Objects, w.grp[g] = None, NEW p \in Players,
           NEW u, u = [w EXCEPT !.grp[g] = NewGroup(p)], NEW d, NEW st, NEW ld, Agreed(w, d, st, ld)
    PROVE  Follows(w, u, d, st, ld) /\ u.link = w.link
<1>1. PICK r \in GroupRecs : r = NewGroup(p) /\ r.slots = NoSlots /\ ~r.raid
  BY NewGroupType
<1>2. u = [grp |-> [w.grp EXCEPT ![g] = r], link |-> w.link, orig |-> w.orig,
           invite |-> w.invite, store |-> w.store, next |-> w.next, queue |-> w.queue]
  BY <1>1 DEF Worlds
<1>3. u \in Worlds
  BY <1>2, WorldParts DEF Worlds, Groupings
<1>4. /\ u.grp = [w.grp EXCEPT ![g] = r]
      /\ u.link = w.link /\ u.orig = w.orig /\ u.invite = w.invite /\ u.store = w.store /\ u.queue = w.queue
  BY <1>2
<1>5. u.grp[g] = r /\ \A h \in Objects \ {g} : u.grp[h] = w.grp[h]
  BY <1>4, WorldParts DEF Groupings
<1>6. SameGroups(w, u)
  BY <1>1, <1>5 DEF SameGroups
<1> QED BY <1>3, <1>4, <1>6, SameFollows

\* Player::UninviteFromGroup, with what it does to the group.
LEMMA UninviteFollows ==
    ASSUME NEW w, Well(w), NEW p \in Players, w.invite[p] # None => w.grp[w.invite[p]] # None,
           NEW u, u = UninviteFromGroup(w, p),
           NEW d \in Tables, NEW st, NEW ld, Agreed(w, d, st, ld)
    PROVE  Follows(w, u, d, st, ld)
<1>1. CASE w.invite[p] = None
  <2>1. u = w
    BY <1>1 DEF UninviteFromGroup
  <2> QED BY <2>1 DEF Follows
<1>2. CASE w.invite[p] # None
  <2>1. w \in Worlds /\ Pointed(w) /\ Indexed(w)
    BY WellIndexed DEF Well
  <2>2. PICK g \in Objects : g = w.invite[p]
    BY <1>2, <2>1, WorldParts DEF Pointers
  <2>3. w.grp[g] # None
    BY <1>2, <2>2
  <2>4. PICK v : v = RemoveInvite(w, g, p)
    OBVIOUS
  <2>5. Well(v) /\ v.grp[g] # None
    <3>1. InviteRemoved(w, v, g, p)
      BY <2>3, <2>4, RemoveInviteWell
    <3> QED BY <3>1 DEF InviteRemoved
  <2>6. Follows(w, v, d, st, ld)
    BY <2>1, <2>3, <2>4, RemoveInviteFollows
  <2>7. v \in Worlds /\ Formed(v) /\ Indexed(v)
    BY <2>5, WellIndexed DEF Well
  <2>8. u = IF Cardinality(Members(v, g)) > 1 THEN v
            ELSE IF IsCreated(v, g) THEN Disband(v, g)
            ELSE DeleteGroup(RemoveAllInvites(v, g), g)
    BY <1>2, <2>2, <2>4 DEF UninviteFromGroup
  <2>9. CASE u = v
    BY <2>6, <2>9
  <2>10. ASSUME Gone(v, u, g) PROVE Follows(w, u, d, st, ld)
    <3>1. Indexed(u)
      <4>1. Well(u)
        BY <2>5, <2>10, GoneWell
      <4> QED BY <4>1, WellIndexed
    <3>2. Agreed(v, d, st, ld)
      BY <2>6 DEF Follows
    <3>3. Follows(v, u, d, st, ld)
      BY <2>5, <2>7, <2>10, <3>1, <3>2, GoneFollows
    <3> QED BY <2>6, <3>3, FollowsTwice
  <2>11. CASE u = Disband(v, g) /\ IsCreated(v, g)
    <3>1. v.grp[g].id # None
      BY <2>5, <2>7, <2>11 DEF Formed
    <3>2. Gone(v, u, g)
      BY <2>5, <2>7, <2>11, <3>1, DisbandGone
    <3> QED BY <2>10, <3>2
  <2>12. CASE u = DeleteGroup(RemoveAllInvites(v, g), g) /\ ~IsCreated(v, g)
    <3>1. v.grp[g].id = None
      BY <2>5, <2>7, <2>12 DEF Formed
    <3>2. Gone(v, u, g)
      BY <2>5, <2>7, <2>12, <3>1, DeleteGone
    <3> QED BY <2>10, <3>2
  <2> QED BY <2>8, <2>9, <2>11, <2>12
<1> QED BY <1>1, <1>2

\* Group::RemoveMember, with a new leader and the end of the group.
LEMMA RemoveMemberFollows ==
    ASSUME NEW w, Well(w), NEW g \in Objects, w.grp[g] # None, w.grp[g].id # None, NEW p \in Players,
           NEW new \in {None} \cup Players, NEW u, u = RemoveMember(w, g, p, new),
           \A h \in Objects : Has(w, h, p) => h = g,
           NEW d \in Tables, NEW st, NEW ld, Agreed(w, d, st, ld)
    PROVE  Follows(w, u, d, st, ld)
<1>1. w \in Worlds /\ Indexed(w)
  BY WellIndexed
<1>2. CASE Cardinality(Members(w, g)) <= 2
  <2>1. u = Disband(w, g)
    BY <1>2 DEF RemoveMember
  <2>2. Gone(w, u, g)
    BY <1>1, <2>1, DisbandGone
  <2>3. Well(u)
    BY <2>2, GoneWell
  <2>4. Indexed(u)
    BY <2>3, WellIndexed
  <2> QED BY <1>1, <2>2, <2>4, GoneFollows
<1>3. CASE ~(Cardinality(Members(w, g)) <= 2)
  <2>1. Cardinality(Members(w, g)) > 2
    <3>1. PICK S : S = Members(w, g)
      OBVIOUS
    <3>2. S \subseteq Players
      BY <3>1 DEF Members
    <3>3. Cardinality(S) \in Nat
      BY <3>2, PartSize
    <3> QED BY <1>3, <3>1, <3>3
  <2>2. PICK out : out = TakeOut(w, g, p)
    OBVIOUS
  <2>3. Removed(w, out, g, p)
    BY <1>1, <2>2, TakeOutRemoves
  <2>4. Well(out) /\ out.grp[g] # None /\ out.grp[g].id # None
    <3>1. /\ Well(out) /\ out.invite = w.invite
          /\ out.grp[g] # None /\ out.grp[g].invitees = w.grp[g].invitees
          /\ out.grp[g].leader = w.grp[g].leader /\ out.grp[g].id = w.grp[g].id
          /\ out.grp[g].slots = [w.grp[g].slots EXCEPT ![p] = None]
          /\ \A h \in Objects \ {g} : out.grp[h] = w.grp[h]
      BY <2>1, <2>3, RemovedWell
    <3> QED BY <3>1
  <2>5. Follows(w, out, d, st, ld)
    BY <1>1, <2>3, RemovedFollows
  <2>6. PICK led : led = IF w.grp[g].leader = p /\ new # None THEN ChangeLeader(out, g, new) ELSE out
    OBVIOUS
  <2>7. Well(led) /\ led.grp[g] # None /\ led.grp[g].id # None /\ Follows(w, led, d, st, ld)
    <3>1. CASE w.grp[g].leader = p /\ new # None
      <4>1. PICK n \in Players : n = new
        BY <3>1
      <4>2. out \in Worlds /\ Indexed(out)
        BY <2>4, WellIndexed
      <4>3. LedBy(out, led, g, n)
        BY <2>4, <2>6, <3>1, <4>1, <4>2, ChangeLeaderParts
      <4>4. Well(led) /\ led.grp[g] # None /\ led.grp[g].id # None
        BY <2>4, <4>3, LedByWell
      <4>5. Agreed(out, d, st, ld)
        BY <2>5 DEF Follows
      <4>6. Follows(out, led, d, st, ld)
        BY <2>4, <4>2, <4>3, <4>5, LedByFollows
      <4> QED BY <2>5, <4>4, <4>6, FollowsTwice
    <3>2. CASE ~(w.grp[g].leader = p /\ new # None)
      BY <2>4, <2>5, <2>6, <3>2
    <3> QED BY <3>1, <3>2
  <2>8. u = IF Cardinality({q \in Players : g \in {led.link[q], led.orig[q]}}) < 2 THEN Disband(led, g) ELSE led
    BY <1>3, <2>2, <2>6 DEF RemoveMember
  <2>9. CASE u = led
    BY <2>7, <2>9
  <2>10. CASE u = Disband(led, g)
    <3>1. led \in Worlds /\ Indexed(led)
      BY <2>7, WellIndexed
    <3>2. Gone(led, u, g)
      BY <2>7, <2>10, <3>1, DisbandGone
    <3>3. Well(u)
      BY <2>7, <3>2, GoneWell
    <3>4. Indexed(u)
      BY <3>3, WellIndexed
    <3>5. Agreed(led, d, st, ld)
      BY <2>7 DEF Follows
    <3>6. Follows(led, u, d, st, ld)
      BY <2>7, <3>1, <3>2, <3>4, <3>5, GoneFollows
    <3> QED BY <2>7, <3>6, FollowsTwice
  <2> QED BY <2>8, <2>9, <2>10
<1> QED BY <1>2, <1>3

\* The first free subgroup of a raid has a place.
LEMMA FreeSubFree ==
    ASSUME NEW w \in Worlds, NEW g \in Objects, w.grp[g].raid, NEW s \in Subs, s = FreeSub(w, g)
    PROVE  w.grp[g].counts[s] < GroupSize
<1>1. PICK T : T = {x \in Subs : w.grp[g].counts[x] < GroupSize}
  OBVIOUS
<1>2. PICK n \in Nat \ {0} : n = SubGroups
  BY GroupsAssumption
<1>3. T \cup {n} \subseteq Nat /\ T \cup {n} # {}
  BY <1>1, Nulls
<1>4. Min(T \cup {n}) \in T \cup {n}
  BY <1>3, MinFacts
<1>5. s = Min(T \cup {n})
  BY <1>1, <1>2 DEF FreeSub
<1>6. s # n
  BY <1>2 DEF Subs
<1> QED BY <1>1, <1>4, <1>5, <1>6

\* Group::AddMember, for a player in the world who has no group.
LEMMA AddMemberFollows ==
    ASSUME NEW w \in Worlds, Indexed(w), NEW g \in Objects, w.grp[g] # None, w.grp[g].id # None,
           NEW p \in Players, NEW u, u = AddMember(w, g, p),
           NEW d \in Tables, NEW st, NEW ld, Agreed(w, d, st, ld),
           st[p] = "in", w.link[p] = None,
           ~w.grp[g].raid => Cardinality(Members(w, g)) < GroupSize
    PROVE  Indexed(u) /\ Follows(w, u, d, st, ld)
<1>1. CASE FreeSub(w, g) \notin Subs
  BY <1>1, AddMemberJoins DEF Follows
<1>2. CASE FreeSub(w, g) \in Subs
  <2>1. PICK s \in Subs : s = FreeSub(w, g)
    BY <1>2
  <2>2. Joined(w, u, g, p, s)
    BY <1>2, <2>1, AddMemberJoins
  <2>3. w.grp[g].raid => w.grp[g].counts[s] < GroupSize
    BY <2>1, FreeSubFree
  <2> QED BY <2>2, <2>3, JoinedFollows
<1> QED BY <1>1, <1>2

\* What Group::Create leaves: the leader is the only member.
Begins(w, u, g) ==
    /\ u \in Worlds /\ Indexed(u)
    /\ u.link = [w.link EXCEPT ![w.grp[g].leader] = g]
    /\ u.grp[g] # None /\ u.grp[g].id # None /\ ~u.grp[g].raid
    /\ Cardinality(Members(u, g)) = 1

\* Group::Create, for a leader in the world who has no group.
LEMMA CreateFollows ==
    ASSUME NEW w, Well(w), NEW g \in Objects, w.grp[g] # None, w.grp[g].id = None,
           NEW l \in Players, l = w.grp[g].leader, NEW u, u = Create(w, g),
           NEW d \in Tables, NEW st, NEW ld, Agreed(w, d, st, ld),
           st[l] = "in", w.link[l] = None
    PROVE  Begins(w, u, g) /\ Follows(w, u, d, st, ld)
<1>1. w \in Worlds /\ Formed(w) /\ Numbered(w)
  BY DEF Well
<1>2. NextStoreId(w) \in Ids
  BY NextIdFree
<1>3. PICK v : Numbering(w, v, g) /\ u = AddMember(v, g, l)
  BY <1>1, <1>2, CreateNumbers
<1>4. Indexed(v) /\ Follows(w, v, d, st, ld)
  BY <1>1, <1>3, NumberingFollows
<1>5. PICK y \in GroupRecs :
          /\ v.grp = [w.grp EXCEPT ![g] = y]
          /\ y.raid = w.grp[g].raid /\ y.slots = w.grp[g].slots /\ y.id = w.next
  BY <1>3 DEF Numbering
<1>6. v \in Worlds /\ v.link = w.link /\ w.next \in Ids
  BY <1>1, <1>3, WorldParts DEF Numbering
<1>7. v.grp[g] = y
  BY <1>1, <1>5, WorldParts DEF Groupings
<1>8. v.grp[g] # None /\ v.grp[g].id # None /\ ~v.grp[g].raid
  BY <1>1, <1>5, <1>6, <1>7, Nulls DEF Formed
<1>9. \A q \in Players : y.slots[q] = None
  BY <1>1, <1>5 DEF Formed, IsCreated, Members
<1>10. Members(v, g) = {}
  BY <1>7, <1>9 DEF Members
<1>11. Cardinality(Members(v, g)) < GroupSize
  BY <1>10, GroupsAssumption, FS_EmptySet
<1>12. Agreed(v, d, st, ld)
  BY <1>4 DEF Follows
<1>13. Indexed(u) /\ Follows(v, u, d, st, ld)
  BY <1>3, <1>4, <1>6, <1>8, <1>11, <1>12, AddMemberFollows
<1>14. Follows(w, u, d, st, ld)
  BY <1>4, <1>13, FollowsTwice
<1>15. FreeSub(v, g) = 0 /\ Joined(v, u, g, l, 0)
  BY <1>3, <1>6, <1>8, Nulls, AddMemberJoins
<1>16. PICK r \in GroupRecs :
          /\ u.grp = [v.grp EXCEPT ![g] = r]
          /\ r.raid = v.grp[g].raid /\ r.id = v.grp[g].id
          /\ r.slots = [v.grp[g].slots EXCEPT ![l] = 0]
  BY <1>15 DEF Joined
<1>17. u.grp[g] = r
  BY <1>6, <1>16, WorldParts DEF Groupings
<1>18. u \in Worlds /\ u.link = [w.link EXCEPT ![l] = g]
  BY <1>6, <1>15 DEF Joined
<1>19. Members(u, g) = {l}
  <2>1. y.slots \in [Players -> {None} \cup Subs]
    BY DEF GroupRecs
  <2>2. \A q \in Players : r.slots[q] = IF q = l THEN 0 ELSE None
    BY <1>7, <1>9, <1>16, <2>1
  <2>3. \A q \in Players : u.grp[g].slots[q] # None <=> q = l
    BY <1>17, <2>2, Nulls
  <2> QED BY <2>3 DEF Members
<1>20. Cardinality(Members(u, g)) = 1
  BY <1>19, FS_Singleton
<1> QED BY <1>8, <1>13, <1>14, <1>16, <1>17, <1>18, <1>20, Nulls DEF Begins

-----------------------------------------------------------------------------
(* What the handlers keep of the agreement between memory and tables.      *)

\* Memory and tables agree, and the members' links are right, except after the
\* faults that the model records.
TablesInv ==
    \E w, d, st, ld :
        /\ w = World /\ d = db /\ st = status /\ ld = loaded
        /\ faults \cap {"own invitation", "orphan row"} = {} => Agreed(w, d, st, ld)
        /\ faults \cap {"own invitation", "orphan row", "stale login"} = {} => Placed(w)

\* The invariant, of the present variables.
LEMMA TablesNow ==
    TablesInv <=> /\ faults \cap {"own invitation", "orphan row"} = {} => Agreed(World, db, status, loaded)
                  /\ faults \cap {"own invitation", "orphan row", "stale login"} = {} => Placed(World)
<1>1. ASSUME TablesInv
      PROVE  /\ faults \cap {"own invitation", "orphan row"} = {} => Agreed(World, db, status, loaded)
             /\ faults \cap {"own invitation", "orphan row", "stale login"} = {} => Placed(World)
  <2>1. PICK w, d, st, ld :
            /\ w = World /\ d = db /\ st = status /\ ld = loaded
            /\ faults \cap {"own invitation", "orphan row"} = {} => Agreed(w, d, st, ld)
            /\ faults \cap {"own invitation", "orphan row", "stale login"} = {} => Placed(w)
    BY <1>1 DEF TablesInv
  <2> QED BY <2>1
<1>2. ASSUME faults \cap {"own invitation", "orphan row"} = {} => Agreed(World, db, status, loaded),
             faults \cap {"own invitation", "orphan row", "stale login"} = {} => Placed(World)
      PROVE  TablesInv
  <2>1. PICK w, d, st, ld : w = World /\ d = db /\ st = status /\ ld = loaded
    OBVIOUS
  <2>2. /\ w = World /\ d = db /\ st = status /\ ld = loaded
        /\ faults \cap {"own invitation", "orphan row"} = {} => Agreed(w, d, st, ld)
        /\ faults \cap {"own invitation", "orphan row", "stale login"} = {} => Placed(w)
    BY <1>2, <2>1
  <2> QED BY <2>2 DEF TablesInv
<1> QED BY <1>1, <1>2

\* What a handler that leads to the world u has to show for it.
LEMMA AdvanceTables ==
    ASSUME NEW u \in Worlds, Becomes(u), NEW d, NEW st, NEW ld, d = db', st = status', ld = loaded',
           faults' \cap {"own invitation", "orphan row"} = {} => Agreed(u, d, st, ld),
           faults' \cap {"own invitation", "orphan row", "stale login"} = {} => Placed(u)
    PROVE  TablesInv'
<1>1. World' = u
  BY BecomesWorld
<1>2. /\ u = World' /\ d = db' /\ st = status' /\ ld = loaded'
      /\ faults' \cap {"own invitation", "orphan row"} = {} => Agreed(u, d, st, ld)
      /\ faults' \cap {"own invitation", "orphan row", "stale login"} = {} => Placed(u)
  BY <1>1
<1> QED BY <1>2 DEF TablesInv

\* So does one that keeps what the other variables are.
LEMMA FollowTables ==
    ASSUME TablesInv, NEW w, w = World, NEW u \in Worlds, Becomes(u), UNCHANGED <<db, status, loaded>>,
           faults \subseteq faults', NEW d, NEW st, NEW ld, d = db, st = status, ld = loaded,
           faults' \cap {"own invitation", "orphan row"} = {} /\ Agreed(w, d, st, ld) => Follows(w, u, d, st, ld)
    PROVE  TablesInv'
<1>1. /\ faults \cap {"own invitation", "orphan row"} = {} => Agreed(w, d, st, ld)
      /\ faults \cap {"own invitation", "orphan row", "stale login"} = {} => Placed(w)
  BY TablesNow
<1>2. faults' \cap {"own invitation", "orphan row"} = {} => Follows(w, u, d, st, ld)
  BY <1>1
<1>3. faults' \cap {"own invitation", "orphan row"} = {} => Agreed(u, d, st, ld)
  BY <1>2 DEF Follows
<1>4. faults' \cap {"own invitation", "orphan row", "stale login"} = {} => Placed(u)
  <2>1. ASSUME faults' \cap {"own invitation", "orphan row", "stale login"} = {} PROVE Placed(u)
    <3>1. faults' \cap {"own invitation", "orphan row"} = {} /\ faults \cap {"own invitation", "orphan row", "stale login"} = {}
      BY <2>1
    <3>2. Placed(w) /\ Follows(w, u, d, st, ld)
      BY <1>1, <1>2, <3>1
    <3> QED BY <3>2 DEF Follows
  <2> QED BY <2>1
<1>5. d = db' /\ st = status' /\ ld = loaded'
  OBVIOUS
<1> QED BY <1>3, <1>4, <1>5, AdvanceTables

\* What the invariant says of the present world.
LEMMA Present ==
    ASSUME GroupsInv, NEW w, w = World
    PROVE  /\ Well(w) /\ w \in Worlds /\ Indexed(w) /\ db \in Tables
           /\ w.grp = grp /\ w.link = link /\ w.invite = invite
BY WorldFields, WellIndexed DEF GroupsInv, Rest, Tables

\* A member has no other slot, and neither has a player in the game who points
\* to a group.
LEMMA SlotOf ==
    ASSUME NEW w \in Worlds, Indexed(w), NEW d, NEW st, NEW ld, Agreed(w, d, st, ld),
           NEW p \in Players, NEW g \in Objects,
           Has(w, g, p) \/ (st[p] \in {"in", "zoning"} /\ w.link[p] = g)
    PROVE  \A h \in Objects : Has(w, h, p) => h = g
<1>1. CASE Has(w, g, p)
  <2>1. PICK H : Chain(H, d, w.queue) /\ Final(w, H[Len(w.queue)])
    BY DEF Agreed, Consistent
  <2>2. H[Len(w.queue)] \in Tables
    <3>1. Len(w.queue) \in Nat
      BY WorldParts
    <3> QED BY <2>1, <3>1 DEF Chain
  <2> QED BY <1>1, <2>1, <2>2, OneSlot
<1>2. CASE st[p] \in {"in", "zoning"} /\ w.link[p] = g
  BY <1>2 DEF Agreed, Linked
<1> QED BY <1>1, <1>2

\* HandleGroupInviteOpcode keeps the agreement.
LEMMA InviteTables ==
    ASSUME GroupsInv, TablesInv, NEW p \in Players, NEW q \in Players, Invite(p, q)
    PROVE  TablesInv'
<1>1. /\ UNCHANGED <<db, status, loaded>> /\ faults' = faults /\ link[q] = None
      /\ status[p] = "in" /\ status[q] = "in"
  BY DEF Invite, NoOther, Request, FindPlayer
<1>2. PICK w, d, st, ld : w = World /\ d = db /\ st = status /\ ld = loaded
  OBVIOUS
<1>3. Well(w) /\ w \in Worlds /\ Indexed(w) /\ w.grp = grp /\ w.link = link
  BY <1>2, Present
<1>4. w.link[q] = None /\ st[p] = "in" /\ st[q] = "in"
  BY <1>1, <1>2, <1>3
<1>5. CASE link[p] # None /\ Becomes(AddInvite(World, link[p], q))
  <2>1. PICK g \in Objects : g = link[p] /\ w.grp[g] # None
    BY <1>2, <1>3, <1>5, LinkFacts
  <2>2. PICK u : u = AddInvite(w, g, q)
    OBVIOUS
  <2>3. u \in Worlds
    <3>1. InviteAdded(w, u, g, q)
      BY <1>3, <2>1, <2>2, AddInviteWell
    <3> QED BY <3>1 DEF InviteAdded, Well
  <2>4. Agreed(w, d, st, ld) => Follows(w, u, d, st, ld)
    BY <1>3, <1>4, <2>1, <2>2, AddInviteFollows
  <2>5. Becomes(u)
    BY <1>2, <1>5, <2>1, <2>2
  <2> QED BY <1>1, <1>2, <2>3, <2>4, <2>5, FollowTables
<1>6. CASE /\ link[p] = None
           /\ \E g \in Objects :
                /\ grp[g] = None
                /\ Becomes(AddInvite(AddInvite([World EXCEPT !.grp[g] = NewGroup(p)], g, p), g, q))
  <2>1. PICK g \in Objects :
                /\ grp[g] = None
                /\ Becomes(AddInvite(AddInvite([World EXCEPT !.grp[g] = NewGroup(p)], g, p), g, q))
    BY <1>6
  <2>2. PICK a : a = [w EXCEPT !.grp[g] = NewGroup(p)]
    OBVIOUS
  <2>3. w.grp[g] = None /\ w.link[p] = None
    BY <1>3, <1>6, <2>1
  <2>4. Well(a) /\ a.grp[g] = NewGroup(p)
    <3>1. GroupBegun(w, a, g, p)
      BY <1>3, <2>2, <2>3, NewGroupWell
    <3> QED BY <3>1 DEF GroupBegun
  <2>5. a.grp[g] # None /\ a \in Worlds /\ Indexed(a)
    BY <2>4, NewGroupType, Nulls, WellIndexed
  <2>6. PICK b : b = AddInvite(a, g, p)
    OBVIOUS
  <2>7. Well(b) /\ b.grp[g] # None
    <3>1. InviteAdded(a, b, g, p)
      BY <2>4, <2>5, <2>6, AddInviteWell
    <3> QED BY <3>1 DEF InviteAdded
  <2>8. b \in Worlds /\ Indexed(b)
    BY <2>7, WellIndexed
  <2>9. b.link = a.link
    <3>1. /\ b \in Worlds
          /\ b.grp = [a.grp EXCEPT ![g] = [a.grp[g] EXCEPT !.invitees = @ \cup {p}]]
          /\ b.invite = [a.invite EXCEPT ![p] = g]
          /\ b.link = a.link /\ b.orig = a.orig /\ b.store = a.store /\ b.next = a.next /\ b.queue = a.queue
      BY <2>5, <2>6, AddInviteParts
    <3> QED BY <3>1
  <2>10. PICK u : u = AddInvite(b, g, q)
    OBVIOUS
  <2>11. u \in Worlds
    <3>1. InviteAdded(b, u, g, q)
      BY <2>7, <2>10, AddInviteWell
    <3> QED BY <3>1 DEF InviteAdded, Well
  <2>12. ASSUME Agreed(w, d, st, ld) PROVE Follows(w, u, d, st, ld)
    <3>1. Follows(w, a, d, st, ld) /\ a.link = w.link
      BY <1>3, <2>2, <2>3, <2>12, NewGroupFollows
    <3>2. Agreed(a, d, st, ld)
      BY <3>1 DEF Follows
    <3>3. a.link[p] = None /\ b.link[q] = None
      BY <1>4, <2>3, <2>9, <3>1
    <3>4. Follows(a, b, d, st, ld)
      BY <1>4, <2>5, <2>6, <3>2, <3>3, AddInviteFollows
    <3>5. Agreed(b, d, st, ld)
      BY <3>4 DEF Follows
    <3>6. Follows(b, u, d, st, ld)
      BY <1>4, <2>7, <2>8, <2>10, <3>3, <3>5, AddInviteFollows
    <3>7. Follows(w, b, d, st, ld)
      BY <3>1, <3>4, FollowsTwice
    <3> QED BY <3>6, <3>7, FollowsTwice
  <2>13. Becomes(u)
    BY <1>2, <2>1, <2>2, <2>6, <2>10
  <2> QED BY <1>1, <1>2, <2>11, <2>12, <2>13, FollowTables
<1> QED BY <1>5, <1>6 DEF Invite, Address

\* A step that changes the invitation of a player in the world who has no group
\* keeps the agreement, and so does one that takes his invitation.
LEMMA RepointTables ==
    ASSUME GroupsInv, TablesInv, NEW p \in Players, Request(p), NoOther, NEW g \in {None} \cup Objects,
           invite' = [invite EXCEPT ![p] = g], UNCHANGED <<grp, link, orig, store, next, queue>>,
           g = None \/ link[p] = None, faults \subseteq faults'
    PROVE  TablesInv'
<1>1. PICK w, d, st, ld : w = World /\ d = db /\ st = status /\ ld = loaded
  OBVIOUS
<1>2. /\ w \in Worlds /\ Indexed(w) /\ w.grp = grp /\ w.link = link /\ w.orig = orig /\ w.invite = invite
      /\ w.store = store /\ w.next = next /\ w.queue = queue
  BY <1>1, Present, WorldFields
<1>3. invite' \in Pointers
  BY <1>2, WorldParts DEF Pointers
<1>4. PICK u : u = [grp |-> grp, link |-> link, orig |-> orig, invite |-> invite',
                    store |-> store, next |-> next, queue |-> queue]
  OBVIOUS
<1>5. u \in Worlds
  BY <1>2, <1>3, <1>4, WorldParts DEF Worlds
<1>6. /\ u.grp = w.grp /\ u.link = w.link /\ u.orig = w.orig /\ u.invite = invite' /\ u.store = w.store
      /\ u.next = w.next /\ u.queue = w.queue
  BY <1>2, <1>4
<1>7. Becomes(u)
  BY <1>2, <1>6 DEF Becomes
<1>8. SameGroups(w, u)
  BY <1>6 DEF SameGroups
<1>9. st[p] = "in" /\ UNCHANGED <<db, status, loaded>>
  BY <1>1 DEF Request, NoOther
<1>10. \A q \in Players : u.invite[q] # None =>
          (w.link[q] = None /\ st[q] \in {"in", "zoning"}) \/ u.invite[q] = w.invite[q]
  BY <1>2, <1>6, <1>9, WorldParts DEF Pointers
<1>11. Agreed(w, d, st, ld) => Follows(w, u, d, st, ld)
  BY <1>2, <1>5, <1>6, <1>8, <1>10, SameFollows
<1> QED BY <1>1, <1>5, <1>7, <1>9, <1>11, FollowTables

\* HandleGroupInviteOpcode with the player's own name keeps the agreement.
LEMMA InviteSelfTables ==
    ASSUME GroupsInv, TablesInv, NEW p \in Players, InviteSelf(p)
    PROVE  TablesInv'
<1>1. /\ Request(p) /\ NoOther /\ link[p] = None /\ invite[p] = None
      /\ faults' = faults \cup {"self invitation"} /\ UNCHANGED <<grp, link, orig, store, next, queue>>
      /\ \E g \in Objects : invite' = [invite EXCEPT ![p] = g]
  BY SelfInvited
<1>2. PICK g \in Objects : invite' = [invite EXCEPT ![p] = g]
  BY <1>1
<1> QED BY <1>1, <1>2, RepointTables

\* So does an answer with a pointer to freed memory.
LEMMA AcceptFreedTables ==
    ASSUME GroupsInv, TablesInv, NEW p \in Players, AcceptFreed(p)
    PROVE  TablesInv'
<1>1. /\ Request(p) /\ NoOther /\ Dangling(p) /\ faults' = faults
      /\ UNCHANGED <<grp, link, orig, store, next, queue>> /\ invite' = [invite EXCEPT ![p] = None]
  BY FreedCleared
<1> QED BY <1>1, RepointTables

\* HandleGroupInviteResponseOpcode, declined, keeps the agreement.
LEMMA DeclineTables ==
    ASSUME GroupsInv, TablesInv, NEW p \in Players, Decline(p)
    PROVE  TablesInv'
<1>1. /\ UNCHANGED <<db, status, loaded>> /\ faults' = faults /\ Becomes(UninviteFromGroup(World, p))
      /\ grp[invite[p]] # None
  BY DEF Decline, NoOther, Dangling
<1>2. PICK w, d, st, ld : w = World /\ d = db /\ st = status /\ ld = loaded
  OBVIOUS
<1>3. Well(w) /\ d \in Tables /\ w.grp[w.invite[p]] # None
  BY <1>1, <1>2, Present
<1>4. PICK u : u = UninviteFromGroup(w, p)
  OBVIOUS
<1>5. u \in Worlds
  BY <1>3, <1>4, UninviteWell DEF Uninvites, Well
<1>6. Agreed(w, d, st, ld) => Follows(w, u, d, st, ld)
  BY <1>3, <1>4, UninviteFollows
<1> QED BY <1>1, <1>2, <1>4, <1>5, <1>6, FollowTables

\* HandleGroupUninviteGuidOpcode keeps the agreement.
LEMMA UninviteTables ==
    ASSUME GroupsInv, TablesInv, NEW p \in Players, NEW q \in Players, Uninvite(p, q)
    PROVE  TablesInv'
<1>1. UNCHANGED <<db, status, loaded>> /\ faults' = faults /\ link[p] # None
  BY DEF Uninvite, NoOther
<1>2. PICK w, d, st, ld : w = World /\ d = db /\ st = status /\ ld = loaded
  OBVIOUS
<1>3. Well(w) /\ w \in Worlds /\ Indexed(w) /\ d \in Tables /\ w.grp = grp
  BY <1>2, Present
<1>4. PICK g \in Objects : g = link[p] /\ w.grp[g] # None /\ w.grp[g].id # None
  BY <1>1, <1>2, <1>3, LinkFacts
<1>5. CASE q \in Members(World, g) /\ Becomes(RemoveMember(World, g, q, None))
  <2>1. PICK u : u = RemoveMember(w, g, q, None)
    OBVIOUS
  <2>2. Departs(w, u, g, q, None)
    BY <1>3, <1>4, <2>1, RemoveMemberWell
  <2>3. u \in Worlds
    BY <2>2 DEF Departs, Well
  <2>4. Has(w, g, q)
    BY <1>2, <1>4, <1>5 DEF Has, Members
  <2>5. ASSUME Agreed(w, d, st, ld) PROVE Follows(w, u, d, st, ld)
    <3>1. \A h \in Objects : Has(w, h, q) => h = g
      BY <1>3, <2>4, <2>5, SlotOf
    <3> QED BY <1>3, <1>4, <2>1, <2>5, <3>1, RemoveMemberFollows
  <2>6. Becomes(u)
    BY <1>2, <1>5, <2>1
  <2> QED BY <1>1, <1>2, <2>3, <2>5, <2>6, FollowTables
<1>6. CASE ~Dangling(q) /\ Becomes(UninviteFromGroup(World, q))
  <2>1. PICK u : u = UninviteFromGroup(w, q)
    OBVIOUS
  <2>5. w.invite[q] # None => w.grp[w.invite[q]] # None
    BY <1>2, <1>6, Present DEF Dangling
  <2>2. u \in Worlds
    BY <1>3, <2>1, <2>5, UninviteWell DEF Uninvites, Well
  <2>3. Agreed(w, d, st, ld) => Follows(w, u, d, st, ld)
    BY <1>3, <2>1, <2>5, UninviteFollows
  <2>4. Becomes(u)
    BY <1>2, <1>6, <2>1
  <2> QED BY <1>1, <1>2, <2>2, <2>3, <2>4, FollowTables
<1> QED BY <1>4, <1>5, <1>6 DEF Uninvite

\* HandleGroupSetLeaderOpcode keeps the agreement.
LEMMA SetLeaderTables ==
    ASSUME GroupsInv, TablesInv, NEW p \in Players, NEW q \in Players, SetLeader(p, q)
    PROVE  TablesInv'
<1>1. /\ UNCHANGED <<db, status, loaded>> /\ faults' = faults /\ link[p] # None
      /\ Becomes(ChangeLeader(World, link[p], q))
  BY DEF SetLeader, NoOther
<1>2. PICK w, d, st, ld : w = World /\ d = db /\ st = status /\ ld = loaded
  OBVIOUS
<1>3. Well(w) /\ w \in Worlds /\ Indexed(w) /\ d \in Tables /\ w.grp = grp
  BY <1>2, Present
<1>4. PICK g \in Objects : g = link[p] /\ w.grp[g] # None /\ w.grp[g].id # None
  BY <1>1, <1>2, <1>3, LinkFacts
<1>5. PICK u : u = ChangeLeader(w, g, q)
  OBVIOUS
<1>6. LedBy(w, u, g, q)
  BY <1>3, <1>4, <1>5, ChangeLeaderParts
<1>7. u \in Worlds
  BY <1>6 DEF LedBy
<1>8. Agreed(w, d, st, ld) => Follows(w, u, d, st, ld)
  BY <1>3, <1>4, <1>6, LedByFollows
<1>9. Becomes(u)
  BY <1>1, <1>2, <1>4, <1>5
<1> QED BY <1>1, <1>2, <1>7, <1>8, <1>9, FollowTables

\* HandleGroupDisbandOpcode keeps the agreement.
LEMMA LeaveTables ==
    ASSUME GroupsInv, TablesInv, NEW p \in Players, Leave(p)
    PROVE  TablesInv'
<1>1. UNCHANGED <<db, status, loaded>> /\ faults \subseteq faults' /\ link[p] # None /\ status[p] = "in"
  BY DEF Leave, NoOther, Request
<1>2. PICK w, d, st, ld : w = World /\ d = db /\ st = status /\ ld = loaded
  OBVIOUS
<1>3. Well(w) /\ w \in Worlds /\ Indexed(w) /\ d \in Tables /\ w.grp = grp /\ w.link = link
  BY <1>2, Present
<1>4. PICK g \in Objects : g = link[p] /\ w.grp[g] # None /\ w.grp[g].id # None
  BY <1>1, <1>2, <1>3, LinkFacts
<1>5. PICK new \in Heirs(w, g, p) : Becomes(RemoveMember(w, g, p, new))
  BY <1>2, <1>4 DEF Leave
<1>6. new \in {None} \cup Players
  BY <1>5, HeirFacts
<1>7. PICK u : u = RemoveMember(w, g, p, new)
  OBVIOUS
<1>8. Departs(w, u, g, p, new)
  BY <1>3, <1>4, <1>6, <1>7, RemoveMemberWell
<1>9. u \in Worlds
  BY <1>8 DEF Departs, Well
<1>10. ASSUME Agreed(w, d, st, ld) PROVE Follows(w, u, d, st, ld)
  <2>1. st[p] \in {"in", "zoning"} /\ w.link[p] = g
    BY <1>1, <1>2, <1>3, <1>4
  <2>2. \A h \in Objects : Has(w, h, p) => h = g
    BY <1>3, <1>10, <2>1, SlotOf
  <2> QED BY <1>3, <1>4, <1>6, <1>7, <1>10, <2>2, RemoveMemberFollows
<1>11. Becomes(u)
  BY <1>5, <1>7
<1> QED BY <1>1, <1>2, <1>9, <1>10, <1>11, FollowTables

\* A group that is converted keeps its places.
LEMMA ConvertFits ==
    ASSUME NEW r, Fitting(r), NEW y, y.slots = r.slots, NEW b \in BOOLEAN, y.raid = b,
           b => y.counts = InitCounts(r.slots),
           ~b => Cardinality({p \in Players : r.slots[p] # None}) <= GroupSize
    PROVE  Fitting(y)
BY DEF Fitting

\* HandleGroupRaidConvertOpcode keeps the agreement: a raid that becomes a
\* party is no larger than one.
LEMMA RaidConvertTables ==
    ASSUME GroupsInv, TablesInv, NEW p \in Players, NEW b \in BOOLEAN, RaidConvert(p, b)
    PROVE  TablesInv'
<1>1. UNCHANGED <<db, status, loaded>> /\ faults' = faults /\ link[p] # None
  BY DEF RaidConvert, NoOther
<1>2. PICK w, d, st, ld : w = World /\ d = db /\ st = status /\ ld = loaded
  OBVIOUS
<1>3. Well(w) /\ w \in Worlds /\ Indexed(w) /\ d \in Tables /\ w.grp = grp
  BY <1>2, Present
<1>4. PICK g \in Objects : g = link[p] /\ w.grp[g] # None /\ w.grp[g].id # None
  BY <1>1, <1>2, <1>3, LinkFacts
<1>5. w.grp[g] \in GroupRecs
  BY <1>3, <1>4, GroupAt
<1>6. PICK c : c = IF b THEN InitCounts(grp[g].slots) ELSE NoCounts
  OBVIOUS
<1>7. c \in [Subs -> Int]
  <2>1. grp[g].slots \in [Players -> {None} \cup Subs]
    BY <1>3, <1>5 DEF GroupRecs
  <2>2. c \in [Subs -> Nat]
    BY <1>6, <2>1, CountsType
  <2> QED BY <2>2
<1>8. PICK r : r = [w.grp[g] EXCEPT !.raid = b, !.counts = c]
  OBVIOUS
<1>9. /\ r \in GroupRecs /\ r.leader = w.grp[g].leader /\ r.slots = w.grp[g].slots
      /\ r.raid = b /\ r.counts = c /\ r.id = w.grp[g].id
  BY <1>5, <1>7, <1>8 DEF GroupRecs
<1>10. PICK v : v = [w EXCEPT !.grp[g].raid = b, !.grp[g].counts = c]
  OBVIOUS
<1>11. v = [grp |-> [w.grp EXCEPT ![g] = r], link |-> w.link, orig |-> w.orig,
            invite |-> w.invite, store |-> w.store, next |-> w.next, queue |-> w.queue]
  BY <1>3, <1>8, <1>10 DEF Worlds, Groupings
<1>12. v \in Worlds
  BY <1>3, <1>9, <1>11, WorldParts DEF Worlds, Groupings
<1>13. PICK i \in Ids : i = w.grp[g].id
  BY <1>4, <1>5 DEF GroupRecs
<1>14. PICK o \in Statements : o = Op("type", i, None, b)
  BY DEF Op, Statements
<1>15. PICK u : u = Queue(v, o)
  OBVIOUS
<1>16. /\ u \in Worlds
       /\ u.queue = Append(v.queue, o)
       /\ u.grp = v.grp /\ u.link = v.link /\ u.orig = v.orig /\ u.invite = v.invite
       /\ u.store = v.store /\ u.next = v.next
  BY <1>12, <1>15, QueueParts
<1>17. /\ u.grp = [w.grp EXCEPT ![g] = r] /\ u.link = w.link /\ u.orig = w.orig /\ u.invite = w.invite
       /\ u.store = w.store /\ u.queue = Append(w.queue, o)
  BY <1>11, <1>16
<1>18. u.grp[g] = r /\ \A h \in Objects \ {g} : u.grp[h] = w.grp[h]
  BY <1>3, <1>17, WorldParts DEF Groupings
<1>19. Changed(w, u, g, r)
  BY <1>9, <1>16, <1>17, <1>18 DEF Changed
<1>20. ~b => Cardinality({q \in Players : w.grp[g].slots[q] # None}) <= GroupSize
  BY <1>2, <1>4 DEF RaidConvert, Members
<1>21. ASSUME Agreed(w, d, st, ld) PROVE Follows(w, u, d, st, ld)
  <2>1. Fitting(w.grp[g])
    BY <1>4, <1>21 DEF Agreed, Sized
  <2>2. b => r.counts = InitCounts(w.grp[g].slots)
    BY <1>3, <1>6, <1>9
  <2>3. Fitting(r)
    BY <1>9, <1>20, <2>1, <2>2, ConvertFits
  <2>4. o = Op("type", i, None, r.raid) /\ r.leader = w.grp[g].leader
    BY <1>9, <1>14
  <2> QED BY <1>3, <1>4, <1>9, <1>13, <1>17, <1>19, <1>21, <2>3, <2>4, RowFollows
<1>22. Becomes(u)
  BY <1>2, <1>3, <1>4, <1>6, <1>10, <1>13, <1>14, <1>15 DEF RaidConvert
<1> QED BY <1>1, <1>2, <1>16, <1>21, <1>22, FollowTables

\* HandleGroupInviteResponseOpcode, accepted, keeps the agreement: nobody who
\* holds an invitation has a group.
LEMMA AcceptTables ==
    ASSUME GroupsInv, TablesInv, NEW p \in Players, Accept(p)
    PROVE  TablesInv'
<1>1. UNCHANGED <<db, status, loaded>> /\ invite[p] # None /\ grp[invite[p]] # None /\ status[p] = "in"
  BY DEF Accept, NoOther, Request, Dangling
<1>2. PICK a, d, st, ld : a = World /\ d = db /\ st = status /\ ld = loaded
  OBVIOUS
<1>3. Well(a) /\ a \in Worlds /\ Indexed(a) /\ d \in Tables /\ a.grp = grp /\ a.invite = invite
  BY <1>2, Present
<1>4. PICK g \in Objects : g = invite[p] /\ a.grp[g] # None
  BY <1>1, <1>2, <1>3, InviteFacts
<1>5. PICK l : l = grp[g].leader
  OBVIOUS
<1>6. l \in Players
  BY <1>3, <1>4, <1>5, GroupAt DEF GroupRecs
<1>7. PICK w : w = RemoveInvite(a, g, p)
  OBVIOUS
<1>8. PICK u : u = CASE l = p \/ IsFull(w, g) -> w
                     [] l # p /\ ~IsFull(w, g) /\ IsCreated(w, g) -> AddMember(w, g, p)
                     [] l # p /\ ~IsCreated(w, g) /\ ~FindPlayer(l) -> DeleteGroup(RemoveAllInvites(w, g), g)
                     [] l # p /\ ~IsCreated(w, g) /\ FindPlayer(l) ->
                           AddMember(Create(RemoveInvite(w, g, l), g), g, p)
  OBVIOUS
<1>9. Becomes(u) /\ faults' = IF l = p THEN faults \cup {"own invitation"} ELSE faults
  BY <1>2, <1>4, <1>5, <1>7, <1>8 DEF Accept
<1>10. /\ Well(w) /\ w.grp[g] # None /\ w.grp[g].leader = l
       /\ w.grp[g].invitees = a.grp[g].invitees \ {p} /\ w.grp[g].id = a.grp[g].id
       /\ w.link = a.link
  <2>1. InviteRemoved(a, w, g, p)
    BY <1>3, <1>4, <1>7, RemoveInviteWell
  <2> QED BY <1>3, <1>5, <2>1 DEF InviteRemoved
<1>11. w \in Worlds /\ Indexed(w) /\ Formed(w)
  BY <1>10, WellIndexed DEF Well
\* What is left to show in every case.
<1>12. ASSUME u \in Worlds,
              l # p /\ Started(a) /\ Listed(a, st) /\ Agreed(a, d, st, ld) => Follows(a, u, d, st, ld)
       PROVE  TablesInv'
  <2>1. faults' \cap {"own invitation", "orphan row"} = {} => l # p /\ faults \cap {"own invitation", "orphan row"} = {}
    BY <1>9
  <2>2. faults' \cap {"own invitation", "orphan row"} = {} => Started(a) /\ Listed(a, st)
    BY <1>2, <2>1 DEF GroupsInv, Invited
  <2>3. faults \subseteq faults'
    BY <1>9
  <2> QED BY <1>1, <1>2, <1>9, <1>12, <2>1, <2>2, <2>3, FollowTables
<1>13. ASSUME Agreed(a, d, st, ld)
       PROVE  Follows(a, w, d, st, ld) /\ Agreed(w, d, st, ld) /\ w.link[p] = None
  <2>1. Follows(a, w, d, st, ld)
    BY <1>3, <1>4, <1>7, <1>13, RemoveInviteFollows
  <2>2. a.invite[p] # None
    BY <1>1, <1>3
  <2>3. a.link[p] = None
    BY <1>13, <2>2 DEF Agreed, Linked
  <2> QED BY <1>10, <2>1, <2>3 DEF Follows
<1>14. CASE l = p
  <2>1. u = w
    BY <1>8, <1>14
  <2> QED BY <1>11, <1>12, <1>14, <2>1
<1>15. CASE l # p /\ IsFull(w, g)
  <2>1. IsCreated(w, g)
    BY <1>10, <1>15, EmptyNotFull
  <2>2. u = w
    BY <1>8, <1>15, <2>1
  <2> QED BY <1>11, <1>12, <1>13, <2>2
<1>16. CASE l # p /\ ~IsFull(w, g) /\ IsCreated(w, g)
  <2>1. w.grp[g].id # None
    BY <1>10, <1>11, <1>16 DEF Formed
  <2>2. u = AddMember(w, g, p)
    BY <1>8, <1>16
  <2>3. u \in Worlds
    <3>1. CASE FreeSub(w, g) \notin Subs
      BY <1>10, <1>11, <2>1, <2>2, <3>1, AddMemberJoins
    <3>2. CASE FreeSub(w, g) \in Subs
      <4>1. PICK s \in Subs : s = FreeSub(w, g)
        BY <3>2
      <4>2. Joined(w, u, g, p, s)
        BY <1>10, <1>11, <2>1, <2>2, <3>2, <4>1, AddMemberJoins
      <4> QED BY <4>2 DEF Joined
    <3> QED BY <3>1, <3>2
  <2>4. ~w.grp[g].raid => Cardinality(Members(w, g)) < GroupSize
    <3>1. PICK S : S = Members(w, g)
      OBVIOUS
    <3>2. S \subseteq Players
      BY <3>1 DEF Members
    <3>3. Cardinality(S) \in Nat /\ GroupSize \in Nat
      BY <3>2, PartSize, GroupsAssumption
    <3>4. ~w.grp[g].raid => ~(Cardinality(S) >= GroupSize)
      BY <1>16, <3>1 DEF IsFull
    <3> QED BY <3>1, <3>3, <3>4
  <2>5. st[p] = "in"
    BY <1>1, <1>2
  <2>6. ASSUME Agreed(a, d, st, ld) PROVE Follows(a, u, d, st, ld)
    <3>1. Follows(w, u, d, st, ld)
      BY <1>3, <1>10, <1>11, <1>13, <2>1, <2>2, <2>4, <2>5, <2>6, AddMemberFollows
    <3> QED BY <1>13, <2>6, <3>1, FollowsTwice
  <2> QED BY <1>12, <2>3, <2>6
<1>17. CASE l # p /\ ~IsCreated(w, g) /\ ~FindPlayer(l)
  <2>1. ~IsFull(w, g)
    BY <1>10, <1>17, EmptyNotFull
  <2>2. w.grp[g].id = None
    BY <1>10, <1>11, <1>17 DEF Formed
  <2>3. u = DeleteGroup(RemoveAllInvites(w, g), g)
    BY <1>8, <1>17, <2>1
  <2>4. Gone(w, u, g)
    BY <1>10, <1>11, <2>2, <2>3, DeleteGone
  <2>5. Well(u)
    BY <1>10, <2>4, GoneWell
  <2>6. u \in Worlds /\ Indexed(u)
    BY <2>5, WellIndexed
  <2>7. ASSUME Agreed(a, d, st, ld) PROVE Follows(a, u, d, st, ld)
    <3>1. Follows(w, u, d, st, ld)
      BY <1>3, <1>10, <1>11, <1>13, <2>4, <2>6, <2>7, GoneFollows
    <3> QED BY <1>13, <2>7, <3>1, FollowsTwice
  <2> QED BY <1>12, <2>6, <2>7
<1>18. CASE l # p /\ ~IsCreated(w, g) /\ FindPlayer(l)
  <2>1. ~IsFull(w, g)
    BY <1>10, <1>18, EmptyNotFull
  <2>2. w.grp[g].id = None
    BY <1>10, <1>11, <1>18 DEF Formed
  <2>3. PICK b : b = RemoveInvite(w, g, l)
    OBVIOUS
  <2>4. Well(b) /\ b.grp[g] # None /\ b.grp[g].leader = l /\ b.grp[g].id = None /\ b.link = w.link
    <3>1. InviteRemoved(w, b, g, l)
      BY <1>6, <1>10, <2>3, RemoveInviteWell
    <3> QED BY <1>10, <2>2, <3>1 DEF InviteRemoved
  <2>5. PICK c : c = Create(b, g)
    OBVIOUS
  <2>6. Well(c) /\ c.grp[g] # None /\ c.grp[g].id # None
    <3>1. Created(b, c, g)
      BY <2>4, <2>5, CreateWell
    <3> QED BY <3>1 DEF Created
  <2>7. c \in Worlds /\ Indexed(c)
    BY <2>6, WellIndexed
  <2>8. u = AddMember(c, g, p)
    BY <1>8, <1>18, <2>1, <2>3, <2>5
  <2>9. u \in Worlds
    <3>1. CASE FreeSub(c, g) \notin Subs
      BY <2>6, <2>7, <2>8, <3>1, AddMemberJoins
    <3>2. CASE FreeSub(c, g) \in Subs
      <4>1. PICK s \in Subs : s = FreeSub(c, g)
        BY <3>2
      <4>2. Joined(c, u, g, p, s)
        BY <2>6, <2>7, <2>8, <3>2, <4>1, AddMemberJoins
      <4> QED BY <4>2 DEF Joined
    <3> QED BY <3>1, <3>2
  <2>10. st[p] = "in" /\ st[l] = "in"
    BY <1>1, <1>2, <1>18 DEF FindPlayer
  <2>11. ASSUME Started(a), Listed(a, st), Agreed(a, d, st, ld) PROVE Follows(a, u, d, st, ld)
    <3>1. Follows(a, w, d, st, ld) /\ Agreed(w, d, st, ld) /\ w.link[p] = None
      BY <1>13, <2>11
    <3>2. Follows(w, b, d, st, ld)
      BY <1>6, <1>10, <1>11, <2>3, <3>1, RemoveInviteFollows
    <3>3. Agreed(b, d, st, ld)
      BY <3>2 DEF Follows
    <3>4. b.link[l] = None /\ b.link[p] = None
      <4>1. l \in a.grp[g].invitees
        BY <1>3, <1>4, <1>5, <1>10, <2>2, <2>11 DEF Started
      <4>2. a.invite[l] # None
        BY <1>4, <2>11, <4>1, Nulls DEF Listed
      <4>3. a.link[l] = None
        BY <1>6, <2>11, <4>2 DEF Agreed, Linked
      <4> QED BY <1>10, <2>4, <3>1, <4>3
    <3>5. Begins(b, c, g) /\ Follows(b, c, d, st, ld)
      BY <1>3, <1>6, <2>4, <2>5, <2>10, <3>3, <3>4, CreateFollows
    <3>6. Agreed(c, d, st, ld)
      BY <3>5 DEF Follows
    <3>7. c.link[p] = None
      <4>1. b \in Worlds
        BY <2>4 DEF Well
      <4>2. c.link = [b.link EXCEPT ![l] = g]
        BY <2>4, <3>5 DEF Begins
      <4> QED BY <1>18, <3>4, <4>1, <4>2, WorldParts DEF Pointers
    <3>8. Cardinality(Members(c, g)) < GroupSize
      <4>1. Cardinality(Members(c, g)) = 1
        BY <3>5 DEF Begins
      <4>2. GroupSize \in Nat \ {0, 1}
        BY GroupsAssumption
      <4> QED BY <4>1, <4>2
    <3>9. Follows(c, u, d, st, ld)
      BY <1>3, <2>6, <2>7, <2>8, <2>10, <3>6, <3>7, <3>8, AddMemberFollows
    <3>10. Follows(a, b, d, st, ld)
      BY <3>1, <3>2, FollowsTwice
    <3>11. Follows(a, c, d, st, ld)
      BY <3>5, <3>10, FollowsTwice
    <3> QED BY <3>9, <3>11, FollowsTwice
  <2> QED BY <1>12, <2>9, <2>11
<1> QED BY <1>14, <1>15, <1>16, <1>17, <1>18

\* A step that leaves the groups and the queue, and the players who wait for an
\* answer, keeps the history.
LEMMA StatusKept ==
    ASSUME NEW w, NEW u, u.grp = w.grp, u.store = w.store, u.queue = w.queue,
           NEW d, NEW st, NEW ld, Consistent(w, d, st, ld), Once(w.queue, st, ld), Sized(w),
           NEW stp, NEW ldp,
           \A q \in Players : stp[q] = "loading" => st[q] = "loading" /\ ldp[q] = ld[q],
           \A q \in Players : st[q] = "loading" /\ ld[q] = None => stp[q] = "loading" /\ ldp[q] = None
    PROVE  Consistent(u, d, stp, ldp) /\ Once(u.queue, stp, ldp) /\ Sized(u)
<1>1. PICK H : /\ Chain(H, d, w.queue)
               /\ Final(w, H[Len(w.queue)])
               /\ \A k \in 0 .. Len(w.queue) : RowsFit(H[k])
               /\ Awaited(w, H, st, ld)
  BY DEF Consistent
<1>2. Chain(H, d, u.queue)
  BY <1>1
<1>3. Final(u, H[Len(u.queue)])
  BY <1>1 DEF Final, Has
<1>4. Awaited(u, H, stp, ldp)
  BY <1>1 DEF Awaited, Has
<1>5. Once(u.queue, stp, ldp)
  BY DEF Once
<1>6. Sized(u)
  BY DEF Sized
<1>7. \A k \in 0 .. Len(u.queue) : RowsFit(H[k])
  BY <1>1
<1> QED BY <1>2, <1>3, <1>4, <1>5, <1>6, <1>7 DEF Consistent

\* The parts of the world without the links of a player.
CutParts(w, u, p) ==
    /\ u.grp = w.grp /\ u.store = w.store /\ u.queue = w.queue /\ u.invite = w.invite
    /\ u.link[p] = None /\ u.orig[p] = None
    /\ \A q \in Players \ {p} : u.link[q] = w.link[q] /\ u.orig[q] = w.orig[q]

\* A player whose object is deleted at logout leaves exactly those parts (~Player).
LEMMA CutHasParts ==
    ASSUME NEW w \in Worlds, NEW p \in Players, NEW u, u = [w EXCEPT !.link[p] = None, !.orig[p] = None]
    PROVE  CutParts(w, u, p)
<1>1. PICK a, b : a = [w.link EXCEPT ![p] = None] /\ b = [w.orig EXCEPT ![p] = None]
  OBVIOUS
<1>2. u = [grp |-> w.grp, link |-> a, orig |-> b, invite |-> w.invite,
           store |-> w.store, next |-> w.next, queue |-> w.queue]
  BY <1>1 DEF Worlds
<1>3. /\ u.grp = w.grp /\ u.store = w.store /\ u.queue = w.queue /\ u.invite = w.invite
      /\ u.link = a /\ u.orig = b
  <2>1. PICK y : y = [grp |-> w.grp, link |-> a, orig |-> b, invite |-> w.invite,
                      store |-> w.store, next |-> w.next, queue |-> w.queue]
    OBVIOUS
  <2>2. /\ y.grp = w.grp /\ y.store = w.store /\ y.queue = w.queue /\ y.invite = w.invite
        /\ y.link = a /\ y.orig = b
    BY <2>1
  <2> QED BY <1>2, <2>1, <2>2
<1>4. /\ u.link[p] = None /\ u.orig[p] = None
      /\ \A q \in Players \ {p} : u.link[q] = w.link[q] /\ u.orig[q] = w.orig[q]
  BY <1>1, <1>3, WorldParts DEF Pointers
<1> QED BY <1>3, <1>4 DEF CutParts

\* A player who leaves the game takes his own links with him.
LEMMA CutFollows ==
    ASSUME NEW w, NEW p \in Players, w.invite[p] = None, NEW u, CutParts(w, u, p),
           NEW d, NEW st, NEW ld, Agreed(w, d, st, ld),
           st[p] \in {"in", "zoning"}, NEW stp, stp[p] = "off", \A q \in Players \ {p} : stp[q] = st[q]
    PROVE  Agreed(u, d, stp, ld) /\ (Placed(w) => Placed(u))
<1>1. Consistent(w, d, st, ld) /\ Once(w.queue, st, ld) /\ Linked(w, st) /\ Sized(w)
  BY DEF Agreed
<1>2. /\ u.grp = w.grp /\ u.store = w.store /\ u.queue = w.queue /\ u.invite = w.invite
      /\ u.link[p] = None /\ u.orig[p] = None
      /\ \A q \in Players \ {p} : u.link[q] = w.link[q] /\ u.orig[q] = w.orig[q]
  BY DEF CutParts
<1>3. st[p] # "loading" /\ stp[p] # "loading" /\ stp[p] \notin {"in", "zoning"}
  OBVIOUS
<1>4. Consistent(u, d, stp, ld) /\ Once(u.queue, stp, ld) /\ Sized(u)
  <2>1. \A q \in Players : stp[q] = "loading" => st[q] = "loading" /\ ld[q] = ld[q]
    BY <1>3
  <2>2. \A q \in Players : st[q] = "loading" /\ ld[q] = None => stp[q] = "loading" /\ ld[q] = None
    BY <1>3
  <2> QED BY <1>1, <1>2, <2>1, <2>2, StatusKept
<1>5. Linked(u, stp)
  <2> SUFFICES ASSUME NEW q \in Players
               PROVE  /\ u.orig[q] = None
                      /\ u.invite[q] # None => u.link[q] = None /\ stp[q] \in {"in", "zoning"}
                      /\ stp[q] \in {"in", "zoning"} => \A h \in Objects : Has(u, h, q) => u.link[q] = h
    BY DEF Linked
  <2>1. CASE q = p
    BY <1>2, <1>3, <2>1
  <2>2. CASE q # p
    BY <1>1, <1>2, <2>2 DEF Linked, Has
  <2> QED BY <2>1, <2>2
<1>6. ASSUME Placed(w) PROVE Placed(u)
  <2>1. \A q \in Players : u.link[q] # None => u.link[q] = w.link[q]
    BY <1>2
  <2>2. \A q \in Players : u.link[q] # None => Has(w, u.link[q], q)
    BY <1>6, <2>1 DEF Placed
  <2> QED BY <1>2, <2>2 DEF Placed, Has
<1> QED BY <1>4, <1>5, <1>6 DEF Agreed

\* LogoutPlayer keeps the agreement.
LEMMA LogoutTables ==
    ASSUME GroupsInv, TablesInv, NEW p \in Players, NEW socket \in BOOLEAN, Logout(p, socket)
    PROVE  TablesInv'
<1>1. /\ UNCHANGED <<db, loaded>> /\ faults \subseteq faults' /\ status[p] \in {"in", "zoning"}
      /\ status' = [status EXCEPT ![p] = "off"] /\ ~Dangling(p)
  BY DEF Logout
<1>2. PICK a, d, st, ld : a = World /\ d = db /\ st = status /\ ld = loaded
  OBVIOUS
<1>3. Well(a) /\ a \in Worlds /\ Indexed(a) /\ d \in Tables /\ (a.invite[p] # None => a.grp[a.invite[p]] # None)
  BY <1>1, <1>2, Present DEF Dangling
<1>4. st \in [Players -> {"off", "loading", "in", "zoning"}] /\ st[p] \in {"in", "zoning"}
  BY <1>1, <1>2 DEF GroupsInv, Rest
<1>5. PICK w : w = UninviteFromGroup(a, p)
  OBVIOUS
<1>6. Well(w) /\ w.invite[p] = None
  BY <1>3, <1>5, UninviteWell DEF Uninvites
<1>7. Agreed(a, d, st, ld) => Follows(a, w, d, st, ld)
  BY <1>3, <1>5, UninviteFollows
\* What is left to show, of the state before the player's own link goes.
<1>8. ASSUME NEW u, Well(u), Becomes([u EXCEPT !.link[p] = None, !.orig[p] = None]), u.invite[p] = None,
             Agreed(a, d, st, ld) => Follows(a, u, d, st, ld)
      PROVE  TablesInv'
  <2>1. PICK x : x = [u EXCEPT !.link[p] = None, !.orig[p] = None]
    OBVIOUS
  <2>2. PICK stp : stp = [st EXCEPT ![p] = "off"]
    OBVIOUS
  <2>3. x \in Worlds /\ u \in Worlds
    BY <1>8, <2>1, CutWell DEF Well
  <2>4. /\ faults \cap {"own invitation", "orphan row"} = {} => Agreed(a, d, st, ld)
        /\ faults \cap {"own invitation", "orphan row", "stale login"} = {} => Placed(a)
    BY <1>2, TablesNow
  <2>5. ASSUME Agreed(a, d, st, ld) PROVE Agreed(x, d, stp, ld) /\ (Placed(a) => Placed(x))
    <3>1. Agreed(u, d, st, ld) /\ (Placed(a) => Placed(u))
      BY <1>8, <2>5 DEF Follows
    <3>2. Agreed(x, d, stp, ld) /\ (Placed(u) => Placed(x))
      <4>1. CutParts(u, x, p)
        BY <2>1, <2>3, CutHasParts
      <4>2. stp[p] = "off" /\ \A q \in Players \ {p} : stp[q] = st[q]
        BY <1>4, <2>2
      <4> QED BY <1>4, <1>8, <3>1, <4>1, <4>2, CutFollows
    <3> QED BY <3>1, <3>2
  <2>6. faults' \cap {"own invitation", "orphan row"} = {} => Agreed(x, d, stp, ld)
    BY <1>1, <2>4, <2>5
  <2>7. faults' \cap {"own invitation", "orphan row", "stale login"} = {} => Placed(x)
    <3>1. ASSUME faults' \cap {"own invitation", "orphan row", "stale login"} = {} PROVE Placed(x)
      <4>1. faults \cap {"own invitation", "orphan row"} = {} /\ faults \cap {"own invitation", "orphan row", "stale login"} = {}
        BY <1>1, <3>1
      <4> QED BY <2>4, <2>5, <4>1
    <3> QED BY <3>1
  <2>8. Becomes(x)
    BY <1>8, <2>1
  <2>9. d = db' /\ stp = status' /\ ld = loaded'
    BY <1>1, <1>2, <2>2
  <2> QED BY <2>3, <2>6, <2>7, <2>8, <2>9, AdvanceTables
<1>9. CASE Becomes([w EXCEPT !.link[p] = None, !.orig[p] = None])
  BY <1>6, <1>7, <1>8, <1>9
<1>10. ASSUME w.link[p] # None,
              NEW new \in Heirs(w, w.link[p], p),
              Becomes([RemoveMember(w, w.link[p], p, new) EXCEPT !.link[p] = None, !.orig[p] = None])
       PROVE  TablesInv'
  <2>1. w \in Worlds /\ Indexed(w) /\ Pointed(w)
    BY <1>6, WellIndexed DEF Well
  <2>2. PICK g \in Objects : g = w.link[p] /\ w.grp[g] # None /\ w.grp[g].id # None
    BY <1>10, <2>1, WorldParts DEF Pointed, Pointers
  <2>3. new \in {None} \cup Players
    BY <1>10, HeirFacts
  <2>4. PICK u : u = RemoveMember(w, g, p, new)
    OBVIOUS
  <2>5. Departs(w, u, g, p, new)
    BY <1>6, <2>2, <2>3, <2>4, RemoveMemberWell
  <2>6. Well(u) /\ u.invite[p] = None
    BY <1>6, <2>5 DEF Departs
  <2>7. ASSUME Agreed(a, d, st, ld) PROVE Follows(a, u, d, st, ld)
    <3>1. Follows(a, w, d, st, ld)
      BY <1>7, <2>7
    <3>2. Agreed(w, d, st, ld)
      BY <3>1 DEF Follows
    <3>3. \A h \in Objects : Has(w, h, p) => h = g
      BY <1>4, <2>1, <2>2, <3>2, SlotOf
    <3>4. Follows(w, u, d, st, ld)
      BY <1>3, <1>6, <2>2, <2>3, <2>4, <3>2, <3>3, RemoveMemberFollows
    <3> QED BY <3>1, <3>4, FollowsTwice
  <2>8. Becomes([u EXCEPT !.link[p] = None, !.orig[p] = None])
    BY <1>10, <2>2, <2>4
  <2> QED BY <1>8, <2>6, <2>7, <2>8
<1> QED BY <1>2, <1>5, <1>9, <1>10 DEF Logout

\* Zone and Arrive keep the agreement.
LEMMA MoveTables ==
    ASSUME GroupsInv, TablesInv, NEW p \in Players, Zone(p) \/ Arrive(p)
    PROVE  TablesInv'
<1>1. PICK x \in {"in", "zoning"} : status' = [status EXCEPT ![p] = x]
  BY DEF Zone, Arrive
<1>2. /\ UNCHANGED <<grp, link, orig, invite, store, next, queue, db, loaded, restarts, faults>>
      /\ status[p] \in {"in", "zoning"}
  BY DEF Zone, Arrive, Request
<1>3. PICK w, d, st, ld : w = World /\ d = db /\ st = status /\ ld = loaded
  OBVIOUS
<1>4. w \in Worlds
  BY <1>3, Present
<1>5. st \in [Players -> {"off", "loading", "in", "zoning"}] /\ st[p] \in {"in", "zoning"}
  BY <1>2, <1>3 DEF GroupsInv, Rest
<1>6. PICK stp : stp = [st EXCEPT ![p] = x]
  OBVIOUS
<1>7. \A q \in Players : stp[q] = IF q = p THEN x ELSE st[q]
  BY <1>5, <1>6
<1>8. \A q \in Players : /\ stp[q] = "loading" <=> st[q] = "loading"
                         /\ stp[q] \in {"in", "zoning"} <=> st[q] \in {"in", "zoning"}
  BY <1>1, <1>5, <1>7
<1>9. ASSUME Agreed(w, d, st, ld) PROVE Agreed(w, d, stp, ld)
  <2>1. Consistent(w, d, st, ld) /\ Once(w.queue, st, ld) /\ Linked(w, st) /\ Sized(w)
    BY <1>9 DEF Agreed
  <2>2. Consistent(w, d, stp, ld) /\ Once(w.queue, stp, ld)
    BY <1>8, <2>1, StatusKept
  <2>3. Linked(w, stp)
    BY <1>8, <2>1 DEF Linked
  <2> QED BY <2>1, <2>2, <2>3 DEF Agreed
<1>10. /\ faults' \cap {"own invitation", "orphan row"} = {} => Agreed(w, d, stp, ld)
       /\ faults' \cap {"own invitation", "orphan row", "stale login"} = {} => Placed(w)
  BY <1>2, <1>3, <1>9, TablesNow
<1>11. Becomes(w)
  BY <1>2, <1>3, WorldFields DEF Becomes
<1>12. d = db' /\ stp = status' /\ ld = loaded'
  BY <1>1, <1>2, <1>3, <1>6
<1> QED BY <1>4, <1>10, <1>11, <1>12, AdvanceTables

\* The query of a login is the last statement, and reads the tables that hold
\* what is in memory.
LEMMA QueryAwaited ==
    ASSUME NEW w \in Worlds, Indexed(w), NEW p \in Players, NEW u \in Worlds, u.queue = Append(w.queue, Load(p)),
           u.grp = w.grp, u.store = w.store, u.link = w.link, u.orig = w.orig, u.invite = w.invite,
           NEW d \in Tables, NEW st, NEW ld, Agreed(w, d, st, ld), st[p] = "off",
           NEW stp, stp[p] = "loading", \A q \in Players \ {p} : stp[q] = st[q],
           NEW ldp, ldp[p] = None, \A q \in Players \ {p} : ldp[q] = ld[q]
    PROVE  Agreed(u, d, stp, ldp)
<1>1. Consistent(w, d, st, ld) /\ Once(w.queue, st, ld) /\ Linked(w, st) /\ Sized(w)
  BY DEF Agreed
<1>2. PICK n \in Nat : n = Len(w.queue)
  BY WorldParts
<1>3. /\ w.queue \in Seq(Statements) /\ Len(u.queue) = n + 1 /\ u.queue[n + 1] = Load(p)
      /\ \A k \in 1 .. n : u.queue[k] = w.queue[k]
  BY <1>2, WorldParts
<1>4. PICK H : /\ Chain(H, d, w.queue)
               /\ Final(w, H[n])
               /\ \A k \in 0 .. n : RowsFit(H[k])
               /\ Awaited(w, H, st, ld)
  BY <1>1, <1>2 DEF Consistent
<1>5. Load(p) \in Statements
  BY DEF Load, Op, Statements
<1>6. PICK G : /\ Chain(G, d, u.queue)
               /\ G[n + 1] = Apply(H[n], Load(p))
               /\ \A k \in 0 .. n : G[k] = H[k]
  BY <1>2, <1>3, <1>4, <1>5, ChainAppend
<1>7. G[n + 1] = H[n]
  BY <1>6, ApplyLoad DEF Load
<1>8. H[n] \in Tables
  BY <1>2, <1>4 DEF Chain
<1>9. Final(u, G[Len(u.queue)])
  BY <1>3, <1>4, <1>7 DEF Final, Has
<1>10. \A k \in 0 .. Len(u.queue) : RowsFit(G[k])
  <2>1. \A k \in 0 .. n + 1 : k = n + 1 \/ k \in 0 .. n
    OBVIOUS
  <2>2. n \in 0 .. n
    OBVIOUS
  <2> QED BY <1>3, <1>4, <1>6, <1>7, <2>1, <2>2
<1>11. \A k \in 1 .. n + 1 : k = n + 1 \/ k \in 1 .. n
  OBVIOUS
<1>12. \A q \in Players : \A k \in 1 .. n : w.queue[k] = Load(q) => q # p
  BY <1>1, <1>2 DEF Once
<1>13. \A q \in Players : Load(p) = Load(q) => q = p
  BY DEF Load, Op
<1>14. Awaited(u, G, stp, ldp)
  <2> SUFFICES ASSUME NEW q \in Players, NEW h \in Objects, stp[q] = "loading", Has(u, h, q)
               PROVE  /\ ldp[q] # None => ldp[q][1] # None /\ ldp[q][1].id = u.grp[h].id
                      /\ \A k \in 1 .. Len(u.queue) : u.queue[k] = Load(q) =>
                            G[k - 1].members[q] # None /\ G[k - 1].members[q].id = u.grp[h].id
    BY DEF Awaited
  <2>1. Has(w, h, q) /\ u.grp[h].id = w.grp[h].id
    BY DEF Has
  <2>2. ldp[q] # None => ldp[q][1] # None /\ ldp[q][1].id = u.grp[h].id
    BY <1>4, <2>1 DEF Awaited
  <2>3. ASSUME NEW k \in 1 .. n + 1, u.queue[k] = Load(q)
        PROVE  G[k - 1].members[q] # None /\ G[k - 1].members[q].id = u.grp[h].id
    <3>1. CASE k = n + 1
      <4>1. q = p
        BY <1>3, <1>13, <2>3, <3>1
      <4>2. H[n].members[q] # None /\ H[n].members[q].id = w.grp[h].id
        BY <1>4, <1>8, <2>1, OneSlot
      <4>3. k - 1 = n /\ n \in 0 .. n
        BY <3>1
      <4> QED BY <1>6, <2>1, <4>2, <4>3
    <3>2. CASE k \in 1 .. n
      <4>1. w.queue[k] = Load(q) /\ q # p
        BY <1>3, <1>12, <2>3, <3>2
      <4>2. H[k - 1].members[q] # None /\ H[k - 1].members[q].id = w.grp[h].id
        BY <1>2, <1>4, <2>1, <3>2, <4>1 DEF Awaited
      <4>3. k - 1 \in 0 .. n
        BY <3>2
      <4> QED BY <1>6, <2>1, <4>2, <4>3
    <3> QED BY <1>11, <3>1, <3>2
  <2> QED BY <1>3, <2>2, <2>3
<1>15. Once(u.queue, stp, ldp)
  <2> SUFFICES ASSUME NEW k \in 1 .. n + 1, NEW q \in Players, u.queue[k] = Load(q)
               PROVE  /\ stp[q] = "loading" /\ ldp[q] = None
                      /\ \A j \in 1 .. n + 1 : u.queue[j] = Load(q) => j = k
    BY <1>3 DEF Once
  <2>1. CASE k = n + 1
    <3>1. q = p
      BY <1>3, <1>13, <2>1
    <3>2. \A j \in 1 .. n : u.queue[j] # Load(q)
      BY <1>3, <1>12, <3>1
    <3> QED BY <1>11, <2>1, <3>1, <3>2
  <2>2. CASE k \in 1 .. n
    <3>1. w.queue[k] = Load(q) /\ q # p
      BY <1>3, <1>12, <2>2
    <3>2. /\ st[q] = "loading" /\ ld[q] = None
          /\ \A j \in 1 .. n : w.queue[j] = Load(q) => j = k
      BY <1>1, <1>2, <2>2, <3>1 DEF Once
    <3>3. u.queue[n + 1] # Load(q)
      BY <1>3, <1>13, <3>1
    <3>4. \A j \in 1 .. n + 1 : u.queue[j] = Load(q) => j = k
      BY <1>3, <1>11, <3>2, <3>3
    <3> QED BY <3>1, <3>2, <3>4
  <2> QED BY <1>11, <2>1, <2>2
<1>16. Linked(u, stp)
  <2>1. stp[p] \notin {"in", "zoning"}
    OBVIOUS
  <2> QED BY <1>1, <2>1 DEF Linked, Has
<1>17. Sized(u)
  BY <1>1 DEF Sized
<1>18. Consistent(u, d, stp, ldp)
  BY <1>6, <1>9, <1>10, <1>14 DEF Consistent
<1> QED BY <1>15, <1>16, <1>17, <1>18 DEF Agreed

\* HandlePlayerLoginOpcode keeps the agreement.
LEMMA AskLoginTables ==
    ASSUME GroupsInv, TablesInv, NEW p \in Players, AskLogin(p)
    PROVE  TablesInv'
<1>1. /\ status[p] = "off" /\ status' = [status EXCEPT ![p] = "loading"]
      /\ loaded' = [loaded EXCEPT ![p] = None] /\ UNCHANGED <<db, faults>>
  BY DEF AskLogin
<1>2. PICK w, d, st, ld : w = World /\ d = db /\ st = status /\ ld = loaded
  OBVIOUS
<1>3. w \in Worlds /\ Indexed(w) /\ d \in Tables
  BY <1>2, Present
<1>4. PICK stp, ldp : stp = status' /\ ldp = loaded'
  OBVIOUS
<1>5. /\ st[p] = "off" /\ stp[p] = "loading" /\ \A q \in Players \ {p} : stp[q] = st[q]
      /\ ldp[p] = None /\ \A q \in Players \ {p} : ldp[q] = ld[q]
  <2>1. status \in [Players -> {"off", "loading", "in", "zoning"}]
        /\ loaded \in [Players -> {None} \cup [{1} -> {None} \cup MemberRows]]
    BY DEF GroupsInv, Rest
  <2> QED BY <1>1, <1>2, <1>4, <2>1
<1>6. PICK o \in Statements : o = Load(p)
  BY DEF Load, Op, Statements
<1>7. PICK u : u = Queue(w, o)
  OBVIOUS
<1>8. /\ u \in Worlds
      /\ u.queue = Append(w.queue, o)
      /\ u.grp = w.grp /\ u.link = w.link /\ u.orig = w.orig /\ u.invite = w.invite
      /\ u.store = w.store /\ u.next = w.next
  BY <1>3, <1>7, QueueParts
<1>9. Becomes(u)
  BY <1>2, <1>6, <1>7 DEF AskLogin, Load
<1>10. Agreed(w, d, st, ld) => Agreed(u, d, stp, ldp)
  BY <1>3, <1>5, <1>6, <1>8, QueryAwaited
<1>11. Placed(w) => Placed(u)
  BY <1>8 DEF Placed, Has
<1>12. /\ faults' \cap {"own invitation", "orphan row"} = {} => Agreed(u, d, stp, ldp)
       /\ faults' \cap {"own invitation", "orphan row", "stale login"} = {} => Placed(u)
  BY <1>1, <1>2, <1>10, <1>11, TablesNow
<1>13. d = db'
  BY <1>1, <1>2
<1> QED BY <1>4, <1>8, <1>9, <1>12, <1>13, AdvanceTables

\* A member who comes in gets his group (_LoadGroup).
LEMMA LoadedFollows ==
    ASSUME NEW w, Well(w), NEW p \in Players, NEW d, NEW st, NEW ld, Agreed(w, d, st, ld),
           st[p] = "loading", ld[p] # None, ld[p][1] \in {None} \cup MemberRows,
           NEW g, g = IF ld[p][1] = None THEN None ELSE w.store[ld[p][1].id],
           NEW u, u.grp = w.grp, u.store = w.store, u.orig = w.orig, u.invite = w.invite, u.queue = w.queue,
           u.link[p] = g, \A q \in Players \ {p} : u.link[q] = w.link[q],
           NEW stp, stp[p] = "in", \A q \in Players \ {p} : stp[q] = st[q],
           NEW ldp, ldp[p] = None, \A q \in Players \ {p} : ldp[q] = ld[q]
    PROVE  Agreed(u, d, stp, ldp)
<1>1. Consistent(w, d, st, ld) /\ Once(w.queue, st, ld) /\ Linked(w, st) /\ Sized(w)
  BY DEF Agreed
<1>2. stp[p] # "loading"
  OBVIOUS
<1>3. \A q \in Players : stp[q] = "loading" => st[q] = "loading" /\ ldp[q] = ld[q]
  BY <1>2
<1>4. \A q \in Players : st[q] = "loading" /\ ld[q] = None => stp[q] = "loading" /\ ldp[q] = None
  OBVIOUS
<1>5. Consistent(u, d, stp, ldp) /\ Once(u.queue, stp, ldp) /\ Sized(u)
  BY <1>1, <1>3, <1>4, StatusKept
<1>6. w \in Worlds /\ Indexed(w) /\ Pointed(w)
  BY WellIndexed DEF Well
<1>7. w.invite[p] = None
  BY <1>1 DEF Linked
<1>8. ASSUME NEW h \in Objects, Has(w, h, p) PROVE g = h
  <2>1. PICK H : Awaited(w, H, st, ld)
    BY <1>1 DEF Consistent
  <2>2. ld[p][1] # None /\ ld[p][1].id = w.grp[h].id
    BY <1>8, <2>1 DEF Awaited
  <2>3. PICK i \in Ids : i = ld[p][1].id
    BY <2>2 DEF MemberRows
  <2>4. w.grp[h].id = i /\ i # None
    BY <2>2, <2>3, Nulls
  <2>5. w.store[i] = h
    BY <1>6, <1>8, <2>4 DEF Indexed, Has
  <2> QED BY <2>2, <2>3, <2>5
<1>9. Linked(u, stp)
  <2> SUFFICES ASSUME NEW q \in Players
               PROVE  /\ u.orig[q] = None
                      /\ u.invite[q] # None => u.link[q] = None /\ stp[q] \in {"in", "zoning"}
                      /\ stp[q] \in {"in", "zoning"} => \A h \in Objects : Has(u, h, q) => u.link[q] = h
    BY DEF Linked
  <2>1. \A h \in Objects : Has(u, h, q) <=> Has(w, h, q)
    BY DEF Has
  <2>2. w.orig[q] = None
    BY <1>1 DEF Linked
  <2>3. CASE q = p
    BY <1>7, <1>8, <2>1, <2>2, <2>3
  <2>4. CASE q # p
    BY <1>1, <2>1, <2>4 DEF Linked
  <2> QED BY <2>3, <2>4
<1> QED BY <1>5, <1>9 DEF Agreed

\* _LoadGroup keeps the agreement, and a link to a group without a slot for the
\* player is a stale login.
LEMMA LoginTables ==
    ASSUME GroupsInv, TablesInv, NEW p \in Players, Login(p)
    PROVE  TablesInv'
<1>1. PICK g : g = IF loaded[p][1] = None THEN None ELSE store[loaded[p][1].id]
  OBVIOUS
<1>2. /\ link' = [link EXCEPT ![p] = g]
      /\ faults' = IF g # None /\ p \notin Members(World, g) THEN faults \cup {"stale login"} ELSE faults
      /\ loaded[p] # None /\ status[p] = "loading"
      /\ status' = [status EXCEPT ![p] = "in"] /\ loaded' = [loaded EXCEPT ![p] = None]
      /\ UNCHANGED <<grp, orig, invite, store, next, queue, db>>
  BY <1>1 DEF Login
<1>3. status \in [Players -> {"off", "loading", "in", "zoning"}]
      /\ loaded \in [Players -> {None} \cup [{1} -> {None} \cup MemberRows]]
  BY DEF GroupsInv, Rest
<1>4. PICK w, d, st, ld : w = World /\ d = db /\ st = status /\ ld = loaded
  OBVIOUS
<1>5. PICK stp, ldp : stp = status' /\ ldp = loaded'
  OBVIOUS
<1>6. /\ Well(w) /\ w \in Worlds
      /\ w.grp = grp /\ w.link = link /\ w.orig = orig /\ w.invite = invite
      /\ w.store = store /\ w.next = next /\ w.queue = queue
  BY <1>4, Present, WorldFields
<1>7. /\ st[p] = "loading" /\ stp[p] = "in" /\ \A q \in Players \ {p} : stp[q] = st[q]
      /\ ld[p] # None /\ ldp[p] = None /\ \A q \in Players \ {p} : ldp[q] = ld[q]
  BY <1>2, <1>3, <1>4, <1>5
<1>8. ld[p][1] \in {None} \cup MemberRows
  <2>1. ld[p] \in [{1} -> {None} \cup MemberRows]
    BY <1>3, <1>4, <1>7
  <2> QED BY <2>1
<1>9. g = IF ld[p][1] = None THEN None ELSE w.store[ld[p][1].id]
  BY <1>1, <1>4, <1>6
<1>10. g \in {None} \cup Objects
  BY <1>6, <1>8, <1>9, WorldParts DEF MemberRows
<1>11. PICK u : u = [grp |-> grp, link |-> link', orig |-> orig, invite |-> invite,
                     store |-> store, next |-> next, queue |-> queue]
  OBVIOUS
<1>12. /\ u.grp = w.grp /\ u.orig = w.orig /\ u.invite = w.invite /\ u.store = w.store /\ u.next = w.next
       /\ u.link = link' /\ u.queue = w.queue
  BY <1>6, <1>11
<1>13. link' \in Pointers
  BY <1>2, <1>6, <1>10, WorldParts DEF Pointers
<1>14. u \in Worlds
  <2>1. /\ grp \in Groupings /\ orig \in Pointers /\ invite \in Pointers
        /\ store \in [Ids -> {None} \cup Objects] /\ next \in Ids /\ queue \in Seq(Statements)
    BY <1>6, WorldParts
  <2> QED BY <1>11, <1>13, <2>1 DEF Worlds
<1>15. u.link[p] = g /\ \A q \in Players \ {p} : u.link[q] = w.link[q]
  BY <1>2, <1>6, <1>12, WorldParts DEF Pointers
<1>16. Becomes(u)
  BY <1>2, <1>6, <1>12 DEF Becomes
<1>17. /\ faults \cap {"own invitation", "orphan row"} = {} => Agreed(w, d, st, ld)
       /\ faults \cap {"own invitation", "orphan row", "stale login"} = {} => Placed(w)
  BY <1>4, TablesNow
<1>18. faults' \cap {"own invitation", "orphan row"} = {} => Agreed(u, d, stp, ldp)
  <2>1. ASSUME Agreed(w, d, st, ld) PROVE Agreed(u, d, stp, ldp)
    BY <1>6, <1>7, <1>8, <1>9, <1>12, <1>15, <2>1, LoadedFollows
  <2> QED BY <1>2, <1>17, <2>1
<1>19. ASSUME faults' \cap {"own invitation", "orphan row", "stale login"} = {} PROVE Placed(u)
  <2>1. Placed(w) /\ (g # None => p \in Members(w, g))
    BY <1>2, <1>4, <1>17, <1>19
  <2>2. g # None => Has(u, g, p)
    <3>1. ASSUME g # None PROVE Has(u, g, p)
      <4>1. PICK i \in Ids : g = w.store[i]
        BY <1>8, <1>9, <3>1 DEF MemberRows
      <4>2. Indexed(w)
        BY <1>6, WellIndexed
      <4>3. w.grp[g] # None
        BY <3>1, <4>1, <4>2 DEF Indexed
      <4> QED BY <1>12, <2>1, <3>1, <4>3 DEF Members, Has
    <3> QED BY <3>1
  <2> QED BY <1>12, <1>15, <2>1, <2>2 DEF Placed, Has
<1>20. d = db'
  BY <1>2, <1>4
<1> QED BY <1>5, <1>14, <1>16, <1>18, <1>19, <1>20, AdvanceTables

\* A statement that is executed makes the history shorter; if it is the query of
\* a login, the player has his answer.
LEMMA HeadDone ==
    ASSUME NEW w \in Worlds, NEW u, w.queue # <<>>, u.queue = Tail(w.queue),
           u.grp = w.grp, u.store = w.store, u.link = w.link, u.orig = w.orig, u.invite = w.invite,
           NEW d \in Tables, NEW st, NEW ld, Agreed(w, d, st, ld),
           NEW o \in Statements, o = Head(w.queue), NEW dp, dp = Apply(d, o),
           NEW ldp, \A q \in Players : o = Load(q) => ldp[q] # None /\ ldp[q][1] = d.members[q],
           \A q \in Players : o # Load(q) => ldp[q] = ld[q]
    PROVE  Agreed(u, dp, st, ldp)
<1>1. Consistent(w, d, st, ld) /\ Once(w.queue, st, ld) /\ Linked(w, st) /\ Sized(w)
  BY DEF Agreed
<1>2. w.queue \in Seq(Statements)
  BY WorldParts
<1>3. PICK n \in Nat : Len(w.queue) = n + 1
  <2>1. PICK m \in Nat \ {0} : m = Len(w.queue)
    BY <1>2
  <2>2. m - 1 \in Nat /\ m = (m - 1) + 1
    OBVIOUS
  <2> QED BY <2>1, <2>2
<1>4. Len(w.queue) - 1 = n
  BY <1>3
<1>5. Len(u.queue) = n /\ w.queue[1] = o /\ \A k \in 1 .. n : u.queue[k] = w.queue[k + 1]
  <2>1. Len(Tail(w.queue)) = Len(w.queue) - 1 /\ Head(w.queue) = w.queue[1]
        /\ \A k \in 1 .. Len(w.queue) - 1 : Tail(w.queue)[k] = w.queue[k + 1]
    BY <1>2
  <2> QED BY <1>4, <2>1
<1>6. PICK H : /\ Chain(H, d, w.queue)
               /\ Final(w, H[n + 1])
               /\ \A k \in 0 .. n + 1 : RowsFit(H[k])
               /\ Awaited(w, H, st, ld)
  BY <1>1, <1>3 DEF Consistent
<1>7. PICK G : /\ Chain(G, dp, u.queue)
               /\ \A k \in 0 .. n : G[k] = H[k + 1]
  BY <1>2, <1>4, <1>6, ChainTail
<1>8. H[0] = d
  BY <1>6 DEF Chain
<1>9. \A k \in 0 .. n : k + 1 \in 0 .. n + 1
  OBVIOUS
<1>10. \A k \in 1 .. n : /\ k + 1 \in 1 .. n + 1 /\ k - 1 \in 0 .. n /\ (k - 1) + 1 = k /\ (k + 1) - 1 = k
                         /\ k + 1 # 1
  OBVIOUS
<1>11. 1 \in 1 .. n + 1 /\ n \in 0 .. n /\ 1 - 1 = 0
  OBVIOUS
<1>12. Final(u, G[Len(u.queue)])
  <2>1. G[Len(u.queue)] = H[n + 1]
    BY <1>5, <1>7, <1>11
  <2> QED BY <1>6, <2>1 DEF Final, Has
<1>13. \A k \in 0 .. Len(u.queue) : RowsFit(G[k])
  BY <1>5, <1>6, <1>7, <1>9
<1>14. Awaited(u, G, st, ldp)
  <2> SUFFICES ASSUME NEW q \in Players, NEW h \in Objects, st[q] = "loading", Has(u, h, q)
               PROVE  /\ ldp[q] # None => ldp[q][1] # None /\ ldp[q][1].id = u.grp[h].id
                      /\ \A k \in 1 .. n : u.queue[k] = Load(q) =>
                            G[k - 1].members[q] # None /\ G[k - 1].members[q].id = u.grp[h].id
    BY <1>5 DEF Awaited
  <2>1. Has(w, h, q) /\ u.grp[h].id = w.grp[h].id
    BY DEF Has
  <2>2. /\ ld[q] # None => ld[q][1] # None /\ ld[q][1].id = w.grp[h].id
        /\ \A k \in 1 .. n + 1 : w.queue[k] = Load(q) =>
              H[k - 1].members[q] # None /\ H[k - 1].members[q].id = w.grp[h].id
    BY <1>3, <1>6, <2>1 DEF Awaited
  <2>3. ldp[q] # None => ldp[q][1] # None /\ ldp[q][1].id = u.grp[h].id
    <3>1. CASE o = Load(q)
      <4>1. H[1 - 1].members[q] # None /\ H[1 - 1].members[q].id = w.grp[h].id
        BY <1>5, <1>11, <2>2, <3>1
      <4> QED BY <1>8, <1>11, <2>1, <3>1, <4>1
    <3>2. CASE o # Load(q)
      BY <2>1, <2>2, <3>2
    <3> QED BY <3>1, <3>2
  <2>4. ASSUME NEW k \in 1 .. n, u.queue[k] = Load(q)
        PROVE  G[k - 1].members[q] # None /\ G[k - 1].members[q].id = u.grp[h].id
    <3>1. w.queue[k + 1] = Load(q)
      BY <1>5, <2>4
    <3>2. H[(k + 1) - 1].members[q] # None /\ H[(k + 1) - 1].members[q].id = w.grp[h].id
      BY <1>10, <2>2, <3>1
    <3>3. G[k - 1] = H[k] /\ (k + 1) - 1 = k
      BY <1>7, <1>10
    <3> QED BY <2>1, <3>2, <3>3
  <2> QED BY <2>3, <2>4
<1>15. Once(u.queue, st, ldp)
  <2> SUFFICES ASSUME NEW k \in 1 .. n, NEW q \in Players, u.queue[k] = Load(q)
               PROVE  /\ st[q] = "loading" /\ ldp[q] = None
                      /\ \A j \in 1 .. n : u.queue[j] = Load(q) => j = k
    BY <1>5 DEF Once
  <2>1. w.queue[k + 1] = Load(q) /\ k + 1 \in 1 .. n + 1
    BY <1>5, <1>10
  <2>2. /\ st[q] = "loading" /\ ld[q] = None
        /\ \A j \in 1 .. n + 1 : w.queue[j] = Load(q) => j = k + 1
    BY <1>1, <1>3, <2>1 DEF Once
  <2>3. o # Load(q)
    BY <1>5, <1>10, <1>11, <2>2
  <2>4. ASSUME NEW j \in 1 .. n, u.queue[j] = Load(q) PROVE j = k
    <3>1. j + 1 = k + 1
      BY <1>5, <1>10, <2>2, <2>4
    <3> QED BY <3>1
  <2> QED BY <2>2, <2>3, <2>4
<1>16. Linked(u, st)
  BY <1>1 DEF Linked, Has
<1>17. Sized(u)
  BY <1>1 DEF Sized
<1>18. Consistent(u, dp, st, ldp)
  BY <1>7, <1>12, <1>13, <1>14 DEF Consistent
<1> QED BY <1>15, <1>16, <1>17, <1>18 DEF Agreed

\* DatabaseWorker::WorkAsync keeps the agreement.
LEMMA WorkerTables ==
    ASSUME GroupsInv, TablesInv, DatabaseWorker
    PROVE  TablesInv'
<1>1. PICK o : o = Head(queue)
  OBVIOUS
<1>2. /\ queue # <<>> /\ queue' = Tail(queue) /\ db' = Apply(db, o)
      /\ loaded' = IF o.op = "load" THEN [loaded EXCEPT ![o.p] = <<db.members[o.p]>>] ELSE loaded
      /\ UNCHANGED <<grp, link, orig, invite, store, next, status, faults>>
  BY <1>1 DEF DatabaseWorker
<1>3. PICK w, d, st, ld : w = World /\ d = db /\ st = status /\ ld = loaded
  OBVIOUS
<1>4. /\ w \in Worlds /\ d \in Tables
      /\ w.grp = grp /\ w.link = link /\ w.orig = orig /\ w.invite = invite
      /\ w.store = store /\ w.next = next /\ w.queue = queue
  BY <1>3, Present, WorldFields
<1>5. queue \in Seq(Statements)
  BY <1>4, WorldParts
<1>6. o \in Statements /\ queue' \in Seq(Statements)
  BY <1>1, <1>2, <1>5
<1>7. PICK dp, ldp : dp = db' /\ ldp = loaded'
  OBVIOUS
<1>8. ASSUME NEW q \in Players
      PROVE  /\ o = Load(q) => ldp[q] # None /\ ldp[q][1] = d.members[q]
             /\ o # Load(q) => ldp[q] = ld[q]
  <2>1. loaded \in [Players -> {None} \cup [{1} -> {None} \cup MemberRows]]
    BY DEF GroupsInv, Rest
  <2>2. CASE o = Load(q)
    <3>1. o.op = "load" /\ o.p = q
      BY <2>2 DEF Load, Op
    <3>2. PICK m \in {None} \cup MemberRows : m = d.members[q]
      BY <1>4 DEF Tables
    <3>3. ldp[q] = <<m>>
      BY <1>2, <1>3, <1>7, <2>1, <3>1, <3>2
    <3>4. ldp[q] \in [{1} -> {None} \cup MemberRows] /\ ldp[q][1] = m
      BY <3>3
    <3> QED BY <2>2, <3>2, <3>4, NullAssumption
  <2>3. CASE o # Load(q)
    <3>1. o.op = "load" => o.p # q
      BY <1>6, <2>3 DEF Load, Op, Statements
    <3> QED BY <1>2, <1>3, <1>7, <2>1, <2>3, <3>1
  <2> QED BY <2>2, <2>3
<1>9. PICK u : u = [grp |-> grp, link |-> link, orig |-> orig, invite |-> invite,
                     store |-> store, next |-> next, queue |-> queue']
  OBVIOUS
<1>10. /\ u.grp = w.grp /\ u.orig = w.orig /\ u.invite = w.invite /\ u.store = w.store /\ u.next = w.next
       /\ u.link = w.link /\ u.queue = queue'
  BY <1>4, <1>9
<1>11. u \in Worlds
  BY <1>4, <1>6, <1>9, WorldParts DEF Worlds
<1>12. Becomes(u)
  BY <1>2, <1>4, <1>10 DEF Becomes
<1>13. ASSUME Agreed(w, d, st, ld) PROVE Agreed(u, dp, st, ldp)
  <2>1. w.queue # <<>> /\ u.queue = Tail(w.queue) /\ o = Head(w.queue) /\ dp = Apply(d, o)
    BY <1>1, <1>2, <1>3, <1>4, <1>7, <1>10
  <2>2. \A q \in Players : o = Load(q) => ldp[q] # None /\ ldp[q][1] = d.members[q]
    BY <1>8
  <2>3. \A q \in Players : o # Load(q) => ldp[q] = ld[q]
    BY <1>8
  <2>4. u.grp = w.grp /\ u.orig = w.orig /\ u.invite = w.invite /\ u.store = w.store /\ u.link = w.link
    BY <1>10
  <2>5. w \in Worlds /\ d \in Tables /\ o \in Statements
    BY <1>4, <1>6
  <2> QED BY <1>13, <2>1, <2>2, <2>3, <2>4, <2>5, HeadDone
<1>14. Placed(w) => Placed(u)
  BY <1>10 DEF Placed, Has
<1>15. /\ faults' \cap {"own invitation", "orphan row"} = {} => Agreed(u, dp, st, ldp)
       /\ faults' \cap {"own invitation", "orphan row", "stale login"} = {} => Placed(u)
  BY <1>2, <1>3, <1>13, <1>14, TablesNow
<1>16. st = status'
  BY <1>2, <1>3
<1> QED BY <1>7, <1>11, <1>12, <1>15, <1>16, AdvanceTables

\* A group that is loaded fits if its rows do (LoadGroupFromDB,
\* LoadMemberFromDB).
LEMMA StoredFits ==
    ASSUME db \in Tables, NEW d, d = db, RowsFit(d), NEW i \in Kept
    PROVE  Fitting(StoredGroup(i)) /\ StoredGroup(i).raid = db.groups[i].raid
<1>1. i \in Ids /\ db.groups[i] # None
  BY DEF Kept
<1>2. db.groups[i] \in GroupRows /\ db.members \in [Players -> {None} \cup MemberRows]
  BY <1>1 DEF Tables
<1>3. PICK t : t = StoredSlots(i)
  OBVIOUS
<1>4. PICK c : c = IF db.groups[i].raid THEN InitCounts(t) ELSE NoCounts
  OBVIOUS
<1>5. PICK l \in Players, b \in BOOLEAN : l = db.groups[i].leader /\ b = db.groups[i].raid
  BY <1>2 DEF GroupRows
<1>6. PICK r : r = StoredGroup(i)
  OBVIOUS
<1>7. r = [leader |-> l, slots |-> t, invitees |-> {}, raid |-> b, counts |-> c, id |-> i]
  BY <1>3, <1>4, <1>5, <1>6 DEF StoredGroup
<1>8. r.slots = t /\ r.raid = b /\ r.counts = c
  BY <1>7
<1>9. /\ ~b => Cardinality(RowsOf(d, i)) <= GroupSize
      /\ \A s \in Subs : Cardinality({p \in RowsOf(d, i) : d.members[p].sub = s}) <= GroupSize
  BY <1>1, <1>5 DEF RowsFit
<1>10. \A p \in Players : t[p] = IF d.members[p] # None /\ d.members[p].id = i THEN d.members[p].sub ELSE None
  BY <1>3 DEF StoredSlots
<1>11. \A p \in Players : d.members[p] # None => d.members[p].sub \in Subs /\ d.members[p].sub # None
  BY <1>2, Nulls DEF MemberRows
<1>12. {p \in Players : t[p] # None} = RowsOf(d, i)
  BY <1>10, <1>11 DEF RowsOf
<1>13. \A s \in Subs : {p \in Players : t[p] = s} = {p \in RowsOf(d, i) : d.members[p].sub = s}
  BY <1>10, <1>11, Nulls DEF RowsOf
<1>14. r.raid => r.counts = InitCounts(r.slots)
  BY <1>4, <1>5, <1>8
<1>15. \A s \in Subs : Cardinality({p \in Players : r.slots[p] = s}) <= GroupSize
  BY <1>8, <1>9, <1>13
<1>16. ~r.raid => Cardinality({p \in Players : r.slots[p] # None}) <= GroupSize
  BY <1>8, <1>9, <1>12
<1>17. Fitting(r)
  BY <1>14, <1>15, <1>16 DEF Fitting
<1> QED BY <1>5, <1>6, <1>8, <1>17

\* With nothing queued, and nobody who waits for an answer, memory and tables
\* agree if they hold the same.
LEMMA QuietAgreed ==
    ASSUME NEW w \in Worlds, Indexed(w), Sized(w), w.queue = <<>>, NEW d \in Tables, Final(w, d),
           NEW st, NEW ld, \A p \in Players : st[p] # "loading", Linked(w, st)
    PROVE  Agreed(w, d, st, ld)
<1>1. PICK H : H = [k \in 0 .. 0 |-> d]
  OBVIOUS
<1>2. Len(w.queue) = 0 /\ \A k \in 0 .. 0 : H[k] = d
  BY <1>1
<1>3. 0 \in 0 .. 0 /\ 1 .. 0 = {}
  OBVIOUS
<1>4. H \in [0 .. 0 -> Tables]
  BY <1>1
<1>5. Chain(H, d, w.queue)
  BY <1>2, <1>3, <1>4 DEF Chain
<1>6. RowsFit(d)
  BY FinalFits
<1>7. Awaited(w, H, st, ld)
  BY DEF Awaited
<1>8. Once(w.queue, st, ld)
  BY <1>2, <1>3 DEF Once
<1>9. Final(w, H[Len(w.queue)]) /\ \A k \in 0 .. Len(w.queue) : RowsFit(H[k])
  BY <1>2, <1>3, <1>6
<1>10. Consistent(w, d, st, ld)
  BY <1>5, <1>7, <1>9 DEF Consistent
<1> QED BY <1>8, <1>10 DEF Agreed

\* A restart makes memory and tables agree, whatever was queued: LoadGroups
\* deletes the rows that it does not keep, unless it keeps no group.
LEMMA RestartTables ==
    ASSUME GroupsInv, TablesInv, Restart
    PROVE  TablesInv'
<1>1. db \in Tables /\ Kept \in SUBSET Ids
  BY DEF GroupsInv, Rest, Tables, Kept
<1>2. PICK object : object = CHOOSE f \in [Kept -> Objects] : Separate(f)
  OBVIOUS
<1>3. object \in [Kept -> Objects] /\ Separate(object)
  BY <1>2 DEF Restart
<1>4. /\ grp' = [g \in Objects |-> IF \E i \in Kept : object[i] = g
                                   THEN StoredGroup(CHOOSE i \in Kept : object[i] = g) ELSE None]
      /\ store' = [i \in Ids |-> IF i \in Kept THEN object[i] ELSE None]
      /\ link' = [p \in Players |-> None] /\ orig' = link' /\ invite' = [p \in Players |-> None]
      /\ queue' = <<>> /\ status' = [p \in Players |-> "off"]
      /\ faults \subseteq faults'
  BY <1>2 DEF Restart
<1>5. \A i, j \in Kept : object[i] = object[j] => i = j
  BY <1>3 DEF Separate
<1>6. GroupsInv'
  BY RestartStep
<1>7. PICK u : u = World'
  OBVIOUS
<1>8. Well(World)'
  BY <1>6 DEF GroupsInv
<1>9. /\ u.grp = grp' /\ u.link = link' /\ u.orig = orig' /\ u.invite = invite'
      /\ u.store = store' /\ u.next = next' /\ u.queue = queue'
  BY <1>7 DEF World
<1>10. u \in Worlds
  BY <1>7, <1>8 DEF Well
<1>11. Indexed(u)
  BY <1>7, <1>8 DEF Well, Numbered, Indexed
<1>12. Becomes(u)
  BY <1>9 DEF Becomes
<1>13. \A i \in Kept : object[i] \in Objects /\ u.grp[object[i]] = StoredGroup(i)
  <2> SUFFICES ASSUME NEW i \in Kept PROVE object[i] \in Objects /\ u.grp[object[i]] = StoredGroup(i)
    OBVIOUS
  <2>1. object[i] \in Objects
    BY <1>3
  <2>2. (CHOOSE j \in Kept : object[j] = object[i]) = i
    BY <1>5
  <2> QED BY <1>4, <1>9, <2>1, <2>2
<1>14. \A g \in Objects : u.grp[g] # None => \E i \in Kept : object[i] = g /\ u.grp[g] = StoredGroup(i)
  <2> SUFFICES ASSUME NEW g \in Objects, u.grp[g] # None
               PROVE  \E i \in Kept : object[i] = g /\ u.grp[g] = StoredGroup(i)
    OBVIOUS
  <2>1. ~(\E i \in Kept : object[i] = g) => grp'[g] = None
    BY <1>4
  <2>2. PICK i \in Kept : object[i] = g
    BY <1>9, <2>1
  <2>3. u.grp[g] = StoredGroup(i)
    BY <1>13, <2>2
  <2> QED BY <2>2, <2>3
<1>15. \A i \in Ids : u.store[i] = IF i \in Kept THEN object[i] ELSE None
  BY <1>4, <1>9
<1>16. PICK d, dp, stp, ldp : d = db /\ dp = db' /\ stp = status' /\ ldp = loaded'
  OBVIOUS
<1>17. dp \in Tables
  BY <1>6, <1>16 DEF GroupsInv, Rest, Tables
<1>18. /\ \A i \in Ids : dp.groups[i] = IF i \in Kept THEN d.groups[i] ELSE None
       /\ \A p \in Players : dp.members[p] = IF Kept # {} /\ p \in Orphans THEN None ELSE d.members[p]
  <2>1. db' = [groups  |-> [i \in Ids |-> IF i \in Kept THEN db.groups[i] ELSE None],
               members |-> [p \in Players |-> IF Kept # {} /\ p \in Orphans THEN None ELSE db.members[p]]]
    BY DEF Restart
  <2>2. PICK x, y : /\ x = [i \in Ids |-> IF i \in Kept THEN db.groups[i] ELSE None]
                    /\ y = [p \in Players |-> IF Kept # {} /\ p \in Orphans THEN None ELSE db.members[p]]
    OBVIOUS
  <2>3. db'.groups = x /\ db'.members = y
    BY <2>1, <2>2
  <2> QED BY <1>16, <2>2, <2>3
<1>19. \A p \in Players : u.link[p] = None /\ u.orig[p] = None /\ u.invite[p] = None /\ stp[p] = "off"
  BY <1>4, <1>9, <1>16
<1>23. ASSUME "orphan row" \notin faults', NEW p \in Players
       PROVE  dp.members[p] = IF d.members[p] # None /\ d.members[p].id \in Kept THEN d.members[p] ELSE None
  <2>1. Kept = {} => Orphans = {}
    BY <1>23 DEF Restart
  <2>2. p \in Orphans <=> d.members[p] # None /\ d.members[p].id \notin Kept
    BY <1>16 DEF Orphans
  <2> QED BY <1>18, <2>1, <2>2
<1>20. ASSUME RowsFit(d), "orphan row" \notin faults' PROVE Agreed(u, dp, stp, ldp)
  <2>1. \A i \in Kept : /\ Fitting(StoredGroup(i)) /\ StoredGroup(i).raid = d.groups[i].raid
                        /\ StoredGroup(i).id = i /\ i \in Ids
                        /\ StoredGroup(i).slots = StoredSlots(i) /\ StoredGroup(i).leader = d.groups[i].leader
    BY <1>1, <1>16, <1>20, StoredFits, StoredGroupFacts
  <2>2. Sized(u)
    BY <1>14, <2>1 DEF Sized
  <2>3. \A i \in Kept : \A p \in Players :
            StoredSlots(i)[p] = IF d.members[p] # None /\ d.members[p].id = i THEN d.members[p].sub ELSE None
    BY <1>16 DEF StoredSlots
  <2>4. \A i \in Ids : u.store[i] = None => dp.groups[i] = None
    <3>1. \A i \in Kept : object[i] # None
      BY <1>13, Nulls
    <3> QED BY <1>15, <1>18, <3>1
  <2>5. ASSUME NEW i \in Ids, u.store[i] # None
        PROVE  dp.groups[i] = [leader |-> u.grp[u.store[i]].leader, raid |-> u.grp[u.store[i]].raid]
    <3>1. i \in Kept /\ u.store[i] = object[i]
      BY <1>15, <2>5
    <3>2. u.grp[u.store[i]] = StoredGroup(i)
      BY <1>13, <3>1
    <3>3. d.groups[i] \in GroupRows
      BY <1>1, <1>16, <3>1 DEF Tables, Kept
    <3>4. d.groups[i] = [leader |-> d.groups[i].leader, raid |-> d.groups[i].raid]
      BY <3>3 DEF GroupRows
    <3> QED BY <1>18, <2>1, <3>1, <3>2, <3>4
  <2>6. ASSUME NEW p \in Players, NEW g \in Objects, Has(u, g, p)
        PROVE  u.grp[g].id # None /\ dp.members[p] = [id |-> u.grp[g].id, sub |-> u.grp[g].slots[p]]
    <3>1. PICK i \in Kept : object[i] = g /\ u.grp[g] = StoredGroup(i)
      BY <1>14, <2>6 DEF Has
    <3>2. StoredSlots(i)[p] # None
      BY <2>1, <2>6, <3>1 DEF Has
    <3>3. d.members[p] # None /\ d.members[p].id = i /\ StoredSlots(i)[p] = d.members[p].sub
      BY <2>3, <3>2
    <3>4. d.members[p] \in MemberRows
      BY <1>1, <1>16, <3>3 DEF Tables
    <3>5. d.members[p] = [id |-> i, sub |-> StoredSlots(i)[p]]
      BY <3>3, <3>4 DEF MemberRows
    <3>6. dp.members[p] = [id |-> i, sub |-> StoredSlots(i)[p]]
      BY <1>20, <1>23, <3>3, <3>5
    <3>7. u.grp[g].id = i /\ u.grp[g].slots = StoredSlots(i) /\ i # None
      BY <2>1, <3>1, Nulls
    <3> QED BY <3>6, <3>7
  <2>7. ASSUME NEW p \in Players, dp.members[p] # None
        PROVE  \E g \in Objects : Has(u, g, p)
    <3>1. PICK i \in Kept : d.members[p] # None /\ i = d.members[p].id
      BY <1>20, <1>23, <2>7
    <3>2. d.members[p] \in MemberRows
      BY <1>1, <1>16, <3>1 DEF Tables
    <3>3. StoredSlots(i)[p] # None
      BY <2>3, <3>1, <3>2, Nulls DEF MemberRows
    <3>4. StoredGroup(i) # None
      BY <1>1, StoredGroupFacts, Nulls
    <3>5. Has(u, object[i], p)
      BY <1>13, <2>1, <3>3, <3>4 DEF Has
    <3> QED BY <1>13, <3>5
  <2>8. Final(u, dp)
    BY <2>4, <2>5, <2>6, <2>7 DEF Final
  <2>9. Linked(u, stp)
    <3>1. \A p \in Players : stp[p] \notin {"in", "zoning"}
      BY <1>19
    <3> QED BY <1>19, <3>1 DEF Linked
  <2>10. \A p \in Players : stp[p] # "loading"
    BY <1>19
  <2>11. u.queue = <<>>
    BY <1>4, <1>9
  <2> QED BY <1>10, <1>11, <1>17, <2>2, <2>8, <2>9, <2>10, <2>11, QuietAgreed
<1>21. faults' \cap {"own invitation", "orphan row"} = {} => RowsFit(d)
  <2>1. ASSUME faults' \cap {"own invitation", "orphan row"} = {} PROVE RowsFit(d)
    <3>1. PICK w, st, ld : w = World /\ st = status /\ ld = loaded
      OBVIOUS
    <3>2. Agreed(w, d, st, ld)
      BY <1>4, <1>16, <2>1, <3>1, TablesNow
    <3>3. PICK H : Chain(H, d, w.queue) /\ \A k \in 0 .. Len(w.queue) : RowsFit(H[k])
      BY <3>2 DEF Agreed, Consistent
    <3>4. 0 \in 0 .. Len(w.queue)
      <4>1. w \in Worlds
        BY <3>1, Present
      <4>2. Len(w.queue) \in Nat
        BY <4>1, WorldParts
      <4> QED BY <4>2
    <3> QED BY <3>3, <3>4 DEF Chain
  <2> QED BY <2>1
<1>22. Placed(u)
  BY <1>19 DEF Placed
<1> QED BY <1>10, <1>12, <1>16, <1>20, <1>21, <1>22, AdvanceTables

\* Memory and tables agree at first.
LEMMA InitTables == Init => TablesInv
<1> SUFFICES ASSUME Init PROVE TablesInv
  OBVIOUS
<1>1. /\ orig = [p \in Players |-> None] /\ invite = [p \in Players |-> None] /\ queue = <<>>
      /\ status = [p \in Players |-> "in"] /\ faults = {}
  BY DEF Init
<1>2. GroupsInv
  BY InitStep
<1>3. PICK u, d, st, ld : u = World /\ d = db /\ st = status /\ ld = loaded
  OBVIOUS
<1>4. /\ u \in Worlds /\ Indexed(u) /\ d \in Tables
      /\ u.grp = grp /\ u.link = link /\ u.orig = orig /\ u.invite = invite
      /\ u.store = store /\ u.next = next /\ u.queue = queue
  BY <1>2, <1>3, Present, WorldFields
<1>5. \A p \in Players : u.orig[p] = None /\ u.invite[p] = None /\ st[p] = "in"
  BY <1>1, <1>3, <1>4
<1>6. \A p \in Players : st[p] # "loading"
  BY <1>5
\* What is left to show in both cases.
<1>7. ASSUME Final(u, d), Sized(u), Placed(u), \A p \in Players : \A g \in Objects : Has(u, g, p) => u.link[p] = g
      PROVE  TablesInv
  <2>1. Linked(u, st)
    BY <1>5, <1>7 DEF Linked
  <2>2. u.queue = <<>>
    BY <1>1, <1>4
  <2>3. Agreed(u, d, st, ld)
    BY <1>4, <1>6, <1>7, <2>1, <2>2, QuietAgreed
  <2> QED BY <1>3, <1>7, <2>3, TablesNow
<1>8. CASE /\ grp = [g \in Objects |-> None] /\ store = [i \in Ids |-> None] /\ next = 1
           /\ link = [p \in Players |-> None] /\ left = MaxRequests
           /\ db = [groups |-> [i \in Ids |-> None], members |-> [p \in Players |-> None]]
  <2>1. \A g \in Objects : u.grp[g] = None
    BY <1>4, <1>8
  <2>2. \A i \in Ids : u.store[i] = None
    BY <1>4, <1>8
  <2>3. \A p \in Players : u.link[p] = None
    BY <1>4, <1>8
  <2>4. (\A i \in Ids : d.groups[i] = None) /\ (\A p \in Players : d.members[p] = None)
    BY <1>3, <1>8
  <2>5. Final(u, d)
    BY <2>1, <2>2, <2>4 DEF Final, Has
  <2>6. Sized(u) /\ Placed(u)
    BY <2>1, <2>3 DEF Sized, Placed
  <2> QED BY <1>7, <2>1, <2>5, <2>6 DEF Has
<1>9. ASSUME NEW slots \in Raids, NEW l \in Players,
             /\ grp = [g \in Objects |-> IF g > 1 THEN None
                         ELSE [NewGroup(l) EXCEPT !.slots = slots, !.raid = TRUE, !.counts = InitCounts(slots), !.id = 1]]
             /\ store = [i \in Ids |-> IF i > 1 THEN None ELSE 1] /\ next = 2
             /\ link = [p \in Players |-> 1] /\ left = MaxRaidRequests
             /\ db = [groups  |-> [i \in Ids |-> IF i > 1 THEN None ELSE [leader |-> l, raid |-> TRUE]],
                      members |-> [p \in Players |-> [id |-> 1, sub |-> slots[p]]]]
      PROVE  TablesInv
  <2>1. slots \in [Players -> Subs] /\ \A s \in Subs : Cardinality({p \in Players : slots[p] = s}) <= GroupSize
    BY GroupsAssumption
  <2>2. PICK t \in [Players -> {None} \cup Subs] : t = slots
    BY <2>1
  <2>3. InitCounts(t) \in [Subs -> Int]
    <3>1. InitCounts(t) \in [Subs -> Nat]
      BY CountsType
    <3> QED BY <3>1
  <2>4. PICK r : r = [NewGroup(l) EXCEPT !.slots = t, !.raid = TRUE, !.counts = InitCounts(t), !.id = 1]
    OBVIOUS
  <2>5. r \in GroupRecs /\ r.leader = l /\ r.slots = t /\ r.raid = TRUE /\ r.counts = InitCounts(t) /\ r.id = 1
    <3>1. PICK y \in GroupRecs : y = NewGroup(l) /\ y.leader = l
      BY NewGroupType
    <3>2. PICK c \in [Subs -> Int] : c = InitCounts(t)
      BY <2>3
    <3>3. r = [y EXCEPT !.slots = t, !.raid = TRUE, !.counts = c, !.id = 1]
      BY <2>4, <3>1, <3>2
    <3>4. 1 \in Ids
      BY Nulls
    <3> QED BY <3>1, <3>2, <3>3, <3>4 DEF GroupRecs
  <2>6. \A g \in Objects : g > 1 <=> g # 1
    BY Nulls DEF Objects
  <2>7. \A i \in Ids : i > 1 <=> i # 1
    BY Nulls DEF Ids
  <2>8. \A g \in Objects : u.grp[g] = IF g = 1 THEN r ELSE None
    BY <1>4, <1>9, <2>2, <2>4, <2>6
  <2>9. \A i \in Ids : u.store[i] = IF i = 1 THEN 1 ELSE None
    BY <1>4, <1>9, <2>7
  <2>10. r # None /\ 1 \in Objects /\ 1 \in Ids /\ 1 # None
    BY <2>5, Nulls
  <2>11. \A p \in Players : t[p] # None
    BY <2>1, <2>2, Nulls
  <2>12. \A g \in Objects : \A p \in Players : Has(u, g, p) <=> g = 1
    BY <2>5, <2>8, <2>10, <2>11 DEF Has
  <2>13. \A p \in Players : u.link[p] = 1
    BY <1>4, <1>9
  <2>14. Placed(u)
    BY <2>10, <2>12, <2>13 DEF Placed
  <2>15. Fitting(r)
    <3>1. \A s \in Subs : Cardinality({p \in Players : r.slots[p] = s}) <= GroupSize
      BY <2>1, <2>2, <2>5
    <3> QED BY <2>5, <3>1 DEF Fitting
  <2>16. Sized(u)
    BY <2>8, <2>15 DEF Sized
  <2>17. /\ \A i \in Ids : d.groups[i] = IF i = 1 THEN [leader |-> l, raid |-> TRUE] ELSE None
         /\ \A p \in Players : d.members[p] = [id |-> 1, sub |-> t[p]]
    <3>1. PICK x, y : /\ x = [i \in Ids |-> IF i > 1 THEN None ELSE [leader |-> l, raid |-> TRUE]]
                      /\ y = [p \in Players |-> [id |-> 1, sub |-> slots[p]]]
      OBVIOUS
    <3>2. d.groups = x /\ d.members = y
      BY <1>3, <1>9, <3>1
    <3>3. \A i \in Ids : d.groups[i] = IF i = 1 THEN [leader |-> l, raid |-> TRUE] ELSE None
      BY <2>7, <3>1, <3>2
    <3>4. \A p \in Players : d.members[p] = [id |-> 1, sub |-> t[p]]
      BY <2>2, <3>1, <3>2
    <3> QED BY <3>3, <3>4
  <2>18. \A i \in Ids : u.store[i] = None => d.groups[i] = None
    BY <2>9, <2>10, <2>17
  <2>19. \A i \in Ids : u.store[i] # None =>
            d.groups[i] = [leader |-> u.grp[u.store[i]].leader, raid |-> u.grp[u.store[i]].raid]
    <3> SUFFICES ASSUME NEW i \in Ids, u.store[i] # None
                 PROVE  d.groups[i] = [leader |-> u.grp[u.store[i]].leader, raid |-> u.grp[u.store[i]].raid]
      OBVIOUS
    <3>1. i = 1 /\ u.store[i] = 1
      BY <2>9
    <3>2. u.grp[u.store[i]] = r
      BY <2>8, <2>10, <3>1
    <3>3. d.groups[i] = [leader |-> l, raid |-> TRUE]
      BY <2>17, <3>1
    <3> QED BY <2>5, <3>2, <3>3
  <2>20. \A p \in Players : \A g \in Objects : Has(u, g, p) =>
            u.grp[g].id # None /\ d.members[p] = [id |-> u.grp[g].id, sub |-> u.grp[g].slots[p]]
    BY <2>5, <2>8, <2>10, <2>12, <2>17
  <2>21. \A p \in Players : d.members[p] # None => \E g \in Objects : Has(u, g, p)
    BY <2>10, <2>12
  <2>22. Final(u, d)
    BY <2>18, <2>19, <2>20, <2>21 DEF Final
  <2>23. \A p \in Players : \A g \in Objects : Has(u, g, p) => u.link[p] = g
    BY <2>12, <2>13
  <2> QED BY <1>7, <2>14, <2>16, <2>22, <2>23
<1> QED BY <1>8, <1>9 DEF Init

\* Every step keeps the agreement.
LEMMA TablesInductive == GroupsInv /\ TablesInv /\ [Next]_vars => TablesInv'
<1> SUFFICES ASSUME GroupsInv, TablesInv, [Next]_vars PROVE TablesInv'
  OBVIOUS
<1>1. CASE DatabaseWorker
  BY <1>1, WorkerTables
<1>2. CASE Restart
  BY <1>2, RestartTables
<1>3. ASSUME NEW p \in Players,
             \/ InviteSelf(p) \/ Accept(p) \/ AcceptFreed(p) \/ Decline(p) \/ Leave(p)
             \/ AskLogin(p) \/ Login(p) \/ Zone(p) \/ Arrive(p)
      PROVE  TablesInv'
  BY <1>3, InviteSelfTables, AcceptTables, AcceptFreedTables, DeclineTables, LeaveTables, AskLoginTables, LoginTables,
     MoveTables
<1>4. ASSUME NEW p \in Players, NEW b \in BOOLEAN, RaidConvert(p, b) \/ Logout(p, b)
      PROVE  TablesInv'
  BY <1>4, RaidConvertTables, LogoutTables
<1>5. ASSUME NEW p \in Players, NEW q \in Players, Invite(p, q) \/ Uninvite(p, q) \/ SetLeader(p, q)
      PROVE  TablesInv'
  BY <1>5, InviteTables, UninviteTables, SetLeaderTables
<1>6. CASE UNCHANGED vars
  BY <1>6 DEF TablesInv, World, vars
<1> QED BY <1>1, <1>2, <1>3, <1>4, <1>5, <1>6 DEF Next

\* Both invariants hold in every behaviour.
LEMMA Invariant == Spec => [](GroupsInv /\ TablesInv)
<1>1. Init => GroupsInv /\ TablesInv
  BY InitStep, InitTables
<1>2. GroupsInv /\ TablesInv /\ [Next]_vars => GroupsInv' /\ TablesInv'
  BY Inductive, TablesInductive
<1> QED BY <1>1, <1>2, PTL DEF Spec

\* The members of a group are the players with a slot.
LEMMA MembersHas ==
    ASSUME NEW w, w = World, NEW g \in Live, NEW p \in Players
    PROVE  g \in Objects /\ grp[g] # None /\ (p \in Members(World, g) <=> Has(w, g, p))
BY WorldFields DEF Live, Members, Has

\* What the invariants say of the members, the counters and the tables.
LEMMA AgreementParts == GroupsInv /\ TablesInv => MembershipMatches /\ SubGroupsCounted /\ StoredAgrees
<1> SUFFICES ASSUME GroupsInv, TablesInv PROVE MembershipMatches /\ SubGroupsCounted /\ StoredAgrees
  OBVIOUS
<1>1. PICK w, d, st, ld : w = World /\ d = db /\ st = status /\ ld = loaded
  OBVIOUS
<1>2. /\ faults \cap {"own invitation", "orphan row"} = {} => Agreed(w, d, st, ld)
      /\ faults \cap {"own invitation", "orphan row", "stale login"} = {} => Placed(w)
  BY <1>1, TablesNow
<1>3. /\ Well(w) /\ w \in Worlds /\ Indexed(w) /\ d \in Tables
      /\ w.grp = grp /\ w.link = link /\ w.store = store /\ w.queue = queue
  BY <1>1, Present, WorldFields
<1>4. \A p \in Players : link[p] # None => link[p] \in Live
  BY LinkFacts DEF GroupsInv, Live
<1>5. \A g \in Live : \A p \in Players :
          g \in Objects /\ grp[g] # None /\ (p \in Members(World, g) <=> Has(w, g, p))
  BY <1>1, MembersHas
<1>6. MembershipMatches
  <2>1. ASSUME faults \cap {"own invitation", "orphan row"} = {}, NEW g \in Live, NEW h \in Live, g # h
        PROVE  Members(World, g) \cap Members(World, h) = {}
    <3>1. Agreed(w, d, st, ld)
      BY <1>2, <2>1
    <3>2. ASSUME NEW p \in Members(World, g), p \in Members(World, h) PROVE FALSE
      <4>1. p \in Players
        BY DEF Members
      <4>2. g \in Objects /\ h \in Objects /\ Has(w, g, p) /\ Has(w, h, p)
        BY <1>5, <3>2, <4>1
      <4>3. \A x \in Objects : Has(w, x, p) => x = g
        BY <1>3, <3>1, <4>1, <4>2, SlotOf
      <4> QED BY <2>1, <4>2, <4>3
    <3> QED BY <3>2
  <2>2. ASSUME faults \cap {"own invitation", "orphan row"} = {}, NEW g \in Live, NEW p \in Members(World, g),
               status[p] \in {"in", "zoning"}
        PROVE  link[p] = g
    <3>1. Linked(w, st)
      BY <1>2, <2>2 DEF Agreed
    <3>2. p \in Players
      BY DEF Members
    <3>3. g \in Objects /\ Has(w, g, p)
      BY <1>5, <3>2
    <3> QED BY <1>1, <1>3, <2>2, <3>1, <3>2, <3>3 DEF Linked
  <2>3. ASSUME faults \cap {"own invitation", "orphan row", "stale login"} = {}, NEW p \in Players, link[p] # None
        PROVE  p \in Members(World, link[p])
    <3>1. Has(w, w.link[p], p)
      BY <1>2, <1>3, <2>3 DEF Placed
    <3> QED BY <1>3, <1>4, <1>5, <2>3, <3>1
  <2> QED BY <1>4, <2>1, <2>2, <2>3 DEF MembershipMatches, Undisturbed
<1>7. SubGroupsCounted
  <2> SUFFICES ASSUME faults \cap {"own invitation", "orphan row"} = {}, NEW g \in Live
               PROVE  /\ grp[g].raid => grp[g].counts = InitCounts(grp[g].slots)
                      /\ \A s \in Subs : InitCounts(grp[g].slots)[s] <= GroupSize
    BY DEF SubGroupsCounted, Undisturbed
  <2>1. Sized(w)
    BY <1>2 DEF Agreed
  <2>2. g \in Objects /\ w.grp[g] # None
    BY <1>3 DEF Live
  <2>3. Fitting(grp[g])
    BY <1>3, <2>1, <2>2 DEF Sized
  <2>4. \A s \in Subs : InitCounts(grp[g].slots)[s] = Cardinality({p \in Players : grp[g].slots[p] = s})
    BY DEF InitCounts
  <2> QED BY <2>3, <2>4 DEF Fitting
<1>8. StoredAgrees
  <2>1. IdsAgree
    BY InvParts
  <2>2. ASSUME faults \cap {"own invitation", "orphan row"} = {}, NEW e, e = Written[Len(queue)]
        PROVE  /\ \A i \in Ids : e.groups[i] = IF store[i] = None THEN None
                                               ELSE [leader |-> grp[store[i]].leader, raid |-> grp[store[i]].raid]
               /\ \A p \in Players :
                     e.members[p] = IF \E g \in Live : p \in Members(World, g)
                                    THEN LET g == CHOOSE g \in Live : p \in Members(World, g)
                                         IN  [id |-> grp[g].id, sub |-> grp[g].slots[p]]
                                    ELSE None
    <3>1. Agreed(w, d, st, ld)
      BY <1>2, <2>2
    <3>2. PICK H : Chain(H, d, w.queue) /\ Final(w, H[Len(w.queue)])
      BY <3>1 DEF Agreed, Consistent
    <3>3. queue \in Seq(Statements)
      BY <1>3, WorldParts
    <3>4. Chain(H, db, queue)
      BY <1>1, <1>3, <3>2
    <3>5. Written = H
      BY <3>3, <3>4, WrittenChain
    <3>6. Final(w, e)
      BY <1>3, <2>2, <3>2, <3>5
    <3>7. \A i \in Ids : e.groups[i] = IF store[i] = None THEN None
                                       ELSE [leader |-> grp[store[i]].leader, raid |-> grp[store[i]].raid]
      BY <1>3, <3>6 DEF Final
    <3>8. ASSUME NEW p \in Players, NEW x, x = CHOOSE g \in Live : p \in Members(World, g),
                 \E g \in Live : p \in Members(World, g)
          PROVE  e.members[p] = [id |-> grp[x].id, sub |-> grp[x].slots[p]]
      <4>1. x \in Live /\ p \in Members(World, x)
        BY <3>8
      <4>2. x \in Objects /\ Has(w, x, p)
        BY <1>5, <4>1
      <4> QED BY <1>3, <3>6, <4>2 DEF Final
    <3>9. ASSUME NEW p \in Players, ~ \E g \in Live : p \in Members(World, g)
          PROVE  e.members[p] = None
      <4>1. \A g \in Objects : ~Has(w, g, p)
        BY <1>1, <1>3, <3>9 DEF Has, Live, Members
      <4> QED BY <3>6, <4>1 DEF Final
    <3>10. \A p \in Players :
              e.members[p] = IF \E g \in Live : p \in Members(World, g)
                             THEN LET g == CHOOSE g \in Live : p \in Members(World, g)
                                  IN  [id |-> grp[g].id, sub |-> grp[g].slots[p]]
                             ELSE None
      BY <3>8, <3>9
    <3> QED BY <3>7, <3>10
  <2> QED BY <2>1, <2>2 DEF StoredAgrees, Undisturbed
<1> QED BY <1>6, <1>7, <1>8

\* A player has a slot in one group, and it is the one he points to, through
\* every accept, kick, logout, login and restart; an own invitation accepted, rows
\* that a start left behind and a login with an old membership are the only
\* exceptions (AddMember, RemoveMember, Disband, _LoadGroup, LoadGroups).
THEOREM MembershipAgrees == Spec => []MembershipMatches
<1>1. GroupsInv /\ TablesInv => MembershipMatches
  BY AgreementParts
<1> QED BY <1>1, Invariant, PTL

\* The counters of a raid are the sizes of its subgroups, and no subgroup is
\* over the limit, for any size of group and any order of joins, departures,
\* conversions and restarts, unless an own invitation was accepted or a start has
\* left rows behind (AddMember, RemoveMember, _initRaidSubGroupsCounter,
\* ConvertToGroup, LoadGroups).
THEOREM CountersAreRight == Spec => []SubGroupsCounted
<1>1. GroupsInv /\ TablesInv => SubGroupsCounted
  BY AgreementParts
<1> QED BY <1>1, Invariant, PTL

\* Once the queue is written, the tables hold exactly the groups in memory: the
\* statements of every handler, in their order, lose no row and leave none
\* behind, and neither does a start that finds a group to keep or no row without
\* one (Create, AddMember, RemoveMember, ChangeLeader, Disband, LoadGroups).
THEOREM TablesFollow == Spec => []StoredAgrees
<1>1. GroupsInv /\ TablesInv => StoredAgrees
  BY AgreementParts
<1> QED BY <1>1, Invariant, PTL
=============================================================================
