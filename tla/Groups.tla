------------------------------- MODULE Groups -------------------------------
(***************************************************************************)
(* Parties and raids: invitations, membership, leadership, and what the    *)
(* tables groups and group_member keep of them.                            *)
(*                                                                         *)
(* A group object exists from the first invitation and is created, that is *)
(* stored and given members, when somebody accepts. Players point to the   *)
(* group that has invited them (m_groupInvite) and to their group          *)
(* (m_group); groups keep slots, which outlive a player's session, and the *)
(* set of invited players. The world thread runs the handlers one at a     *)
(* time; the database follows through the queue of its one worker, and a   *)
(* player who logs in reads his membership through the same queue.         *)
(***************************************************************************)
EXTENDS Integers, Sequences, FiniteSets, FiniteSetsExt

CONSTANTS
    Players,
    Raids,          \* the raids that may have been formed already: each the subgroups of its members
    MaxGroups,      \* bound: group objects at one time
    GroupSize,      \* MAXGROUPSIZE
    SubGroups,      \* MAX_RAID_SUBGROUPS
    MaxRequests,    \* bound: requests of clients, if nobody is in a group
    MaxRaidRequests,\* bound: requests of clients, if everybody is in a raid
    MaxRestarts,    \* bound: ends of the process
    None            \* NULL, or 0

Objects == 1 .. MaxGroups
Ids == 1 .. MaxGroups + 1
Subs == 0 .. SubGroups - 1

\* A group object; the rows of groups and of group_member; a queued statement.
GroupRecs == [leader : Players, slots : [Players -> {None} \cup Subs], invitees : SUBSET Players,
              raid : BOOLEAN, counts : [Subs -> Int], id : {None} \cup Ids]
GroupRows == [leader : Players, raid : BOOLEAN]
MemberRows == [id : Ids, sub : Subs]
Statements ==
    [op : {"ins_group"}, id : Ids, p : Players, v : BOOLEAN]
    \cup [op : {"ins_member"}, id : Ids, p : Players, v : Subs]
    \cup [op : {"del_member", "load"}, id : {None}, p : Players, v : {None}]
    \cup [op : {"leader"}, id : Ids, p : Players, v : {None}]
    \cup [op : {"type"}, id : Ids, p : {None}, v : BOOLEAN]
    \cup [op : {"del_group"}, id : Ids, p : {None}, v : {None}]

\* The raids that were formed before have members, and places for them.
ASSUME GroupsAssumption ==
    /\ IsFiniteSet(Players)
    /\ MaxGroups \in Nat \ {0} /\ GroupSize \in Nat \ {0, 1} /\ SubGroups \in Nat \ {0}
    /\ MaxRequests \in Nat /\ MaxRaidRequests \in Nat /\ MaxRestarts \in Nat
    /\ Raids \subseteq [Players -> Subs]
    /\ \A slots \in Raids, s \in Subs : Cardinality({p \in Players : slots[p] = s}) <= GroupSize

\* NULL is none of the values.
ASSUME NullAssumption ==
    /\ None \notin Players \cup Nat
    /\ None \notin GroupRecs \cup GroupRows \cup MemberRows \cup [{1} -> {None} \cup MemberRows]

VARIABLES
    grp,        \* the group objects
    link,       \* Player::m_group
    orig,       \* Player::m_originalGroup
    invite,     \* Player::m_groupInvite
    store,      \* GroupDbStore: the group of a storage identifier
    next,       \* NextGroupDbStoreId
    queue,      \* the queue of CharacterDatabase
    db,         \* the tables groups and group_member
    status,     \* "off", "loading", "in" the world, or "zoning" between two maps
    loaded,     \* the membership that a player's login has read
    left,       \* requests left
    restarts,
    faults      \* history: what has happened that the properties must allow for

vars == <<grp, link, orig, invite, store, next, queue, db, status, loaded, left, restarts, faults>>

\* The part of the state that the operations of a group change.
World == [grp |-> grp, link |-> link, orig |-> orig, invite |-> invite, store |-> store, next |-> next, queue |-> queue]

Becomes(w) ==
    /\ grp' = w.grp /\ link' = w.link /\ orig' = w.orig /\ invite' = w.invite
    /\ store' = w.store /\ next' = w.next /\ queue' = w.queue

NoCounts == [s \in Subs |-> 0]

NoSlots == [p \in Players |-> None]

\* Group::Group
NewGroup(leader) == [leader |-> leader, slots |-> NoSlots, invitees |-> {}, raid |-> FALSE,
                     counts |-> NoCounts, id |-> None]

\* _initRaidSubGroupsCounter
InitCounts(slots) == [s \in Subs |-> Cardinality({p \in Players : slots[p] = s})]

\* Nobody is in a group, or everybody is in one raid that is stored.
Init ==
    /\ \/ /\ grp = [g \in Objects |-> None] /\ store = [i \in Ids |-> None] /\ next = 1
          /\ link = [p \in Players |-> None] /\ left = MaxRequests
          /\ db = [groups |-> [i \in Ids |-> None], members |-> [p \in Players |-> None]]
       \/ \E slots \in Raids, l \in Players :
             /\ grp = [g \in Objects |-> IF g > 1 THEN None
                         ELSE [NewGroup(l) EXCEPT !.slots = slots, !.raid = TRUE, !.counts = InitCounts(slots), !.id = 1]]
             /\ store = [i \in Ids |-> IF i > 1 THEN None ELSE 1] /\ next = 2
             /\ link = [p \in Players |-> 1] /\ left = MaxRaidRequests
             /\ db = [groups  |-> [i \in Ids |-> IF i > 1 THEN None ELSE [leader |-> l, raid |-> TRUE]],
                      members |-> [p \in Players |-> [id |-> 1, sub |-> slots[p]]]]
    /\ orig = [p \in Players |-> None] /\ invite = [p \in Players |-> None]
    /\ queue = <<>>
    /\ status = [p \in Players |-> "in"] /\ loaded = [p \in Players |-> None]
    /\ restarts = 0 /\ faults = {}

Members(w, g) == {p \in Players : w.grp[g].slots[p] # None}

IsCreated(w, g) == Members(w, g) # {}

IsFull(w, g) ==
    Cardinality(Members(w, g)) >= IF w.grp[g].raid THEN GroupSize * SubGroups ELSE GroupSize

\* ObjectAccessor::FindPlayer sees the players in the world only.
FindPlayer(p) == status[p] = "in"

-----------------------------------------------------------------------------
(***************************************************************************)
(* The database.                                                           *)
(***************************************************************************)
Op(op, id, p, v) == [op |-> op, id |-> id, p |-> p, v |-> v]

Queue(w, o) == [w EXCEPT !.queue = Append(@, o)]

\* What a statement does; memberGuid and guid are primary keys, so an INSERT of
\* one that is there fails.
Apply(d, o) ==
    CASE o.op = "ins_group"  -> [d EXCEPT !.groups[o.id] = IF @ = None THEN [leader |-> o.p, raid |-> o.v] ELSE @]
      [] o.op = "ins_member" -> [d EXCEPT !.members[o.p] = IF @ = None THEN [id |-> o.id, sub |-> o.v] ELSE @]
      [] o.op = "del_member" -> [d EXCEPT !.members[o.p] = None]
      [] o.op = "leader"     -> [d EXCEPT !.groups[o.id] = IF @ = None THEN @ ELSE [@ EXCEPT !.leader = o.p]]
      [] o.op = "type"       -> [d EXCEPT !.groups[o.id] = IF @ = None THEN @ ELSE [@ EXCEPT !.raid = o.v]]
      [] o.op = "del_group"  -> [groups  |-> [d.groups EXCEPT ![o.id] = None],
                                 members |-> [p \in Players |-> IF d.members[p] # None /\ d.members[p].id = o.id
                                                                THEN None ELSE d.members[p]]]
      [] o.op = "load"       -> d

DatabaseWorker ==
    /\ queue # <<>>
    /\ queue' = Tail(queue)
    /\ db' = Apply(db, Head(queue))
    /\ loaded' = IF Head(queue).op = "load"
                 THEN [loaded EXCEPT ![Head(queue).p] = <<db.members[Head(queue).p]>>] ELSE loaded
    /\ UNCHANGED <<grp, link, orig, invite, store, next, status, left, restarts, faults>>

-----------------------------------------------------------------------------
(***************************************************************************)
(* Group, GroupMgr: each operator is a method, as the state it leaves.     *)
(***************************************************************************)
AddInvite(w, g, p) == [w EXCEPT !.grp[g].invitees = @ \cup {p}, !.invite[p] = g]

RemoveInvite(w, g, p) == [w EXCEPT !.grp[g].invitees = @ \ {p}, !.invite[p] = None]

RemoveAllInvites(w, g) ==
    [w EXCEPT !.invite = [p \in Players |-> IF p \in w.grp[g].invitees THEN None ELSE w.invite[p]],
              !.grp[g].invitees = {}]

Without(ref, g) == [p \in Players |-> IF ref[p] = g THEN None ELSE ref[p]]

\* ~Group: the reference manager cuts the links that are left.
DeleteGroup(w, g) == [w EXCEPT !.link = Without(@, g), !.orig = Without(@, g), !.grp[g] = None]

\* GenerateNewGroupDbStoreId takes the next identifier and looks for the one
\* after it that is free.
NextStoreId(w) == Min({i \in Ids : i > w.next /\ w.store[i] = None} \cup {MaxGroups + 2})

FreeGroupDbStoreId(w, id) == [w EXCEPT !.store[id] = None, !.next = IF id < @ THEN id ELSE @]

\* Mutant: Disband without RemoveAllInvites.
Disband_KeepInvites(w, g) ==
    LET removed == Queue([w EXCEPT !.link = [p \in Players |->
                            IF p \in Members(w, g) /\ FindPlayer(p) /\ w.orig[p] # g THEN None ELSE w.link[p]]],
                         Op("del_group", w.grp[g].id, None, None))
    IN  DeleteGroup(FreeGroupDbStoreId(removed, w.grp[g].id), g)

Disband(w, g) ==
    LET unlinked == [w EXCEPT !.link = [p \in Players |->
                        IF p \in Members(w, g) /\ FindPlayer(p) /\ w.orig[p] # g THEN None ELSE w.link[p]]]
        removed == Queue(RemoveAllInvites(unlinked, g), Op("del_group", w.grp[g].id, None, None))
    IN  DeleteGroup(FreeGroupDbStoreId(removed, w.grp[g].id), g)

\* The first subgroup of a raid that has a place; a party has no counters.
FreeSub(w, g) ==
    IF w.grp[g].raid THEN Min({s \in Subs : w.grp[g].counts[s] < GroupSize} \cup {SubGroups}) ELSE 0

SubGroupCounterIncrease(c, s) == [c EXCEPT ![s] = @ + 1]
SubGroupCounterDecrease(c, s) == [c EXCEPT ![s] = @ - 1]

\* A player who has a group already keeps it, and has this one as his original
\* group: meant for battlegrounds.
AddMember(w, g, p) ==
    LET s == FreeSub(w, g)
        v == [w EXCEPT !.grp[g].slots[p] = s,
                       !.grp[g].counts = IF w.grp[g].raid THEN SubGroupCounterIncrease(@, s) ELSE @,
                       !.invite[p] = None,
                       !.link[p] = IF @ = None THEN g ELSE @,
                       !.orig[p] = IF w.link[p] = None THEN @ ELSE g]
    IN  IF s \notin Subs THEN w ELSE Queue(v, Op("ins_member", w.grp[g].id, p, s))

Create(w, g) ==
    LET id == w.next
        v == [w EXCEPT !.grp[g].id = id, !.store[id] = g, !.next = NextStoreId(w)]
    IN  AddMember(Queue(v, Op("ins_group", id, w.grp[g].leader, w.grp[g].raid)), g, w.grp[g].leader)

\* Mutant: ChangeLeader without CHAR_UPD_GROUP_LEADER.
ChangeLeader_NotStored(w, g, p) == [w EXCEPT !.grp[g].leader = p]

ChangeLeader(w, g, p) == Queue([w EXCEPT !.grp[g].leader = p], Op("leader", w.grp[g].id, p, None))

\* Mutant: RemoveMember without SubGroupCounterDecrease.
TakeOut_StillCounted(w, g, p) ==
    [Queue([w EXCEPT !.link[p] = None, !.orig[p] = IF @ = g THEN None ELSE @], Op("del_member", None, p, None))
        EXCEPT !.grp[g].slots[p] = None]

\* Mutant: RemoveMember without DelinkMember: a player between two maps stays linked.
TakeOut_NoDelink(w, g, p) ==
    LET s == w.grp[g].slots[p]
        v == Queue([w EXCEPT !.link[p] = IF FindPlayer(p) THEN None ELSE @], Op("del_member", None, p, None))
    IN  IF s = None THEN v
        ELSE [v EXCEPT !.grp[g].slots[p] = None,
                       !.grp[g].counts = IF w.grp[g].raid THEN SubGroupCounterDecrease(@, s) ELSE @]

\* Group::RemoveMember, up to the slot: SetGroup or SetOriginalGroup for a player
\* in the world, DelinkMember for any other.
TakeOut(w, g, p) ==
    LET s == w.grp[g].slots[p]
        v == Queue([w EXCEPT !.link[p] = IF (FindPlayer(p) /\ w.orig[p] # g) \/ @ = g THEN None ELSE @,
                             !.orig[p] = IF @ = g THEN None ELSE @],
                   Op("del_member", None, p, None))
    IN  IF s = None THEN v
        ELSE [v EXCEPT !.grp[g].slots[p] = None,
                       !.grp[g].counts = IF w.grp[g].raid THEN SubGroupCounterDecrease(@, s) ELSE @]

Candidates(w, g, p) == {q \in Members(w, g) \ {p} : FindPlayer(q)}

\* Mutant: RemoveMember without a new leader.
RemoveMember_SameLeader(w, g, p, new) ==
    IF Cardinality(Members(w, g)) <= 2 THEN Disband(w, g)
    ELSE LET out == TakeOut(w, g, p)
         IN  IF Cardinality({q \in Players : g \in {out.link[q], out.orig[q]}}) < 2 THEN Disband(out, g) ELSE out

\* A group of two is disbanded. Else the slot goes, another member in the world
\* becomes leader if need be (new is one of them, if there is one), and the group
\* is disbanded when fewer than two players are linked.
RemoveMember(w, g, p, new) ==
    IF Cardinality(Members(w, g)) <= 2 THEN Disband(w, g)
    ELSE LET out == TakeOut(w, g, p)
             led == IF w.grp[g].leader = p /\ new # None THEN ChangeLeader(out, g, new) ELSE out
         IN  IF Cardinality({q \in Players : g \in {led.link[q], led.orig[q]}}) < 2 THEN Disband(led, g) ELSE led

\* The members that the search for a new leader may end at.
Heirs(w, g, p) == IF Candidates(w, g, p) = {} THEN {None} ELSE Candidates(w, g, p)

\* Player::UninviteFromGroup
UninviteFromGroup(w, p) ==
    IF w.invite[p] = None THEN w
    ELSE LET g == w.invite[p]
             v == RemoveInvite(w, g, p)
         IN  IF Cardinality(Members(v, g)) > 1 THEN v
             ELSE IF IsCreated(v, g) THEN Disband(v, g)
             ELSE DeleteGroup(RemoveAllInvites(v, g), g)

-----------------------------------------------------------------------------
(***************************************************************************)
(* The handlers.                                                           *)
(***************************************************************************)
Request(p) ==
    /\ left > 0 /\ left' = left - 1
    /\ status[p] = "in"

NoOther == UNCHANGED <<db, status, loaded, restarts>>

\* A pointer to a group that has been deleted.
Dangling(p) == invite[p] # None /\ grp[invite[p]] = None

\* The addresses a new group may get: the first free one, or one that a pointer
\* still holds. Both may happen: the allocator may use freed memory again.
Address(g) ==
    /\ grp[g] = None
    /\ \A h \in Objects : grp[h] = None => g <= h \/ \E r \in Players : invite[r] = h

\* HandleGroupInviteOpcode: a player without a group starts one, which holds his
\* own invitation and the other player's.
Invite(p, q) ==
    /\ Request(p)
    /\ p # q /\ FindPlayer(q)
    /\ link[q] = None /\ invite[q] = None
    /\ \/ /\ link[p] # None
          /\ grp[link[p]].leader = p /\ ~IsFull(World, link[p])
          /\ Becomes(AddInvite(World, link[p], q))
       \/ /\ link[p] = None /\ invite[p] = None
          /\ \E g \in Objects :
                /\ Address(g)
                /\ Becomes(AddInvite(AddInvite([World EXCEPT !.grp[g] = NewGroup(p)], g, p), g, q))
    /\ NoOther /\ UNCHANGED faults

\* HandleGroupInviteOpcode with the player's own name. The group holds him as its
\* leader, so AddInvite refuses him, and the group is deleted with his pointer to
\* it still set.
InviteSelf(p) ==
    /\ Request(p)
    /\ link[p] = None /\ invite[p] = None
    /\ \E g \in Objects :
          /\ Address(g)
          /\ Becomes(DeleteGroup(AddInvite([World EXCEPT !.grp[g] = NewGroup(p)], g, p), g))
    /\ faults' = faults \cup {"self invitation"}
    /\ NoOther

\* HandleGroupInviteResponseOpcode, accepted. The group that nobody accepted yet
\* is created by the first to accept, if its leader is in the world; if he is
\* not, it is left with no pointer to it.
Accept(p) ==
    /\ Request(p)
    /\ invite[p] # None /\ ~Dangling(p)
    /\ LET g == invite[p]
           w == RemoveInvite(World, g, p)
           l == grp[g].leader
       IN  /\ Becomes(CASE l = p \/ IsFull(w, g) -> w
                        [] l # p /\ ~IsFull(w, g) /\ IsCreated(w, g) -> AddMember(w, g, p)
                        [] l # p /\ ~IsCreated(w, g) /\ ~FindPlayer(l) -> DeleteGroup(RemoveAllInvites(w, g), g)
                        [] l # p /\ ~IsCreated(w, g) /\ FindPlayer(l) ->
                              AddMember(Create(RemoveInvite(w, g, l), g), g, p))
           /\ faults' = IF l = p THEN faults \cup {"own invitation"} ELSE faults
    /\ NoOther

\* HandleGroupInviteResponseOpcode, accepted, with a pointer to freed memory that
\* still reads as it was left: the leader is the player himself. Every other use
\* of such a pointer (here, Decline, Logout, Uninvite) frees the memory again or
\* reads what took its place, and ends the process: Restart.
AcceptFreed(p) ==
    /\ Request(p)
    /\ Dangling(p)
    /\ Becomes([World EXCEPT !.invite[p] = None])
    /\ NoOther /\ UNCHANGED faults

\* HandleGroupInviteResponseOpcode, declined.
Decline(p) ==
    /\ Request(p)
    /\ invite[p] # None /\ ~Dangling(p)
    /\ Becomes(UninviteFromGroup(World, p))
    /\ NoOther /\ UNCHANGED faults

\* HandleGroupUninviteGuidOpcode: the leader kicks a member or takes an
\* invitation back.
Uninvite(p, q) ==
    /\ Request(p)
    /\ p # q /\ link[p] # None
    /\ LET g == link[p]
       IN  /\ grp[g].leader = p
           /\ \/ /\ q \in Members(World, g)
                 /\ Becomes(RemoveMember(World, g, q, None))
              \/ /\ q \notin Members(World, g) /\ q \in grp[g].invitees /\ ~Dangling(q)
                 /\ Becomes(UninviteFromGroup(World, q))
    /\ NoOther /\ UNCHANGED faults

\* HandleGroupSetLeaderOpcode
SetLeader(p, q) ==
    /\ Request(p)
    /\ link[p] # None /\ grp[link[p]].leader = p
    /\ FindPlayer(q) /\ link[q] = link[p]
    /\ q \in Members(World, link[p])
    /\ Becomes(ChangeLeader(World, link[p], q))
    /\ NoOther /\ UNCHANGED faults

\* HandleGroupRaidConvertOpcode: a raid too large to be a party stays one.
RaidConvert(p, toRaid) ==
    /\ Request(p)
    /\ link[p] # None
    /\ LET g == link[p]
       IN  /\ grp[g].leader = p /\ Cardinality(Members(World, g)) >= 2
           /\ toRaid \/ Cardinality(Members(World, g)) <= GroupSize
           /\ Becomes(Queue([World EXCEPT !.grp[g].raid = toRaid,
                                          !.grp[g].counts = IF toRaid THEN InitCounts(grp[g].slots) ELSE NoCounts],
                            Op("type", grp[g].id, None, toRaid)))
    /\ NoOther /\ UNCHANGED faults

\* History: the leader p leaves a group that goes on, and no other member of it
\* is in the world.
Orphaned(p) ==
    IF \E g \in Objects :
          /\ grp[g] # None /\ grp'[g] # None
          /\ grp[g].leader = p /\ Candidates(World, g, p) = {}
          /\ grp[g].slots[p] # grp'[g].slots[p]
    THEN {"no heir"} ELSE {}

\* HandleGroupDisbandOpcode: the player leaves.
Leave(p) ==
    /\ Request(p)
    /\ link[p] # None
    /\ \E new \in Heirs(World, link[p], p) : Becomes(RemoveMember(World, link[p], p, new))
    /\ faults' = faults \cup Orphaned(p)
    /\ NoOther

\* LogoutPlayer: a transfer is finished first; the invitation goes, and with a
\* socket still there the place in a party (not in a raid) too. The player's own
\* link goes with him.
Logout(p, socket) ==
    /\ left > 0 /\ left' = left - 1
    /\ status[p] \in {"in", "zoning"} /\ ~Dangling(p)
    /\ LET w == UninviteFromGroup(World, p)
           Gone(v) == [v EXCEPT !.link[p] = None, !.orig[p] = None]
       IN  IF w.link[p] # None /\ ~w.grp[w.link[p]].raid /\ socket
           THEN \E new \in Heirs(w, w.link[p], p) : Becomes(Gone(RemoveMember(w, w.link[p], p, new)))
           ELSE Becomes(Gone(w))
    /\ status' = [status EXCEPT ![p] = "off"]
    /\ faults' = faults \cup Orphaned(p)
    /\ UNCHANGED <<db, loaded, restarts>>

\* HandlePlayerLoginOpcode: the membership is among the queries of the holder.
AskLogin(p) ==
    /\ left > 0 /\ left' = left - 1
    /\ status[p] = "off"
    /\ status' = [status EXCEPT ![p] = "loading"]
    /\ loaded' = [loaded EXCEPT ![p] = None]
    /\ Becomes(Queue(World, Op("load", None, p, None)))
    /\ UNCHANGED <<db, restarts, faults>>

\* Player::_LoadGroup: the group that now has the identifier which was read.
Login(p) ==
    /\ status[p] = "loading" /\ loaded[p] # None
    /\ LET g == IF loaded[p][1] = None THEN None ELSE store[loaded[p][1].id]
       IN  /\ link' = [link EXCEPT ![p] = g]
           /\ faults' = IF g # None /\ p \notin Members(World, g) THEN faults \cup {"stale login"} ELSE faults
    /\ status' = [status EXCEPT ![p] = "in"]
    /\ loaded' = [loaded EXCEPT ![p] = None]
    /\ UNCHANGED <<grp, orig, invite, store, next, queue, db, left, restarts>>

\* A far teleport: out of the world and in again.
Zone(p) ==
    /\ Request(p)
    /\ status' = [status EXCEPT ![p] = "zoning"]
    /\ UNCHANGED <<grp, link, orig, invite, store, next, queue, db, loaded, restarts, faults>>

Arrive(p) ==
    /\ status[p] = "zoning"
    /\ status' = [status EXCEPT ![p] = "in"]
    /\ UNCHANGED <<grp, link, orig, invite, store, next, queue, db, loaded, left, restarts, faults>>

-----------------------------------------------------------------------------
(***************************************************************************)
(* The end of the process and LoadGroups.                                  *)
(***************************************************************************)
\* The groups that the start keeps: at least two members.
Kept == {i \in Ids : db.groups[i] # None
                     /\ Cardinality({p \in Players : db.members[p] # None /\ db.members[p].id = i}) > 1}

\* LoadGroupFromDB and LoadMemberFromDB
StoredSlots(i) ==
    [p \in Players |-> IF db.members[p] # None /\ db.members[p].id = i THEN db.members[p].sub ELSE None]
StoredGroup(i) ==
    [leader |-> db.groups[i].leader, slots |-> StoredSlots(i), invitees |-> {}, raid |-> db.groups[i].raid,
     counts |-> IF db.groups[i].raid THEN InitCounts(StoredSlots(i)) ELSE NoCounts, id |-> i]

\* Each group becomes an object of its own.
Separate(f) == \A i, j \in Kept : f[i] = f[j] => i = j

\* The members whose group is not kept.
Orphans == {p \in Players : db.members[p] # None /\ db.members[p].id \notin Kept}

\* LoadGroups returns before it clears the members that have no group, if no group
\* is kept.
Restart ==
    /\ restarts < MaxRestarts /\ restarts' = restarts + 1
    /\ \E f \in [Kept -> Objects] : Separate(f)
    /\ LET object == CHOOSE f \in [Kept -> Objects] : Separate(f)
       IN  /\ grp' = [g \in Objects |-> IF \E i \in Kept : object[i] = g
                                        THEN StoredGroup(CHOOSE i \in Kept : object[i] = g) ELSE None]
           /\ store' = [i \in Ids |-> IF i \in Kept THEN object[i] ELSE None]
    /\ db' = [groups  |-> [i \in Ids |-> IF i \in Kept THEN db.groups[i] ELSE None],
              members |-> [p \in Players |-> IF Kept # {} /\ p \in Orphans THEN None ELSE db.members[p]]]
    /\ faults' = faults \cup (IF \E i \in Kept : StoredSlots(i)[db.groups[i].leader] = None
                              THEN {"leader lost"} ELSE {})
                        \cup (IF Kept = {} /\ Orphans # {} THEN {"orphan row"} ELSE {})
    /\ next' = Min(Ids \ Kept)
    /\ link' = [p \in Players |-> None] /\ orig' = link' /\ invite' = [p \in Players |-> None]
    /\ queue' = <<>>
    /\ status' = [p \in Players |-> "off"] /\ loaded' = [p \in Players |-> None]
    /\ UNCHANGED left

Next ==
    \/ DatabaseWorker \/ Restart
    \/ \E p \in Players :
          \/ InviteSelf(p) \/ Accept(p) \/ AcceptFreed(p) \/ Decline(p) \/ Leave(p)
          \/ AskLogin(p) \/ Login(p) \/ Zone(p) \/ Arrive(p)
          \/ \E b \in BOOLEAN : RaidConvert(p, b) \/ Logout(p, b)
          \/ \E q \in Players : Invite(p, q) \/ Uninvite(p, q) \/ SetLeader(p, q)

Spec == Init /\ [][Next]_vars

-----------------------------------------------------------------------------
(***************************************************************************)
(* Properties. "own invitation": a player has accepted his own invitation. *)
(* "self invitation": a player has invited himself. "stale login": a       *)
(* player came in with a membership that was gone by then. "leader lost":  *)
(* the process ended between the removal of a leader and the storing of    *)
(* the next one. "no heir": a leader left while every other member was     *)
(* between two maps, and the group kept him as leader. "orphan row": a     *)
(* start that found no group has left rows of members in the table.        *)
(***************************************************************************)
Live == {g \in Objects : grp[g] # None}

\* Every part of the state has its type (Group.h 339-360, Player.h 2788-2790).
TypeOK ==
    /\ grp \in [Objects -> {None} \cup GroupRecs]
    /\ link \in [Players -> {None} \cup Objects]
    /\ orig \in [Players -> {None} \cup Objects]
    /\ invite \in [Players -> {None} \cup Objects]
    /\ store \in [Ids -> {None} \cup Objects]
    /\ next \in Ids
    /\ queue \in Seq(Statements)
    /\ db \in [groups : [Ids -> {None} \cup GroupRows], members : [Players -> {None} \cup MemberRows]]
    /\ status \in [Players -> {"off", "loading", "in", "zoning"}]
    /\ loaded \in [Players -> {None} \cup [{1} -> {None} \cup MemberRows]]
    /\ left \in Nat /\ restarts \in Nat
    /\ faults \subseteq {"own invitation", "self invitation", "stale login", "leader lost", "no heir", "orphan row"}

\* An invitation is known on both sides: a player points to a group that exists
\* and lists him, unless somebody has invited himself, and no group lists a player
\* who has logged out or was invited elsewhere, unless somebody has accepted his
\* own invitation (AddInvite, RemoveInvite, UninviteFromGroup and the ways a group
\* is deleted).
InvitationsMatch ==
    /\ "self invitation" \notin faults =>
          \A p \in Players : invite[p] # None => invite[p] \in Live /\ p \in grp[invite[p]].invitees
    /\ "own invitation" \notin faults =>
          \A g \in Live : \A p \in grp[g].invitees : invite[p] = g /\ status[p] \in {"in", "zoning"}

\* Every player who has an invitation has it from a group that exists and lists
\* him: what HandleGroupInviteOpcode takes GetGroupInvite to mean.
InvitedByAGroup ==
    \A p \in Players : invite[p] # None => invite[p] \in Live /\ p \in grp[invite[p]].invitees

\* Neither of the two faults that put a player into two groups, or his row into
\* another one than his group, has happened.
Undisturbed == faults \cap {"own invitation", "orphan row"} = {}

\* A player has a slot in one group, and it is the one he points to; only one who
\* came in with an old membership may point to a group that has no slot for him,
\* and only after somebody has accepted his own invitation, or a start has left
\* rows behind, may a player have two slots (AddMember, RemoveMember, Disband,
\* _LoadGroup, LoadGroups).
MembershipMatches ==
    /\ \A p \in Players : link[p] # None => link[p] \in Live
    /\ Undisturbed =>
          /\ \A g, h \in Live : g # h => Members(World, g) \cap Members(World, h) = {}
          /\ \A g \in Live : \A p \in Members(World, g) : status[p] \in {"in", "zoning"} => link[p] = g
    /\ Undisturbed /\ "stale login" \notin faults =>
          \A p \in Players : link[p] # None => p \in Members(World, link[p])

\* A group that has members is led by one of them, through every departure,
\* kick, logout and restart that stored the last change of leader, if an heir
\* was in the world (RemoveMember, ChangeLeader, LoadGroups).
LeaderIsMember ==
    faults \cap {"leader lost", "own invitation", "no heir"} = {} =>
        \A g \in Live : IsCreated(World, g) => grp[g].leader \in Members(World, g)

\* The counters that place a new member are the sizes of the subgroups, and none
\* is over the limit, through conversions to a raid and back, unless somebody
\* who accepted his own invitation is added twice or a row that a start has left
\* behind joins another group (AddMember, _initRaidSubGroupsCounter,
\* ConvertToGroup, LoadMemberFromDB).
SubGroupsCounted ==
    Undisturbed =>
        \A g \in Live :
            LET sizes == InitCounts(grp[g].slots)
            IN  /\ grp[g].raid => grp[g].counts = sizes
                /\ \A s \in Subs : sizes[s] <= GroupSize

\* Two groups never share a storage identifier, the store knows no other groups
\* than the ones in memory, and the next identifier to be given is free
\* (GenerateNewGroupDbStoreId, FreeGroupDbStoreId, LoadGroups).
IdsAgree ==
    /\ \A g \in Live : IsCreated(World, g) => store[grp[g].id] = g
    /\ \A i \in Ids : store[i] # None => store[i] \in Live /\ grp[store[i]].id = i
    /\ store[next] = None

\* The tables once the first n of the queued statements are written.
Written[n \in 0 .. Len(queue)] == IF n = 0 THEN db ELSE Apply(Written[n - 1], queue[n])

\* The identifiers agree and, once what is queued is written, the tables hold
\* exactly the groups in memory, with their leaders, kinds, members and subgroups:
\* a restart rebuilds them, unless an earlier one has left rows behind (every
\* handler's statements, in their order, and LoadGroups).
StoredAgrees ==
    /\ IdsAgree
    /\ Undisturbed =>
           LET d == Written[Len(queue)]
           IN  /\ \A i \in Ids : d.groups[i] = IF store[i] = None THEN None
                                               ELSE [leader |-> grp[store[i]].leader, raid |-> grp[store[i]].raid]
               /\ \A p \in Players :
                     d.members[p] = IF \E g \in Live : p \in Members(World, g)
                                    THEN LET g == CHOOSE g \in Live : p \in Members(World, g)
                                         IN  [id |-> grp[g].id, sub |-> grp[g].slots[p]]
                                    ELSE None
=============================================================================
