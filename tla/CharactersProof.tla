-------------------------- MODULE CharactersProof ---------------------------
(***************************************************************************)
(* Proofs about Characters, for every set of accounts and names and any    *)
(* number of characters, requests and ends of the process.                 *)
(***************************************************************************)
EXTENDS Characters, FiniteSetTheorems, WellFoundedInduction, TLAPS

(* What the two queues hold: an operation that names a character has one,  *)
(* and an answer goes to the future its account asked with.                *)
Values == {None} \cup BOOLEAN \cup Nat \cup Names
Places == {Nobody} \cup (Accounts \X {"enum", "create", "login"})
Kinds == {"insert", "save", "delete", "online", "offline", "total", "enum", "name", "count",
          "info", "load", "dropchars", "numchars", "sum"}
OpSet == [op : Kinds, a : Accounts, g : {None} \cup Guids, n : Values, to : Places]
CharOp(o) ==
    /\ o.op \in {"insert", "save", "delete", "online", "load"} => o.g \in Guids
    /\ o.op = "insert" => o.n \in Names
    /\ o.op = "save" => o.n \in Nat
    /\ \/ o.to = Nobody
       \/ o.to = <<o.a, "enum">> /\ o.op = "enum"
       \/ o.to = <<o.a, "login">> /\ o.op = "load"
       \/ o.to = <<o.a, "create">> /\ o.op \in {"name", "count", "info"}
LoginOp(o) ==
    /\ o.op = "online" => o.n \in BOOLEAN
    /\ o.op = "numchars" => o.n \in Nat
    /\ \/ o.to = Nobody
       \/ o.to = <<o.a, "create">> /\ o.op = "sum"
CharOps == {o \in OpSet : CharOp(o)}
LoginOps == {o \in OpSet : LoginOp(o)}

Queued == charQ \in Seq(CharOps) /\ loginQ \in Seq(LoginOps)

(* A future waits while the operation that fills it is queued, once.       *)
Serves(o, a, s) ==
    /\ o.to = <<a, "enum">> => s # None
    /\ o.to = <<a, "create">> => s # None /\ s.create = Waiting
    /\ o.to = <<a, "login">> => s # None /\ s.login = Waiting /\ s.holder = o.g
Wired ==
    /\ \A i \in DOMAIN charQ, a \in Accounts : Serves(charQ[i], a, sess[a])
    /\ \A i \in DOMAIN loginQ, a \in Accounts : Serves(loginQ[i], a, sess[a])
    /\ \A i, j \in DOMAIN charQ : i # j /\ charQ[i].to = charQ[j].to => charQ[i].to = Nobody
    /\ \A i, j \in DOMAIN loginQ : i # j /\ loginQ[i].to = loginQ[j].to => loginQ[i].to = Nobody
    /\ \A i \in DOMAIN charQ, j \in DOMAIN loginQ :
          charQ[i].to = loginQ[j].to => charQ[i].to = Nobody

(* The fields of one session agree.                                        *)
Paired ==
    \A a \in Accounts : sess[a] # None =>
        /\ sess[a].create = None <=> sess[a].info = None
        /\ sess[a].login = None <=> sess[a].holder = None
        /\ sess[a].login # None => sess[a].loading
        /\ sess[a].loading => sess[a].player = None

Base == TypeOK /\ Queued /\ Wired /\ Paired

-----------------------------------------------------------------------------
IsDelete(i, g) == charQ[i].op = "delete" /\ charQ[i].g = g
IsSave(i, g) == charQ[i].op = "save" /\ charQ[i].g = g
IsInsert(i, g) == charQ[i].op = "insert" /\ charQ[i].g = g
Live(i, a) == charQ[i].to = <<a, "login">>

(* A character that is not raced: a load that found it finds it stored     *)
(* until it is in the world.                                               *)
StoredAndKept(g) == row[g] # None /\ \A i \in DOMAIN charQ : ~IsDelete(i, g)
LoadThenDelete ==
    \A i, j \in DOMAIN charQ, a \in Accounts :
        i < j /\ Live(i, a) /\ IsDelete(j, charQ[i].g) => charQ[i].g \in raced
Found(a) == sess[a] # None /\ Ready(sess[a].login) /\ sess[a].login[1] # None
FoundIsKept ==
    \A a \in Accounts : Found(a) /\ sess[a].holder \notin raced => StoredAndKept(sess[a].holder)
StoredInv == LoadThenDelete /\ FoundIsKept /\ InWorldIsStored

(* Identifiers and owners.                                                 *)
Pending(g) == \E i \in DOMAIN charQ : IsInsert(i, g)
Unsaved(g) == \A i \in DOMAIN charQ : ~IsSave(i, g)
Claims(a) ==
    IF sess[a] = None THEN {}
    ELSE sess[a].legit \cup (IF Ready(sess[a].enum) THEN sess[a].enum ELSE {})
         \cup ({sess[a].holder, sess[a].player} \ {None})
Blank(g) == row[g] = None /\ version[g] = 0 /\ Unsaved(g)
FreshInv ==
    /\ \A g \in Guids : g >= nextGuid => Blank(g) /\ ~Pending(g)
    /\ \A g \in Guids : Pending(g) => Blank(g)
    /\ \A i, j \in DOMAIN charQ : i # j /\ charQ[i].op = "insert" /\ charQ[j].op = "insert"
          => charQ[i].g # charQ[j].g
Known(a, g) == g < nextGuid /\ ~Pending(g) /\ (row[g] # None => row[g].acct = a)
OwnedInv ==
    /\ \A a \in Accounts : \A g \in Claims(a) : Known(a, g)
    /\ \A a, b \in Accounts : a # b => Claims(a) \cap Claims(b) = {}

(* Versions.                                                               *)
LastSave(k, g) == IsSave(k, g) /\ \A j \in DOMAIN charQ : j > k => ~IsSave(j, g)
CurrentInv ==
    \A g \in Guids : ~InWorld(g) =>
        /\ \A k \in DOMAIN charQ : LastSave(k, g) => charQ[k].n = version[g]
        /\ Unsaved(g) /\ row[g] # None => row[g].ver = version[g]
SaveThenLoad ==
    \A i, j \in DOMAIN charQ, a \in Accounts : Live(i, a) /\ IsSave(j, charQ[i].g) => j < i
FoundIsLatest ==
    \A a \in Accounts : Found(a) =>
        Unsaved(sess[a].holder) /\ sess[a].login[1].ver = version[sess[a].holder]
LatestInv == CurrentInv /\ SaveThenLoad /\ FoundIsLatest

(* The chain of a creation, of an account that is not hasty.               *)
Awaits(i, a) == charQ[i].to = <<a, "create">>
Chain ==
    /\ \A i \in DOMAIN charQ, a \in Accounts : Awaits(i, a) /\ charQ[i].op = "name" =>
          charQ[i].n = sess[a].info
    /\ \A i \in DOMAIN charQ, a \in Accounts \ hasty : Awaits(i, a) =>
          /\ charQ[i].op = "name" => sess[a].stage = 0
          /\ charQ[i].op = "count" => sess[a].stage = 2
          /\ charQ[i].op = "info" => sess[a].stage = 3
    /\ \A i \in DOMAIN loginQ, a \in Accounts \ hasty :
          loginQ[i].to = <<a, "create">> => sess[a].stage = 1
InsertBy(i, a) == charQ[i].op = "insert" /\ charQ[i].a = a
LimitInv ==
    /\ \A a \in Accounts \ hasty, i, j \in DOMAIN charQ :
          Awaits(i, a) /\ charQ[i].op = "count" /\ InsertBy(j, a) => j < i
    /\ \A a \in Accounts \ hasty : sess[a] # None =>
          /\ sess[a].stage = 2 /\ Ready(sess[a].create) =>
                sess[a].create.rows /\ Cardinality(Characters(a)) <= sess[a].create.num
          /\ sess[a].stage = 3 =>
                sess[a].count < PerRealm /\ Cardinality(Characters(a)) <= sess[a].count
    /\ RealmLimit

(* Names.                                                                  *)
NamedInsert(i, n) == charQ[i].op = "insert" /\ charQ[i].n = n
Unused(n) == \A g \in Guids : row[g] # None => row[g].name # n
Asks(a, n) == sess[a] # None /\ sess[a].info = n
OneCreation ==
    \A n \in Names \ contended :
        /\ \A a, b \in Accounts : Asks(a, n) /\ Asks(b, n) => a = b
        /\ \A a \in Accounts, i \in DOMAIN charQ : Asks(a, n) => ~NamedInsert(i, n)
        /\ \A i, j \in DOMAIN charQ : NamedInsert(i, n) /\ NamedInsert(j, n) => i = j
Passed(a) == sess[a].stage # 0 \/ (Ready(sess[a].create) /\ ~sess[a].create.rows)
NameInv ==
    /\ OneCreation
    /\ \A n \in Names \ contended :
          /\ \A a \in Accounts \ hasty : Asks(a, n) /\ Passed(a) => Unused(n)
          /\ \A i \in DOMAIN charQ : NamedInsert(i, n) /\ charQ[i].a \notin hasty => Unused(n)
    /\ NamesUnique

-----------------------------------------------------------------------------
(* Maxima                                                                  *)

(* A non-empty set of natural numbers has a least element.                 *)
LEMMA LeastNatural ==
    ASSUME NEW T, T \subseteq Nat, T # {}
    PROVE  \E x \in T : \A y \in T : x <= y
<1>1. IsWellFoundedOn(OpToRel(<, Nat), Nat)
  BY NatLessThanWellFounded
<1>2. \E x \in T : \A y \in T : ~(<<y, x>> \in OpToRel(<, Nat))
  BY <1>1, WFMin
<1>3. PICK x \in T : \A y \in T : ~(<<y, x>> \in OpToRel(<, Nat))
  BY <1>2
<1>4. ASSUME NEW y \in T PROVE x <= y
  <2>1. ~(<<y, x>> \in OpToRel(<, Nat))
    BY <1>3
  <2>2. ~(y < x)
    BY <2>1 DEF OpToRel
  <2> QED BY <2>2
<1> QED BY <1>3, <1>4

(* Max is the largest element of a bounded set of numbers.                 *)
LEMMA MaxFacts ==
    ASSUME NEW S, NEW n \in Nat, S \subseteq 0..n, S # {}
    PROVE  Max(S) \in S /\ \A x \in S : x <= Max(S)
<1> DEFINE T == {m \in Nat : \A x \in S : x <= m}
<1>1. T \subseteq Nat /\ T # {}
  <2>1. n \in T
    OBVIOUS
  <2> QED BY <2>1
<1> HIDE DEF T
<1>2. PICK m \in T : \A y \in T : m <= y
  BY <1>1, LeastNatural
<1>3. m \in Nat /\ \A x \in S : x <= m
  BY <1>2 DEF T
<1>4. m \in S
  <2>1. SUFFICES ASSUME m \notin S PROVE FALSE
    OBVIOUS
  <2>2. \A x \in S : x \in Nat /\ x <= m - 1
    BY <2>1, <1>3
  <2>3. PICK x : x \in S
    OBVIOUS
  <2>4. m - 1 \in Nat
    BY <2>2, <2>3, <1>3
  <2>5. m - 1 \in T
    BY <2>2, <2>4 DEF T
  <2> QED BY <2>5, <1>2, <1>3
<1>5. \E x \in S : \A y \in S : x >= y
  BY <1>3, <1>4
<1> QED BY <1>5 DEF Max

-----------------------------------------------------------------------------
(* Queues                                                                  *)

(* r holds the operations of q, the answers of those that were to fill a   *)
(* future of D forgotten, and then others.                                 *)
Keeps(q, r, D) ==
    /\ Len(q) <= Len(r)
    /\ \A i \in DOMAIN q :
          /\ r[i].op = q[i].op /\ r[i].a = q[i].a /\ r[i].g = q[i].g /\ r[i].n = q[i].n
          /\ r[i].to = IF q[i].to \in D THEN Nobody ELSE q[i].to

(* Futures and the absence of one.                                         *)
LEMMA FutureFacts ==
    /\ \A a, b \in Accounts : <<a, "enum">> # <<b, "create">> /\ <<a, "enum">> # <<b, "login">>
                              /\ <<a, "create">> # <<b, "login">>
    /\ \A a, b : <<a, "enum">> = <<b, "enum">> => a = b
    /\ \A a, b : <<a, "create">> = <<b, "create">> => a = b
    /\ \A a, b : <<a, "login">> = <<b, "login">> => a = b
    /\ \A a : <<a, "enum">> # Nobody /\ <<a, "create">> # Nobody /\ <<a, "login">> # Nobody
    /\ \A a, b \in Accounts : \A t \in Futures(a) : t \in Futures(b) => a = b
BY DEF Nobody, Futures

(* Forget keeps the operations, for both queues.                           *)
LEMMA ForgetFacts ==
    ASSUME NEW X \in {CharOps, LoginOps}, NEW q \in Seq(X), NEW D
    PROVE  /\ Forget(q, D) \in Seq(X) /\ Len(Forget(q, D)) = Len(q)
           /\ Keeps(q, Forget(q, D), D)
<1> DEFINE r == Forget(q, D)
<1>1. r = [i \in 1..Len(q) |-> IF q[i].to \in D THEN [q[i] EXCEPT !.to = Nobody] ELSE q[i]]
  BY DEF Forget
<1>2. ASSUME NEW o \in X
      PROVE  LET p == [o EXCEPT !.to = Nobody] IN
             /\ p \in X /\ p.op = o.op /\ p.a = o.a /\ p.g = o.g /\ p.n = o.n /\ p.to = Nobody
  <2>1. o \in OpSet
    BY DEF CharOps, LoginOps
  <2> DEFINE p == [o EXCEPT !.to = Nobody]
  <2>2. p \in OpSet /\ p.op = o.op /\ p.a = o.a /\ p.g = o.g /\ p.n = o.n /\ p.to = Nobody
    BY <2>1 DEF OpSet, Places
  <2> HIDE DEF p
  <2>3. CharOp(o) => CharOp(p)
    BY <2>2 DEF CharOp
  <2>4. LoginOp(o) => LoginOp(p)
    BY <2>2 DEF LoginOp
  <2>5. p \in X
    BY <2>2, <2>3, <2>4 DEF CharOps, LoginOps
  <2> QED BY <2>2, <2>5 DEF p
<1>3. \A i \in 1..Len(q) : q[i] \in X
  OBVIOUS
<1>4. \A i \in 1..Len(q) : r[i] \in X
  BY <1>1, <1>2, <1>3
<1>5. r \in Seq(X) /\ Len(r) = Len(q)
  BY <1>1, <1>4
<1>6. \A i \in 1..Len(q) :
         /\ r[i].op = q[i].op /\ r[i].a = q[i].a /\ r[i].g = q[i].g /\ r[i].n = q[i].n
         /\ r[i].to = IF q[i].to \in D THEN Nobody ELSE q[i].to
  BY <1>1, <1>2, <1>3
<1> QED BY <1>5, <1>6 DEF Keeps

(* Concatenation, element by element.                                      *)
LEMMA ConcatFacts ==
    ASSUME NEW X
    PROVE  \A f, s \in Seq(X) :
              /\ f \o s \in Seq(X) /\ Len(f \o s) = Len(f) + Len(s)
              /\ \A i \in 1..Len(f) : (f \o s)[i] = f[i]
              /\ \A i \in 1..Len(s) : (f \o s)[Len(f) + i] = s[i]
<1> TAKE f, s \in Seq(X)
<1> QED OBVIOUS

(* What is added to a queue is at its end.                                 *)
LEMMA JoinFacts ==
    ASSUME NEW X
    PROVE  \A q, s \in Seq(X) :
              /\ q \o s \in Seq(X) /\ Len(q \o s) = Len(q) + Len(s) /\ Keeps(q, q \o s, {})
              /\ \A i \in 1..Len(s) : (q \o s)[Len(q) + i] = s[i]
<1> TAKE q, s \in Seq(X)
<1> QED BY DEF Keeps

(* The same for one operation.                                             *)
LEMMA AppendFacts ==
    ASSUME NEW X
    PROVE  \A q \in Seq(X), o \in X :
              /\ Append(q, o) \in Seq(X) /\ Len(Append(q, o)) = Len(q) + 1
              /\ Keeps(q, Append(q, o), {}) /\ Append(q, o)[Len(q) + 1] = o
<1> TAKE q \in Seq(X), o \in X
<1> QED BY DEF Keeps

(* The same when the answers to D are forgotten.                           *)
LEMMA AddFacts ==
    ASSUME NEW X \in {CharOps, LoginOps}, NEW D
    PROVE  \A q, s \in Seq(X) :
              /\ Forget(q, D) \o s \in Seq(X) /\ Len(Forget(q, D) \o s) = Len(q) + Len(s)
              /\ Keeps(q, Forget(q, D) \o s, D)
              /\ \A i \in 1..Len(s) : (Forget(q, D) \o s)[Len(q) + i] = s[i]
<1> TAKE q, s \in Seq(X)
<1>1. /\ Forget(q, D) \in Seq(X) /\ Len(Forget(q, D)) = Len(q)
      /\ Keeps(q, Forget(q, D), D)
  BY ForgetFacts
<1>2. \A f, t \in Seq(X) :
         /\ f \o t \in Seq(X) /\ Len(f \o t) = Len(f) + Len(t)
         /\ \A i \in 1..Len(f) : (f \o t)[i] = f[i]
         /\ \A i \in 1..Len(t) : (f \o t)[Len(f) + i] = t[i]
  BY ConcatFacts
<1>3. LET f == Forget(q, D) IN
      /\ f \o s \in Seq(X) /\ Len(f \o s) = Len(f) + Len(s)
      /\ \A i \in 1..Len(f) : (f \o s)[i] = f[i]
      /\ \A i \in 1..Len(s) : (f \o s)[Len(f) + i] = s[i]
  BY <1>1, <1>2, Zenon
<1>4. PICK r : r = Forget(q, D) \o s
  OBVIOUS
<1>5. /\ r \in Seq(X) /\ Len(r) = Len(q) + Len(s)
      /\ \A i \in 1..Len(q) : r[i] = Forget(q, D)[i]
      /\ \A i \in 1..Len(s) : r[Len(q) + i] = s[i]
  BY <1>1, <1>3, <1>4, Zenon
<1>6. Len(q) \in Nat /\ Len(s) \in Nat /\ DOMAIN q = 1..Len(q)
  OBVIOUS
<1>7. Keeps(q, r, D)
  BY <1>1, <1>5, <1>6 DEF Keeps
<1> QED BY <1>4, <1>5, <1>7, Zenon

(* One operation asked for.                                                *)
LEMMA AskFacts ==
    ASSUME NEW X \in {CharOps, LoginOps}, NEW D
    PROVE  \A q \in Seq(X), o \in X :
              /\ Append(Forget(q, D), o) \in Seq(X) /\ Len(Append(Forget(q, D), o)) = Len(q) + 1
              /\ Keeps(q, Append(Forget(q, D), o), D) /\ Append(Forget(q, D), o)[Len(q) + 1] = o
<1> TAKE q \in Seq(X), o \in X
<1>1. /\ Forget(q, D) \in Seq(X) /\ Len(Forget(q, D)) = Len(q)
      /\ Keeps(q, Forget(q, D), D)
  BY ForgetFacts
<1>2. \A f \in Seq(X), p \in X :
         /\ Append(f, p) \in Seq(X) /\ Len(Append(f, p)) = Len(f) + 1
         /\ Append(f, p)[Len(f) + 1] = p
         /\ \A i \in 1..Len(f) : Append(f, p)[i] = f[i]
  OBVIOUS
<1>3. LET f == Forget(q, D) IN
      /\ Append(f, o) \in Seq(X) /\ Len(Append(f, o)) = Len(f) + 1
      /\ Append(f, o)[Len(f) + 1] = o
      /\ \A i \in 1..Len(f) : Append(f, o)[i] = f[i]
  BY <1>1, <1>2, Zenon
<1>4. PICK r : r = Append(Forget(q, D), o)
  OBVIOUS
<1>5. /\ r \in Seq(X) /\ Len(r) = Len(q) + 1 /\ r[Len(q) + 1] = o
      /\ \A i \in 1..Len(q) : r[i] = Forget(q, D)[i]
  BY <1>1, <1>3, <1>4, Zenon
<1>6. Len(q) \in Nat /\ DOMAIN q = 1..Len(q)
  OBVIOUS
<1>7. Keeps(q, r, D)
  BY <1>1, <1>5, <1>6 DEF Keeps
<1> QED BY <1>4, <1>5, <1>7, Zenon

(* The first element and the others.                                       *)
LEMMA HeadTail ==
    ASSUME NEW S
    PROVE  \A s \in Seq(S) : s # <<>> =>
              /\ Head(s) \in S /\ Tail(s) \in Seq(S) /\ Head(s) = s[1]
              /\ Len(s) \in Nat \ {0} /\ Len(Tail(s)) = Len(s) - 1
              /\ \A i \in 1..(Len(s) - 1) : Tail(s)[i] = s[i + 1]
<1> TAKE s \in Seq(S)
<1> QED OBVIOUS

(* A queue keeps its own operations.                                       *)
LEMMA SameFacts ==
    ASSUME NEW X, NEW q \in Seq(X)
    PROVE  Keeps(q, q, {}) /\ Len(q) \in Nat
BY DEF Keeps

-----------------------------------------------------------------------------
(* What a step does to a session, field by field                           *)

Moved(a) ==
    /\ sess' \in [Accounts -> {None} \cup Sessions]
    /\ \A b \in Accounts : b # a => sess'[b] = sess[b]
SameWorld(a) ==
    /\ sess'[a].player = sess[a].player /\ sess'[a].loading = sess[a].loading
    /\ sess'[a].holder = sess[a].holder /\ sess'[a].login = sess[a].login
SameCreate(a) ==
    /\ sess'[a].info = sess[a].info /\ sess'[a].count = sess[a].count
    /\ sess'[a].create = sess[a].create /\ sess'[a].stage = sess[a].stage
SameList(a) ==
    sess'[a].legit = sess[a].legit /\ sess'[a].enum = sess[a].enum

(* NULL is none of the values a field can have.                            *)
LEMMA NullFacts ==
    /\ None # Waiting
    /\ \A a \in Accounts : a # None
    /\ \A n \in Names : n # None
    /\ \A g \in Guids : g # None
    /\ \A r \in Rows : r # None
    /\ \A s \in Sessions : s # None
    /\ \A v \in Answers : v # None /\ v # Waiting
    /\ \A v \in Loads : v # None /\ v # Waiting
    /\ \A v \in SUBSET Guids : v # None /\ v # Waiting
<1>1. None # Waiting
  BY NullAssumption
<1>2. None \notin Accounts \cup Names \cup Guids \cup Rows \cup Sessions
  BY NullAssumption
<1>3. \A v \in {None, Waiting} : v \notin Answers /\ v \notin Loads /\ \A S \in SUBSET Guids : v # S
  BY NullAssumption
<1> QED BY <1>1, <1>2, <1>3

(* An account with a session has one of the right type.                    *)
LEMMA SessionType ==
    ASSUME TypeOK, NEW a \in Accounts, sess[a] # None
    PROVE  sess[a] \in Sessions
BY DEF TypeOK

(* A step that replaces one session moves no other.                        *)
LEMMA Replaced ==
    ASSUME TypeOK, NEW a \in Accounts, NEW s \in {None} \cup Sessions, sess' = [sess EXCEPT ![a] = s]
    PROVE  Moved(a) /\ sess'[a] = s
BY DEF TypeOK, Moved

(* A new session has no player, no request and no future (WorldSession's   *)
(* constructor).                                                           *)
LEMMA NewSessionFacts ==
    /\ NewSession \in Sessions
    /\ NewSession.player = None /\ ~NewSession.loading /\ NewSession.holder = None
    /\ NewSession.login = None /\ NewSession.info = None /\ NewSession.count = 0
    /\ NewSession.create = None /\ NewSession.stage = 0 /\ NewSession.legit = {}
    /\ NewSession.enum = None
BY DEF NewSession, Sessions

(* A socket that closes changes neither the player nor the futures.        *)
LEMMA DisconnectEffect ==
    ASSUME TypeOK, NEW a \in Accounts, sess[a] # None, sess' = [sess EXCEPT ![a].open = FALSE]
    PROVE  /\ Moved(a) /\ sess'[a] \in Sessions
           /\ SameWorld(a) /\ SameCreate(a) /\ SameList(a)
<1>1. sess \in [Accounts -> {None} \cup Sessions] /\ sess[a] \in Sessions
  BY SessionType DEF TypeOK
<1>2. PICK u : u = [sess[a] EXCEPT !.open = FALSE]
  OBVIOUS
<1>3. u \in Sessions
  BY <1>1, <1>2 DEF Sessions
<1>4. Moved(a) /\ sess'[a] = u
  BY <1>1, <1>2, <1>3 DEF Moved
<1>5. /\ u.player = sess[a].player /\ u.loading = sess[a].loading
      /\ u.holder = sess[a].holder /\ u.login = sess[a].login
  BY <1>1, <1>2 DEF Sessions
<1>6. /\ u.info = sess[a].info /\ u.count = sess[a].count
      /\ u.create = sess[a].create /\ u.stage = sess[a].stage
      /\ u.legit = sess[a].legit /\ u.enum = sess[a].enum
  BY <1>1, <1>2 DEF Sessions
<1> QED BY <1>3, <1>4, <1>5, <1>6 DEF SameWorld, SameCreate, SameList

(* A logout takes the player away and leaves the futures.                  *)
LEMMA LogoutEffect ==
    ASSUME TypeOK, NEW a \in Accounts, sess[a] # None, sess' = [sess EXCEPT ![a].player = None]
    PROVE  /\ Moved(a) /\ sess'[a] \in Sessions
           /\ SameCreate(a) /\ SameList(a)
           /\ sess'[a].player = None /\ sess'[a].loading = sess[a].loading
           /\ sess'[a].holder = sess[a].holder /\ sess'[a].login = sess[a].login
<1>1. sess \in [Accounts -> {None} \cup Sessions] /\ sess[a] \in Sessions
  BY SessionType DEF TypeOK
<1>2. PICK u : u = [sess[a] EXCEPT !.player = None]
  OBVIOUS
<1>3. u \in Sessions
  BY <1>1, <1>2 DEF Sessions
<1>4. Moved(a) /\ sess'[a] = u
  BY <1>1, <1>2, <1>3 DEF Moved
<1>5. /\ u.info = sess[a].info /\ u.count = sess[a].count
      /\ u.create = sess[a].create /\ u.stage = sess[a].stage
  BY <1>1, <1>2 DEF Sessions
<1>6. u.legit = sess[a].legit /\ u.enum = sess[a].enum
  BY <1>1, <1>2 DEF Sessions
<1>7. /\ u.player = None /\ u.loading = sess[a].loading
      /\ u.holder = sess[a].holder /\ u.login = sess[a].login
  BY <1>1, <1>2 DEF Sessions
<1> QED BY <1>3, <1>4, <1>5, <1>6, <1>7 DEF SameCreate, SameList

(* A list that is asked for is awaited.                                    *)
LEMMA EnumEffect ==
    ASSUME TypeOK, NEW a \in Accounts, sess[a] # None, sess' = [sess EXCEPT ![a].enum = Waiting]
    PROVE  /\ Moved(a) /\ sess'[a] \in Sessions
           /\ SameWorld(a) /\ SameCreate(a)
           /\ sess'[a].legit = sess[a].legit /\ sess'[a].enum = Waiting
<1>1. sess \in [Accounts -> {None} \cup Sessions] /\ sess[a] \in Sessions
  BY SessionType DEF TypeOK
<1>2. PICK u : u = [sess[a] EXCEPT !.enum = Waiting]
  OBVIOUS
<1>3. u \in Sessions
  BY <1>1, <1>2 DEF Sessions
<1>4. Moved(a) /\ sess'[a] = u
  BY <1>1, <1>2, <1>3 DEF Moved
<1>5. /\ u.info = sess[a].info /\ u.count = sess[a].count
      /\ u.create = sess[a].create /\ u.stage = sess[a].stage
  BY <1>1, <1>2 DEF Sessions
<1>6. /\ u.player = sess[a].player /\ u.loading = sess[a].loading
      /\ u.holder = sess[a].holder /\ u.login = sess[a].login
  BY <1>1, <1>2 DEF Sessions
<1>7. u.legit = sess[a].legit /\ u.enum = Waiting
  BY <1>1, <1>2 DEF Sessions
<1> QED BY <1>3, <1>4, <1>5, <1>6, <1>7 DEF SameWorld, SameCreate

(* A list that is answered is kept as the characters the client may use.   *)
LEMMA ListEffect ==
    ASSUME TypeOK, NEW a \in Accounts, sess[a] # None, NEW l \in SUBSET Guids,
           sess' = [sess EXCEPT ![a].enum = None, ![a].legit = l]
    PROVE  /\ Moved(a) /\ sess'[a] \in Sessions
           /\ SameWorld(a) /\ SameCreate(a)
           /\ sess'[a].legit = l /\ sess'[a].enum = None
<1>1. sess \in [Accounts -> {None} \cup Sessions] /\ sess[a] \in Sessions
  BY SessionType DEF TypeOK
<1>2. PICK u : u = [sess[a] EXCEPT !.enum = None, !.legit = l]
  OBVIOUS
<1>3. u \in Sessions
  BY <1>1, <1>2 DEF Sessions
<1>4. Moved(a) /\ sess'[a] = u
  BY <1>1, <1>2, <1>3 DEF Moved
<1>5. /\ u.info = sess[a].info /\ u.count = sess[a].count
      /\ u.create = sess[a].create /\ u.stage = sess[a].stage
  BY <1>1, <1>2 DEF Sessions
<1>6. /\ u.player = sess[a].player /\ u.loading = sess[a].loading
      /\ u.holder = sess[a].holder /\ u.login = sess[a].login
  BY <1>1, <1>2 DEF Sessions
<1>7. u.legit = l /\ u.enum = None
  BY <1>1, <1>2 DEF Sessions
<1> QED BY <1>3, <1>4, <1>5, <1>6, <1>7 DEF SameWorld, SameCreate

(* A creation begins with its name, no count, and one awaited answer.      *)
LEMMA AskNameEffect ==
    ASSUME TypeOK, NEW a \in Accounts, sess[a] # None, NEW n \in Names,
           sess' = [sess EXCEPT ![a].info = n, ![a].count = 0, ![a].create = Waiting]
    PROVE  /\ Moved(a) /\ sess'[a] \in Sessions
           /\ SameWorld(a) /\ SameList(a)
           /\ sess'[a].info = n /\ sess'[a].count = 0 /\ sess'[a].create = Waiting
           /\ sess'[a].stage = sess[a].stage
<1>1. sess \in [Accounts -> {None} \cup Sessions] /\ sess[a] \in Sessions
  BY SessionType DEF TypeOK
<1>2. PICK u : u = [sess[a] EXCEPT !.info = n, !.count = 0, !.create = Waiting]
  OBVIOUS
<1>3. u \in Sessions
  BY <1>1, <1>2 DEF Sessions
<1>4. Moved(a) /\ sess'[a] = u
  BY <1>1, <1>2, <1>3 DEF Moved
<1>5. /\ u.player = sess[a].player /\ u.loading = sess[a].loading
      /\ u.holder = sess[a].holder /\ u.login = sess[a].login
  BY <1>1, <1>2 DEF Sessions
<1>6. u.legit = sess[a].legit /\ u.enum = sess[a].enum
  BY <1>1, <1>2 DEF Sessions
<1>7. /\ u.info = n /\ u.count = 0 /\ u.create = Waiting
      /\ u.stage = sess[a].stage
  BY <1>1, <1>2 DEF Sessions
<1> QED BY <1>3, <1>4, <1>5, <1>6, <1>7 DEF SameWorld, SameList

(* A session whose creation is dropped: what was asked for.                *)
LEMMA ClearInfo ==
    ASSUME NEW s \in Sessions, NEW u, u = [s EXCEPT !.info = None, !.count = 0]
    PROVE  /\ u \in Sessions /\ u.info = None /\ u.count = 0
           /\ u.player = s.player /\ u.loading = s.loading
           /\ u.holder = s.holder /\ u.login = s.login
           /\ u.legit = s.legit /\ u.enum = s.enum
BY DEF Sessions

(* A session whose creation is dropped: the future and the stage.          *)
LEMMA ClearStage ==
    ASSUME NEW s \in Sessions, NEW u, u = [s EXCEPT !.create = None, !.stage = 0]
    PROVE  /\ u \in Sessions /\ u.info = s.info /\ u.count = s.count
           /\ u.create = None /\ u.stage = 0
           /\ u.player = s.player /\ u.loading = s.loading
           /\ u.holder = s.holder /\ u.login = s.login
           /\ u.legit = s.legit /\ u.enum = s.enum
<1>1. /\ u.info = s.info /\ u.count = s.count /\ u.create = None /\ u.stage = 0
      /\ u.player = s.player /\ u.loading = s.loading
      /\ u.holder = s.holder /\ u.login = s.login
      /\ u.legit = s.legit /\ u.enum = s.enum /\ u.open = s.open
  BY DEF Sessions
<1>2. u \in Sessions
  <2> DEFINE St == 0 .. 3
  <2>1. 0 \in St
    OBVIOUS
  <2> HIDE DEF St
  <2>2. Sessions = [open : BOOLEAN, loading : BOOLEAN, player : {None} \cup Guids, legit : SUBSET Guids,
                    stage : St, info : {None} \cup Names, count : Nat, holder : {None} \cup Guids,
                    enum : {None, Waiting} \cup SUBSET Guids, create : {None, Waiting} \cup Answers,
                    login : {None, Waiting} \cup Loads]
    BY DEF Sessions, St
  <2> QED BY <2>1, <2>2
<1> QED BY <1>1, <1>2

(* Reset drops the creation and nothing else.                              *)
LEMMA ResetEffect ==
    ASSUME TypeOK, NEW a \in Accounts, sess[a] # None, sess' = [sess EXCEPT ![a] = Reset(@)]
    PROVE  /\ Moved(a) /\ sess'[a] \in Sessions
           /\ SameWorld(a) /\ SameList(a)
           /\ sess'[a].info = None /\ sess'[a].count = 0 /\ sess'[a].create = None
           /\ sess'[a].stage = 0
<1>1. sess \in [Accounts -> {None} \cup Sessions] /\ sess[a] \in Sessions
  BY SessionType DEF TypeOK
<1> DEFINE t == [sess[a] EXCEPT !.info = None, !.count = 0, !.create = None, !.stage = 0]
<1>2. sess' = [sess EXCEPT ![a] = t]
  BY DEF Reset
<1>3. /\ t \in Sessions /\ t.info = None /\ t.count = 0 /\ t.create = None /\ t.stage = 0
      /\ t.player = sess[a].player /\ t.loading = sess[a].loading
      /\ t.holder = sess[a].holder /\ t.login = sess[a].login
      /\ t.legit = sess[a].legit /\ t.enum = sess[a].enum
  <2>1. PICK u : u = [sess[a] EXCEPT !.info = None, !.count = 0]
    OBVIOUS
  <2>2. /\ u \in Sessions /\ u.info = None /\ u.count = 0
        /\ u.player = sess[a].player /\ u.loading = sess[a].loading
        /\ u.holder = sess[a].holder /\ u.login = sess[a].login
        /\ u.legit = sess[a].legit /\ u.enum = sess[a].enum
    BY <1>1, <2>1, ClearInfo
  <2>3. t = [u EXCEPT !.create = None, !.stage = 0]
    BY <1>1, <2>1 DEF Sessions
  <2> HIDE DEF t
  <2>4. /\ t \in Sessions /\ t.info = u.info /\ t.count = u.count /\ t.create = None /\ t.stage = 0
        /\ t.player = u.player /\ t.loading = u.loading
        /\ t.holder = u.holder /\ t.login = u.login
        /\ t.legit = u.legit /\ t.enum = u.enum
    BY <2>2, <2>3, ClearStage
  <2> QED BY <2>2, <2>4
<1> HIDE DEF t
<1>4. Moved(a) /\ sess'[a] = t
  BY <1>2, <1>3, Replaced
<1> QED BY <1>3, <1>4 DEF SameWorld, SameList

(* A creation that goes on to stage i keeps its name and awaits one        *)
(* answer.                                                                 *)
LEMMA StageEffect ==
    ASSUME TypeOK, NEW a \in Accounts, sess[a] # None, NEW i \in 1 .. 3, NEW c \in Nat,
           NextStage(a, i, c)
    PROVE  /\ Moved(a) /\ sess'[a] \in Sessions
           /\ SameWorld(a) /\ SameList(a)
           /\ sess'[a].info = sess[a].info /\ sess'[a].count = c /\ sess'[a].create = Waiting
           /\ sess'[a].stage = i
<1>1. sess \in [Accounts -> {None} \cup Sessions] /\ sess[a] \in Sessions
  BY SessionType DEF TypeOK
<1>2. sess' = [sess EXCEPT ![a].stage = i, ![a].create = Waiting, ![a].count = c]
  BY DEF NextStage
<1> DEFINE t == [sess[a] EXCEPT !.stage = i, !.create = Waiting, !.count = c]
<1>3. /\ t \in Sessions /\ t.info = sess[a].info /\ t.count = c /\ t.create = Waiting /\ t.stage = i
      /\ t.player = sess[a].player /\ t.loading = sess[a].loading
      /\ t.holder = sess[a].holder /\ t.login = sess[a].login
      /\ t.legit = sess[a].legit /\ t.enum = sess[a].enum
  <2>1. i \in 0 .. 3
    OBVIOUS
  <2> QED BY <1>1, <2>1 DEF Sessions
<1>4. sess' = [sess EXCEPT ![a] = t]
  BY <1>1, <1>2 DEF Sessions
<1> HIDE DEF t
<1>5. Moved(a) /\ sess'[a] = t
  BY <1>3, <1>4, Replaced
<1> QED BY <1>3, <1>5 DEF SameWorld, SameList

(* A login asks for a load and holds on to the character.                  *)
LEMMA LoadEffect ==
    ASSUME TypeOK, NEW a \in Accounts, sess[a] # None, NEW g \in Guids,
           sess' = [sess EXCEPT ![a].loading = TRUE, ![a].holder = g, ![a].login = Waiting]
    PROVE  /\ Moved(a) /\ sess'[a] \in Sessions
           /\ SameCreate(a) /\ SameList(a)
           /\ sess'[a].player = sess[a].player /\ sess'[a].loading
           /\ sess'[a].holder = g /\ sess'[a].login = Waiting
<1>1. sess \in [Accounts -> {None} \cup Sessions] /\ sess[a] \in Sessions
  BY SessionType DEF TypeOK
<1>2. PICK u : u = [sess[a] EXCEPT !.loading = TRUE, !.holder = g, !.login = Waiting]
  OBVIOUS
<1>3. u \in Sessions
  BY <1>1, <1>2 DEF Sessions
<1>4. Moved(a) /\ sess'[a] = u
  BY <1>1, <1>2, <1>3 DEF Moved
<1>5. /\ u.info = sess[a].info /\ u.count = sess[a].count
      /\ u.create = sess[a].create /\ u.stage = sess[a].stage
  BY <1>1, <1>2 DEF Sessions
<1>6. u.legit = sess[a].legit /\ u.enum = sess[a].enum
  BY <1>1, <1>2 DEF Sessions
<1>7. /\ u.player = sess[a].player /\ u.loading
      /\ u.holder = g /\ u.login = Waiting
  BY <1>1, <1>2 DEF Sessions
<1> QED BY <1>3, <1>4, <1>5, <1>6, <1>7 DEF SameCreate, SameList

(* A login of a character that is not listed kicks, with playerLoading     *)
(* set.                                                                    *)
LEMMA KickEffect ==
    ASSUME TypeOK, NEW a \in Accounts, sess[a] # None,
           sess' = [sess EXCEPT ![a].loading = TRUE, ![a].open = FALSE]
    PROVE  /\ Moved(a) /\ sess'[a] \in Sessions
           /\ SameCreate(a) /\ SameList(a)
           /\ sess'[a].player = sess[a].player /\ sess'[a].loading
           /\ sess'[a].holder = sess[a].holder /\ sess'[a].login = sess[a].login
<1>1. sess \in [Accounts -> {None} \cup Sessions] /\ sess[a] \in Sessions
  BY SessionType DEF TypeOK
<1>2. PICK u : u = [sess[a] EXCEPT !.loading = TRUE, !.open = FALSE]
  OBVIOUS
<1>3. u \in Sessions
  BY <1>1, <1>2 DEF Sessions
<1>4. Moved(a) /\ sess'[a] = u
  BY <1>1, <1>2, <1>3 DEF Moved
<1>5. /\ u.info = sess[a].info /\ u.count = sess[a].count
      /\ u.create = sess[a].create /\ u.stage = sess[a].stage
  BY <1>1, <1>2 DEF Sessions
<1>6. u.legit = sess[a].legit /\ u.enum = sess[a].enum
  BY <1>1, <1>2 DEF Sessions
<1>7. /\ u.player = sess[a].player /\ u.loading
      /\ u.holder = sess[a].holder /\ u.login = sess[a].login
  BY <1>1, <1>2 DEF Sessions
<1> QED BY <1>3, <1>4, <1>5, <1>6, <1>7 DEF SameCreate, SameList

(* A request for a character that is cut short leaves playerLoading set.   *)
LEMMA CutEffect ==
    ASSUME TypeOK, NEW a \in Accounts, sess[a] # None,
           sess' = [sess EXCEPT ![a].loading = TRUE]
    PROVE  /\ Moved(a) /\ sess'[a] \in Sessions
           /\ SameCreate(a) /\ SameList(a)
           /\ sess'[a].player = sess[a].player /\ sess'[a].loading
           /\ sess'[a].holder = sess[a].holder /\ sess'[a].login = sess[a].login
<1>1. sess \in [Accounts -> {None} \cup Sessions] /\ sess[a] \in Sessions
  BY SessionType DEF TypeOK
<1>2. PICK u : u = [sess[a] EXCEPT !.loading = TRUE]
  OBVIOUS
<1>3. u \in Sessions
  BY <1>1, <1>2 DEF Sessions
<1>4. Moved(a) /\ sess'[a] = u
  BY <1>1, <1>2, <1>3 DEF Moved
<1>5. /\ u.info = sess[a].info /\ u.count = sess[a].count
      /\ u.create = sess[a].create /\ u.stage = sess[a].stage
  BY <1>1, <1>2 DEF Sessions
<1>6. u.legit = sess[a].legit /\ u.enum = sess[a].enum
  BY <1>1, <1>2 DEF Sessions
<1>7. /\ u.player = sess[a].player /\ u.loading
      /\ u.holder = sess[a].holder /\ u.login = sess[a].login
  BY <1>1, <1>2 DEF Sessions
<1> QED BY <1>3, <1>4, <1>5, <1>6, <1>7 DEF SameCreate, SameList

(* The callback of a load, with a player p or with none.                   *)
LEMMA EnterEffect ==
    ASSUME TypeOK, NEW a \in Accounts, sess[a] # None, NEW p \in Guids,
           sess' = [sess EXCEPT ![a] =
              [[sess[a] EXCEPT !.loading = FALSE, !.holder = None, !.login = None]
                  EXCEPT !.player = p]]
    PROVE  /\ Moved(a) /\ sess'[a] \in Sessions
           /\ SameCreate(a) /\ SameList(a)
           /\ sess'[a].player = p /\ ~sess'[a].loading
           /\ sess'[a].holder = None /\ sess'[a].login = None
<1>1. sess \in [Accounts -> {None} \cup Sessions] /\ sess[a] \in Sessions
  BY SessionType DEF TypeOK
<1> QED BY <1>1 DEF Sessions, Moved, SameCreate, SameList

(* The callback of a load that found nothing closes the session.           *)
LEMMA RefuseEffect ==
    ASSUME TypeOK, NEW a \in Accounts, sess[a] # None,
           sess' = [sess EXCEPT ![a] =
              [[sess[a] EXCEPT !.loading = FALSE, !.holder = None, !.login = None]
                  EXCEPT !.open = FALSE]]
    PROVE  /\ Moved(a) /\ sess'[a] \in Sessions
           /\ SameCreate(a) /\ SameList(a)
           /\ sess'[a].player = sess[a].player /\ ~sess'[a].loading
           /\ sess'[a].holder = None /\ sess'[a].login = None
<1>1. sess \in [Accounts -> {None} \cup Sessions] /\ sess[a] \in Sessions
  BY SessionType DEF TypeOK
<1> QED BY <1>1 DEF Sessions, Moved, SameCreate, SameList

(* An answer fills one future of one session.                              *)
LEMMA FillEnum ==
    ASSUME TypeOK, NEW a \in Accounts, sess[a] # None, NEW o, o.to = <<a, "enum">>,
           NEW v \in SUBSET Guids, sess' = Fill(o, v)
    PROVE  /\ Moved(a) /\ sess'[a] \in Sessions
           /\ SameWorld(a) /\ SameCreate(a)
           /\ sess'[a].legit = sess[a].legit /\ sess'[a].enum = v
<1>1. sess \in [Accounts -> {None} \cup Sessions] /\ sess[a] \in Sessions
  BY SessionType DEF TypeOK
<1>2. o.to[1] = a /\ o.to[2] = "enum" /\ o.to # Nobody
  BY NullFacts DEF Nobody
<1>3. sess' = [sess EXCEPT ![a]["enum"] = v]
  BY <1>2, Zenon DEF Fill
<1> QED BY <1>1, <1>3 DEF Sessions, Moved, SameWorld, SameCreate

(* The answer to a query of a creation.                                    *)
LEMMA FillCreate ==
    ASSUME TypeOK, NEW a \in Accounts, sess[a] # None, NEW o, o.to = <<a, "create">>,
           NEW v \in Answers, sess' = Fill(o, v)
    PROVE  /\ Moved(a) /\ sess'[a] \in Sessions
           /\ SameWorld(a) /\ SameList(a)
           /\ sess'[a].info = sess[a].info /\ sess'[a].count = sess[a].count
           /\ sess'[a].create = v /\ sess'[a].stage = sess[a].stage
<1>1. sess \in [Accounts -> {None} \cup Sessions] /\ sess[a] \in Sessions
  BY SessionType DEF TypeOK
<1>2. o.to[1] = a /\ o.to[2] = "create" /\ o.to # Nobody
  BY NullFacts DEF Nobody
<1>3. sess' = [sess EXCEPT ![a]["create"] = v]
  BY <1>2, Zenon DEF Fill
<1> QED BY <1>1, <1>3 DEF Sessions, Moved, SameWorld, SameList

(* The answer to a load.                                                   *)
LEMMA FillLogin ==
    ASSUME TypeOK, NEW a \in Accounts, sess[a] # None, NEW o, o.to = <<a, "login">>,
           NEW v \in Loads, sess' = Fill(o, v)
    PROVE  /\ Moved(a) /\ sess'[a] \in Sessions
           /\ SameCreate(a) /\ SameList(a)
           /\ sess'[a].player = sess[a].player /\ sess'[a].loading = sess[a].loading
           /\ sess'[a].holder = sess[a].holder /\ sess'[a].login = v
<1>1. sess \in [Accounts -> {None} \cup Sessions] /\ sess[a] \in Sessions
  BY SessionType DEF TypeOK
<1>2. o.to[1] = a /\ o.to[2] = "login" /\ o.to # Nobody
  BY NullFacts DEF Nobody
<1>3. sess' = [sess EXCEPT ![a]["login"] = v]
  BY <1>2, Zenon DEF Fill
<1> QED BY <1>1, <1>3 DEF Sessions, Moved, SameCreate, SameList

-----------------------------------------------------------------------------
(* Futures stay wired                                                      *)

(* A step of account a that forgets D in the queue of the characters and E *)
(* in the other, and may ask with the future t.                            *)
LEMMA WiredStep ==
    ASSUME Queued, Queued', Wired, NEW a \in Accounts, Moved(a),
           NEW D \in SUBSET Futures(a), NEW E \in SUBSET Futures(a),
           NEW t \in {Nobody} \cup Futures(a),
           Keeps(charQ, charQ', D), Keeps(loginQ, loginQ', E),
           \A i \in DOMAIN charQ' : i > Len(charQ) =>
              charQ'[i].to \in {Nobody, t} /\ Serves(charQ'[i], a, sess'[a]),
           \A i \in DOMAIN loginQ' : i > Len(loginQ) =>
              loginQ'[i].to \in {Nobody, t} /\ Serves(loginQ'[i], a, sess'[a]),
           \/ t = Nobody
           \/ Len(charQ') <= Len(charQ) + 1 /\ Len(loginQ') = Len(loginQ)
           \/ Len(charQ') = Len(charQ) /\ Len(loginQ') <= Len(loginQ) + 1,
           \/ t = Nobody
           \/ t \in D \cap E
           \/ t = <<a, "enum">> /\ t \in D
           \/ t = <<a, "create">> /\ sess[a].create # Waiting
           \/ t = <<a, "login">> /\ sess[a].login # Waiting,
           <<a, "enum">> \in D \/ sess'[a] # None \/ sess[a] = None,
           \/ <<a, "create">> \in D \cap E
           \/ sess[a] = None \/ sess[a].create # Waiting
           \/ sess'[a] # None /\ sess'[a].create = Waiting,
           \/ <<a, "login">> \in D
           \/ sess[a] = None \/ sess[a].login # Waiting
           \/ sess'[a] # None /\ sess'[a].login = Waiting /\ sess'[a].holder = sess[a].holder
    PROVE  Wired'
<1>0. /\ charQ \in Seq(CharOps) /\ charQ' \in Seq(CharOps)
      /\ loginQ \in Seq(LoginOps) /\ loginQ' \in Seq(LoginOps)
  BY DEF Queued
<1>1. /\ \A i \in DOMAIN loginQ : loginQ[i] \in LoginOps
      /\ \A i \in DOMAIN loginQ : loginQ[i].to = Nobody \/ loginQ[i].to = <<loginQ[i].a, "create">>
      /\ \A i \in DOMAIN loginQ : loginQ[i].a \in Accounts
  BY <1>0 DEF LoginOps, LoginOp, OpSet
<1>2. ASSUME NEW i \in DOMAIN charQ', NEW b \in Accounts
      PROVE  Serves(charQ'[i], b, sess'[b])
  <2>1. CASE i > Len(charQ)
    <3>1. CASE b = a
      BY <2>1, <3>1
    <3>2. CASE b # a
      <4>1. charQ'[i].to \in {Nobody} \cup Futures(a)
        BY <2>1
      <4>2. charQ'[i].to \notin Futures(b)
        BY <4>1, <3>2, FutureFacts DEF Futures
      <4> QED BY <4>2 DEF Serves, Futures
    <3> QED BY <3>1, <3>2
  <2>2. CASE i <= Len(charQ)
    <3>0. i \in DOMAIN charQ
      BY <2>2, <1>0
    <3>1. /\ charQ'[i].to = IF charQ[i].to \in D THEN Nobody ELSE charQ[i].to
          /\ charQ'[i].g = charQ[i].g
      BY <3>0 DEF Keeps
    <3>2. Serves(charQ[i], b, sess[b])
      BY <3>0 DEF Wired
    <3>3. CASE b # a
      <4>1. sess'[b] = sess[b]
        BY <3>3 DEF Moved
      <4> QED BY <3>1, <3>2, <4>1, FutureFacts DEF Serves
    <3>4. CASE b = a
      <4>1. ASSUME charQ'[i].to = <<a, "enum">> PROVE sess'[a] # None
        BY <4>1, <3>1, <3>2, <3>4, FutureFacts DEF Serves
      <4>2. ASSUME charQ'[i].to = <<a, "create">>
            PROVE  sess'[a] # None /\ sess'[a].create = Waiting
        BY <4>2, <3>1, <3>2, <3>4, FutureFacts DEF Serves
      <4>3. ASSUME charQ'[i].to = <<a, "login">>
            PROVE  sess'[a] # None /\ sess'[a].login = Waiting /\ sess'[a].holder = charQ'[i].g
        BY <4>3, <3>1, <3>2, <3>4, FutureFacts DEF Serves
      <4> QED BY <4>1, <4>2, <4>3, <3>4 DEF Serves
    <3> QED BY <3>3, <3>4
  <2> QED BY <2>1, <2>2, <1>0
<1>3. ASSUME NEW i \in DOMAIN loginQ', NEW b \in Accounts
      PROVE  Serves(loginQ'[i], b, sess'[b])
  <2>1. CASE i > Len(loginQ)
    <3>1. CASE b = a
      BY <2>1, <3>1
    <3>2. CASE b # a
      <4>1. loginQ'[i].to \in {Nobody} \cup Futures(a)
        BY <2>1
      <4>2. loginQ'[i].to \notin Futures(b)
        BY <4>1, <3>2, FutureFacts DEF Futures
      <4> QED BY <4>2 DEF Serves, Futures
    <3> QED BY <3>1, <3>2
  <2>2. CASE i <= Len(loginQ)
    <3>0. i \in DOMAIN loginQ
      BY <2>2, <1>0
    <3>1. loginQ'[i].to = IF loginQ[i].to \in E THEN Nobody ELSE loginQ[i].to
      BY <3>0 DEF Keeps
    <3>2. Serves(loginQ[i], b, sess[b])
      BY <3>0 DEF Wired
    <3>4. loginQ'[i].to \in {Nobody, <<loginQ[i].a, "create">>} /\ loginQ[i].a \in Accounts
      BY <1>1, <3>0, <3>1
    <3>5. loginQ'[i].to # <<b, "enum">> /\ loginQ'[i].to # <<b, "login">>
      BY <3>4, FutureFacts
    <3>6. ASSUME loginQ'[i].to = <<b, "create">>
          PROVE  sess'[b] # None /\ sess'[b].create = Waiting
      <4>1. loginQ[i].to = <<b, "create">> /\ <<b, "create">> \notin E
        BY <3>6, <3>1, FutureFacts
      <4>2. sess[b] # None /\ sess[b].create = Waiting
        BY <4>1, <3>2 DEF Serves
      <4>3. CASE b = a
        BY <4>1, <4>2, <4>3
      <4>4. CASE b # a
        BY <4>2, <4>4 DEF Moved
      <4> QED BY <4>3, <4>4
    <3> QED BY <3>5, <3>6 DEF Serves
  <2> QED BY <2>1, <2>2, <1>0
<1>4. ASSUME NEW i \in DOMAIN charQ, charQ[i].to = t, t # Nobody PROVE t \in D
  <2>1. Serves(charQ[i], a, sess[a])
    BY DEF Wired
  <2> QED BY <1>4, <2>1 DEF Serves
<1>5. ASSUME NEW i \in DOMAIN loginQ, loginQ[i].to = t, t # Nobody PROVE t \in E
  <2>1. Serves(loginQ[i], a, sess[a])
    BY DEF Wired
  <2>2. t # <<a, "enum">> /\ t # <<a, "login">>
    BY <1>5, <1>1, FutureFacts
  <2> QED BY <1>5, <2>1, <2>2 DEF Serves
<1>6. \A i \in DOMAIN charQ' : i <= Len(charQ) =>
         /\ i \in DOMAIN charQ
         /\ charQ'[i].to = Nobody \/ (charQ'[i].to = charQ[i].to /\ charQ'[i].to # t)
  BY <1>0, <1>4 DEF Keeps
<1>7. \A i \in DOMAIN loginQ' : i <= Len(loginQ) =>
         /\ i \in DOMAIN loginQ
         /\ loginQ'[i].to = Nobody \/ (loginQ'[i].to = loginQ[i].to /\ loginQ'[i].to # t)
  BY <1>0, <1>5 DEF Keeps
<1>8. \A i \in DOMAIN charQ' : i > Len(charQ) => charQ'[i].to \in {Nobody, t}
  OBVIOUS
<1>9. \A i \in DOMAIN loginQ' : i > Len(loginQ) => loginQ'[i].to \in {Nobody, t}
  OBVIOUS
<1>10. /\ Len(charQ) \in Nat /\ Len(charQ') \in Nat /\ DOMAIN charQ' = 1..Len(charQ')
       /\ Len(loginQ) \in Nat /\ Len(loginQ') \in Nat /\ DOMAIN loginQ' = 1..Len(loginQ')
  BY <1>0
<1>11. ASSUME NEW i \in DOMAIN charQ', NEW j \in DOMAIN charQ', i # j,
              charQ'[i].to = charQ'[j].to
       PROVE  charQ'[i].to = Nobody
  <2>1. CASE i <= Len(charQ) /\ j <= Len(charQ)
    BY <2>1, <1>6, <1>11 DEF Wired
  <2>2. CASE i > Len(charQ) /\ j > Len(charQ)
    BY <2>2, <1>8, <1>10, <1>11
  <2>3. CASE i <= Len(charQ) /\ j > Len(charQ)
    BY <2>3, <1>6, <1>8, <1>11
  <2>4. CASE i > Len(charQ) /\ j <= Len(charQ)
    BY <2>4, <1>6, <1>8, <1>11
  <2> QED BY <2>1, <2>2, <2>3, <2>4, <1>10
<1>12. ASSUME NEW i \in DOMAIN loginQ', NEW j \in DOMAIN loginQ', i # j,
              loginQ'[i].to = loginQ'[j].to
       PROVE  loginQ'[i].to = Nobody
  <2>1. CASE i <= Len(loginQ) /\ j <= Len(loginQ)
    BY <2>1, <1>7, <1>12 DEF Wired
  <2>2. CASE i > Len(loginQ) /\ j > Len(loginQ)
    BY <2>2, <1>9, <1>10, <1>12
  <2>3. CASE i <= Len(loginQ) /\ j > Len(loginQ)
    BY <2>3, <1>7, <1>9, <1>12
  <2>4. CASE i > Len(loginQ) /\ j <= Len(loginQ)
    BY <2>4, <1>7, <1>9, <1>12
  <2> QED BY <2>1, <2>2, <2>3, <2>4, <1>10
<1>13. ASSUME NEW i \in DOMAIN charQ', NEW j \in DOMAIN loginQ',
              charQ'[i].to = loginQ'[j].to
       PROVE  charQ'[i].to = Nobody
  <2>1. CASE i <= Len(charQ) /\ j <= Len(loginQ)
    BY <2>1, <1>6, <1>7, <1>13 DEF Wired
  <2>2. CASE i > Len(charQ) /\ j > Len(loginQ)
    BY <2>2, <1>8, <1>9, <1>10, <1>13
  <2>3. CASE i <= Len(charQ) /\ j > Len(loginQ)
    BY <2>3, <1>6, <1>9, <1>13
  <2>4. CASE i > Len(charQ) /\ j <= Len(loginQ)
    BY <2>4, <1>7, <1>8, <1>13
  <2> QED BY <2>1, <2>2, <2>3, <2>4, <1>10
<1> QED BY <1>2, <1>3, <1>11, <1>12, <1>13 DEF Wired

-----------------------------------------------------------------------------
(* What each step does                                                     *)

(* The operations that are queued.                                         *)
LEMMA OpType ==
    \A k \in Kinds, a \in Accounts, g \in {None} \cup Guids, n \in Values, to \in Places :
        Op(k, a, g, n, to) \in OpSet
BY DEF Op, OpSet

(* The operations of CharacterDatabase, with the arguments the code gives  *)
(* them.                                                                   *)
LEMMA CharOpTypes ==
    ASSUME NEW a \in Accounts
    PROVE  /\ \A g \in Guids, n \in Names : Op("insert", a, g, n, Nobody) \in CharOps
           /\ \A g \in Guids, v \in Nat : Op("save", a, g, v, Nobody) \in CharOps
           /\ \A g \in Guids : Op("delete", a, g, None, Nobody) \in CharOps
           /\ \A g \in Guids : Op("online", a, g, None, Nobody) \in CharOps
           /\ Op("offline", a, None, None, Nobody) \in CharOps
           /\ Op("total", a, None, None, Nobody) \in CharOps
           /\ Op("enum", a, None, None, <<a, "enum">>) \in CharOps
           /\ \A n \in Names : Op("name", a, None, n, <<a, "create">>) \in CharOps
           /\ Op("count", a, None, None, <<a, "create">>) \in CharOps
           /\ Op("info", a, None, None, <<a, "create">>) \in CharOps
           /\ \A g \in Guids : Op("load", a, g, None, <<a, "login">>) \in CharOps
<1>1. None \in Values /\ (\A n \in Names : n \in Values) /\ (\A v \in Nat : v \in Values)
  BY DEF Values
<1>2. /\ Nobody \in Places /\ <<a, "enum">> \in Places
      /\ <<a, "create">> \in Places /\ <<a, "login">> \in Places
  BY DEF Places
<1>3. /\ \A g \in Guids, n \in Names : Op("insert", a, g, n, Nobody) \in OpSet
      /\ \A g \in Guids, v \in Nat : Op("save", a, g, v, Nobody) \in OpSet
  BY <1>1, <1>2, OpType DEF Kinds
<1>4. /\ \A g \in Guids : Op("delete", a, g, None, Nobody) \in OpSet
      /\ \A g \in Guids : Op("online", a, g, None, Nobody) \in OpSet
      /\ Op("offline", a, None, None, Nobody) \in OpSet
      /\ Op("total", a, None, None, Nobody) \in OpSet
  BY <1>1, <1>2, OpType DEF Kinds
<1>5. /\ Op("enum", a, None, None, <<a, "enum">>) \in OpSet
      /\ \A n \in Names : Op("name", a, None, n, <<a, "create">>) \in OpSet
      /\ Op("count", a, None, None, <<a, "create">>) \in OpSet
      /\ Op("info", a, None, None, <<a, "create">>) \in OpSet
      /\ \A g \in Guids : Op("load", a, g, None, <<a, "login">>) \in OpSet
  BY <1>1, <1>2, OpType DEF Kinds
<1>6. /\ \A g \in Guids, n \in Names : CharOp(Op("insert", a, g, n, Nobody))
      /\ \A g \in Guids, v \in Nat : CharOp(Op("save", a, g, v, Nobody))
      /\ \A g \in Guids : CharOp(Op("delete", a, g, None, Nobody))
      /\ \A g \in Guids : CharOp(Op("online", a, g, None, Nobody))
      /\ CharOp(Op("offline", a, None, None, Nobody))
      /\ CharOp(Op("total", a, None, None, Nobody))
  BY DEF Op, CharOp
<1>7. /\ CharOp(Op("enum", a, None, None, <<a, "enum">>))
      /\ \A n \in Names : CharOp(Op("name", a, None, n, <<a, "create">>))
      /\ CharOp(Op("count", a, None, None, <<a, "create">>))
      /\ CharOp(Op("info", a, None, None, <<a, "create">>))
      /\ \A g \in Guids : CharOp(Op("load", a, g, None, <<a, "login">>))
  BY DEF Op, CharOp
<1> QED BY <1>3, <1>4, <1>5, <1>6, <1>7 DEF CharOps

(* The operations of LoginDatabase.                                        *)
LEMMA LoginOpTypes ==
    ASSUME NEW a \in Accounts
    PROVE  /\ \A v \in BOOLEAN : Op("online", a, None, v, Nobody) \in LoginOps
           /\ \A v \in Nat : Op("numchars", a, None, v, Nobody) \in LoginOps
           /\ Op("dropchars", a, None, None, Nobody) \in LoginOps
           /\ Op("sum", a, None, None, <<a, "create">>) \in LoginOps
<1>1. None \in Values /\ (\A v \in BOOLEAN : v \in Values) /\ (\A v \in Nat : v \in Values)
  BY DEF Values
<1>2. Nobody \in Places /\ <<a, "create">> \in Places
  BY DEF Places
<1>3. /\ \A v \in BOOLEAN : Op("online", a, None, v, Nobody) \in OpSet
      /\ \A v \in Nat : Op("numchars", a, None, v, Nobody) \in OpSet
      /\ Op("dropchars", a, None, None, Nobody) \in OpSet
      /\ Op("sum", a, None, None, <<a, "create">>) \in OpSet
  BY <1>1, <1>2, OpType DEF Kinds
<1>4. /\ \A v \in BOOLEAN : LoginOp(Op("online", a, None, v, Nobody))
      /\ \A v \in Nat : LoginOp(Op("numchars", a, None, v, Nobody))
      /\ LoginOp(Op("dropchars", a, None, None, Nobody))
      /\ LoginOp(Op("sum", a, None, None, <<a, "create">>))
  BY DEF Op, LoginOp
<1> QED BY <1>3, <1>4 DEF LoginOps

(* The fields of an operation.                                             *)
LEMMA OpFields ==
    \A k, a, g, n, to :
        /\ Op(k, a, g, n, to).op = k /\ Op(k, a, g, n, to).a = a /\ Op(k, a, g, n, to).g = g
        /\ Op(k, a, g, n, to).n = n /\ Op(k, a, g, n, to).to = to
BY DEF Op

(* A query forgets the answer that the future waited for.                  *)
LEMMA AskOp ==
    ASSUME NEW q, NEW o, NEW to, o.to = to
    PROVE  Ask(q, o) = Append(Forget(q, {to}), o)
BY DEF Ask

(* A queue does not change, or grows by one operation or by two.           *)
Still(q, r, D) == Keeps(q, r, D) /\ Len(r) = Len(q)
Grows(q, r, D, o) == Keeps(q, r, D) /\ Len(r) = Len(q) + 1 /\ r[Len(q) + 1] = o
Grows2(q, r, D, o, p) ==
    Keeps(q, r, D) /\ Len(r) = Len(q) + 2 /\ r[Len(q) + 1] = o /\ r[Len(q) + 2] = p

(* A step that leaves the queue of the characters alone.                   *)
LEMMA StillCharQ ==
    ASSUME Queued, UNCHANGED charQ
    PROVE  charQ' \in Seq(CharOps) /\ Still(charQ, charQ', {})
BY SameFacts DEF Queued, Still

(* A step that leaves the queue of LoginDatabase alone.                    *)
LEMMA StillLoginQ ==
    ASSUME Queued, UNCHANGED loginQ
    PROVE  loginQ' \in Seq(LoginOps) /\ Still(loginQ, loginQ', {})
BY SameFacts DEF Queued, Still

(* The ways the steps change the two queues.                               *)
LEMMA CharQFacts ==
    ASSUME charQ \in Seq(CharOps), NEW D
    PROVE  /\ \A o \in CharOps : charQ' = Append(charQ, o) =>
                 charQ' \in Seq(CharOps) /\ Grows(charQ, charQ', {}, o)
           /\ \A o \in CharOps : charQ' = Append(Forget(charQ, D), o) =>
                 charQ' \in Seq(CharOps) /\ Grows(charQ, charQ', D, o)
           /\ charQ' = Forget(charQ, D) \o <<>> =>
                 charQ' \in Seq(CharOps) /\ Still(charQ, charQ', D)
           /\ charQ' = charQ \o <<>> =>
                 charQ' \in Seq(CharOps) /\ Still(charQ, charQ', {})
           /\ \A o, p \in CharOps : charQ' = Forget(charQ, D) \o <<o, p>> =>
                 charQ' \in Seq(CharOps) /\ Grows2(charQ, charQ', D, o, p)
           /\ \A o, p \in CharOps : charQ' = charQ \o <<o, p>> =>
                 charQ' \in Seq(CharOps) /\ Grows2(charQ, charQ', {}, o, p)
<1>1. \A o \in CharOps : charQ' = Append(charQ, o) =>
         charQ' \in Seq(CharOps) /\ Grows(charQ, charQ', {}, o)
  BY AppendFacts DEF Grows
<1>2. \A o \in CharOps : charQ' = Append(Forget(charQ, D), o) =>
         charQ' \in Seq(CharOps) /\ Grows(charQ, charQ', D, o)
  BY AskFacts DEF Grows
<1>3. ASSUME NEW e \in Seq(CharOps), charQ' = Forget(charQ, D) \o e
      PROVE  /\ charQ' \in Seq(CharOps) /\ Len(charQ') = Len(charQ) + Len(e)
             /\ Keeps(charQ, charQ', D)
             /\ \A i \in 1..Len(e) : charQ'[Len(charQ) + i] = e[i]
  BY <1>3, AddFacts
<1>4. ASSUME NEW e \in Seq(CharOps), charQ' = charQ \o e
      PROVE  /\ charQ' \in Seq(CharOps) /\ Len(charQ') = Len(charQ) + Len(e)
             /\ Keeps(charQ, charQ', {})
             /\ \A i \in 1..Len(e) : charQ'[Len(charQ) + i] = e[i]
  BY <1>4, JoinFacts
<1>5. <<>> \in Seq(CharOps) /\ Len(<<>>) = 0 /\ Len(charQ) \in Nat
  OBVIOUS
<1>6. ASSUME NEW o \in CharOps, NEW p \in CharOps
      PROVE  <<o, p>> \in Seq(CharOps) /\ Len(<<o, p>>) = 2 /\ <<o, p>>[1] = o /\ <<o, p>>[2] = p
  OBVIOUS
<1>7. ASSUME charQ' = Forget(charQ, D) \o <<>>
      PROVE  charQ' \in Seq(CharOps) /\ Still(charQ, charQ', D)
  <2>1. PICK e \in Seq(CharOps) : e = <<>> /\ Len(e) = 0
    BY <1>5
  <2>2. charQ' = Forget(charQ, D) \o e
    BY <2>1, <1>7
  <2>3. charQ' \in Seq(CharOps) /\ Len(charQ') = Len(charQ) + Len(e) /\ Keeps(charQ, charQ', D)
    BY <2>2, <1>3
  <2> QED BY <2>1, <2>3, <1>5 DEF Still
<1>8. ASSUME charQ' = charQ \o <<>>
      PROVE  charQ' \in Seq(CharOps) /\ Still(charQ, charQ', {})
  <2>1. PICK e \in Seq(CharOps) : e = <<>> /\ Len(e) = 0
    BY <1>5
  <2>2. charQ' = charQ \o e
    BY <2>1, <1>8
  <2>3. charQ' \in Seq(CharOps) /\ Len(charQ') = Len(charQ) + Len(e) /\ Keeps(charQ, charQ', {})
    BY <2>2, <1>4
  <2> QED BY <2>1, <2>3, <1>5 DEF Still
<1>9. ASSUME NEW o \in CharOps, NEW p \in CharOps, charQ' = Forget(charQ, D) \o <<o, p>>
      PROVE  charQ' \in Seq(CharOps) /\ Grows2(charQ, charQ', D, o, p)
  <2>1. PICK e \in Seq(CharOps) : e = <<o, p>> /\ Len(e) = 2 /\ e[1] = o /\ e[2] = p
    BY <1>6
  <2>2. charQ' = Forget(charQ, D) \o e
    BY <2>1, <1>9
  <2>3. /\ charQ' \in Seq(CharOps) /\ Len(charQ') = Len(charQ) + Len(e)
        /\ Keeps(charQ, charQ', D)
        /\ \A i \in 1..Len(e) : charQ'[Len(charQ) + i] = e[i]
    BY <2>2, <1>3
  <2> QED BY <2>1, <2>3 DEF Grows2
<1>10. ASSUME NEW o \in CharOps, NEW p \in CharOps, charQ' = charQ \o <<o, p>>
       PROVE  charQ' \in Seq(CharOps) /\ Grows2(charQ, charQ', {}, o, p)
  <2>1. PICK e \in Seq(CharOps) : e = <<o, p>> /\ Len(e) = 2 /\ e[1] = o /\ e[2] = p
    BY <1>6
  <2>2. charQ' = charQ \o e
    BY <2>1, <1>10
  <2>3. /\ charQ' \in Seq(CharOps) /\ Len(charQ') = Len(charQ) + Len(e)
        /\ Keeps(charQ, charQ', {})
        /\ \A i \in 1..Len(e) : charQ'[Len(charQ) + i] = e[i]
    BY <2>2, <1>4
  <2> QED BY <2>1, <2>3 DEF Grows2
<1> QED BY <1>1, <1>2, <1>7, <1>8, <1>9, <1>10

(* The ways a step changes the queue of LoginDatabase.                     *)
LEMMA LoginQFacts ==
    ASSUME loginQ \in Seq(LoginOps), NEW D
    PROVE  /\ \A o \in LoginOps : loginQ' = Append(loginQ, o) =>
                 loginQ' \in Seq(LoginOps) /\ Grows(loginQ, loginQ', {}, o)
           /\ \A o \in LoginOps : loginQ' = Append(Forget(loginQ, D), o) =>
                 loginQ' \in Seq(LoginOps) /\ Grows(loginQ, loginQ', D, o)
           /\ loginQ' = Forget(loginQ, D) =>
                 loginQ' \in Seq(LoginOps) /\ Still(loginQ, loginQ', D)
<1>1. \A o \in LoginOps : loginQ' = Append(loginQ, o) =>
         loginQ' \in Seq(LoginOps) /\ Grows(loginQ, loginQ', {}, o)
  BY AppendFacts DEF Grows
<1>2. \A o \in LoginOps : loginQ' = Append(Forget(loginQ, D), o) =>
         loginQ' \in Seq(LoginOps) /\ Grows(loginQ, loginQ', D, o)
  BY AskFacts DEF Grows
<1>3. loginQ' = Forget(loginQ, D) => loginQ' \in Seq(LoginOps) /\ Still(loginQ, loginQ', D)
  BY ForgetFacts DEF Still
<1> QED BY <1>1, <1>2, <1>3

(* The same by two operations.                                             *)
LEMMA LoginQGrows ==
    ASSUME loginQ \in Seq(LoginOps), NEW o \in LoginOps, NEW p \in LoginOps,
           loginQ' = loginQ \o <<o, p>>
    PROVE  loginQ' \in Seq(LoginOps) /\ Grows2(loginQ, loginQ', {}, o, p)
<1>1. <<o, p>> \in Seq(LoginOps) /\ Len(<<o, p>>) = 2 /\ <<o, p>>[1] = o /\ <<o, p>>[2] = p
  OBVIOUS
<1>2. PICK e \in Seq(LoginOps) : e = <<o, p>> /\ Len(e) = 2 /\ e[1] = o /\ e[2] = p
  BY <1>1
<1>3. loginQ' = loginQ \o e
  BY <1>2
<1>4. ASSUME NEW q \in Seq(LoginOps), q = loginQ \o e
      PROVE  /\ Len(q) = Len(loginQ) + Len(e) /\ Keeps(loginQ, q, {})
             /\ \A i \in 1..Len(e) : q[Len(loginQ) + i] = e[i]
  BY <1>4, JoinFacts
<1>5. loginQ' \in Seq(LoginOps)
  BY <1>3, JoinFacts
<1>6. /\ Len(loginQ') = Len(loginQ) + Len(e) /\ Keeps(loginQ, loginQ', {})
      /\ \A i \in 1..Len(e) : loginQ'[Len(loginQ) + i] = e[i]
  BY <1>3, <1>4, <1>5
<1> QED BY <1>2, <1>5, <1>6 DEF Grows2

(* LogoutPlayer queues the save and the mark of a player in the world.     *)
LogsOut(a, D) ==
    IF sess[a].player = None THEN Still(charQ, charQ', D)
    ELSE Grows2(charQ, charQ', D, Op("save", a, sess[a].player, version[sess[a].player], Nobody),
                                  Op("offline", a, None, None, Nobody))

(* What a logout queues, with a player in the world and without one.       *)
LEMMA LogoutOpsFacts ==
    ASSUME TypeOK, Queued, NEW a \in Accounts, sess[a] # None, NEW D,
           \/ charQ' = Forget(charQ, D) \o LogoutOps(a)
           \/ D = {} /\ charQ' = charQ \o LogoutOps(a)
    PROVE  charQ' \in Seq(CharOps) /\ LogsOut(a, D)
<1>0. charQ \in Seq(CharOps)
  BY DEF Queued
<1>1. CASE sess[a].player = None
  <2>1. LogoutOps(a) = <<>>
    BY <1>1 DEF LogoutOps
  <2>2. charQ' = Forget(charQ, D) \o <<>> \/ (D = {} /\ charQ' = charQ \o <<>>)
    BY <2>1
  <2>3. charQ' \in Seq(CharOps) /\ Still(charQ, charQ', D)
    BY <1>0, <2>2, CharQFacts
  <2> QED BY <2>3, <1>1 DEF LogsOut
<1>2. CASE sess[a].player # None
  <2> DEFINE o == Op("save", a, sess[a].player, version[sess[a].player], Nobody)
             p == Op("offline", a, None, None, Nobody)
  <2>1. sess[a].player \in Guids /\ version[sess[a].player] \in Nat
    BY <1>2, SessionType DEF TypeOK, Sessions
  <2>2. o \in CharOps /\ p \in CharOps
    BY <2>1, CharOpTypes
  <2>3. LogoutOps(a) = <<o, p>>
    BY <1>2 DEF LogoutOps
  <2> HIDE DEF o, p
  <2>4. charQ' = Forget(charQ, D) \o <<o, p>> \/ (D = {} /\ charQ' = charQ \o <<o, p>>)
    BY <2>3
  <2>5. charQ' \in Seq(CharOps) /\ Grows2(charQ, charQ', D, o, p)
    BY <1>0, <2>2, <2>4, CharQFacts
  <2> QED BY <2>5, <1>2 DEF LogsOut, o, p
<1> QED BY <1>1, <1>2

-----------------------------------------------------------------------------
(* The steps, by their effects: what the later proofs use of the actions   *)

Stored == <<row, online>>
Traced == <<hasty, contended, raced>>

(* The queue of LoginDatabase grows by writes only, none of them a mark.   *)
OnlyWrites ==
    /\ Keeps(loginQ, loginQ', {})
    /\ \A i \in DOMAIN loginQ' : i > Len(loginQ) => loginQ'[i].to = Nobody /\ loginQ'[i].op # "online"

DidConnect(a) ==
    /\ \/ joining' = joining \cup {a} /\ stuck' = stuck
       \/ joining' = joining /\ stuck' = stuck \cup {a}
    /\ Grows(loginQ, loginQ', {}, Op("online", a, None, TRUE, Nobody))
    /\ UNCHANGED <<sess, charQ, Stored, version, nextGuid, Traced>>
DidKeep(a) ==
    /\ sess[a] # None /\ sess[a].loading /\ joining' = joining \ {a} /\ stuck' = stuck
    /\ Grows(loginQ, loginQ', {}, Op("online", a, None, FALSE, Nobody))
    /\ UNCHANGED <<sess, charQ, Stored, version, nextGuid, Traced>>
DidAdd(a) ==
    /\ sess[a] = None /\ joining' = joining \ {a} /\ stuck' = stuck
    /\ Moved(a) /\ sess'[a] = NewSession
    /\ UNCHANGED <<charQ, loginQ, Stored, version, nextGuid, Traced>>
DidDelete(a) ==
    /\ sess[a] # None
    /\ LogsOut(a, Futures(a))
    /\ Grows(loginQ, loginQ', Futures(a), Op("online", a, None, FALSE, Nobody))
    /\ UNCHANGED <<Stored, version, nextGuid, Traced>>
DidReplace(a) ==
    /\ DidDelete(a) /\ ~sess[a].loading /\ joining' = joining \ {a} /\ stuck' = stuck
    /\ Moved(a) /\ sess'[a] = NewSession
DidRemove(a) ==
    /\ DidDelete(a) /\ joining' = joining /\ stuck' = stuck \ {a}
    /\ Moved(a) /\ sess'[a] = None
DidDisconnect(a) ==
    /\ sess[a] # None /\ Moved(a) /\ sess'[a] \in Sessions
    /\ SameWorld(a) /\ SameCreate(a) /\ SameList(a)
    /\ UNCHANGED <<joining, stuck, charQ, loginQ, Stored, version, nextGuid, Traced>>
DidLogout(a) ==
    /\ sess[a] # None /\ sess[a].player # None /\ Moved(a) /\ sess'[a] \in Sessions
    /\ SameCreate(a) /\ SameList(a)
    /\ sess'[a].player = None /\ sess'[a].loading = sess[a].loading
    /\ sess'[a].holder = sess[a].holder /\ sess'[a].login = sess[a].login
    /\ LogsOut(a, {})
    /\ UNCHANGED <<joining, stuck, loginQ, Stored, version, nextGuid, Traced>>
DidPlay(a) ==
    /\ sess[a] # None /\ sess[a].player # None
    /\ version' = [version EXCEPT ![sess[a].player] = @ + 1]
    /\ UNCHANGED <<sess, joining, stuck, charQ, loginQ, Stored, nextGuid, Traced>>
DidSave(a) ==
    /\ sess[a] # None /\ sess[a].player # None
    /\ Grows(charQ, charQ', {}, Op("save", a, sess[a].player, version[sess[a].player], Nobody))
    /\ UNCHANGED <<sess, joining, stuck, loginQ, Stored, version, nextGuid, Traced>>
DidAskEnum(a) ==
    /\ sess[a] # None /\ Moved(a) /\ sess'[a] \in Sessions
    /\ SameWorld(a) /\ SameCreate(a) /\ sess'[a].legit = sess[a].legit /\ sess'[a].enum = Waiting
    /\ Grows(charQ, charQ', {<<a, "enum">>}, Op("enum", a, None, None, <<a, "enum">>))
    /\ UNCHANGED <<joining, stuck, loginQ, Stored, version, nextGuid, Traced>>
DidList(a) ==
    /\ sess[a] # None /\ Ready(sess[a].enum) /\ Moved(a) /\ sess'[a] \in Sessions
    /\ SameWorld(a) /\ SameCreate(a) /\ sess'[a].enum = None
    /\ sess'[a].legit \in {sess[a].legit, sess[a].enum}
    /\ UNCHANGED <<joining, stuck, charQ, loginQ, Stored, version, nextGuid, Traced>>
DidAskName(a, n) ==
    /\ sess[a] # None /\ Moved(a) /\ sess'[a] \in Sessions
    /\ SameWorld(a) /\ SameList(a)
    /\ sess'[a].info = n /\ sess'[a].count = 0 /\ sess'[a].create = Waiting
    /\ sess'[a].stage = sess[a].stage
    /\ Grows(charQ, charQ', {<<a, "create">>}, Op("name", a, None, n, <<a, "create">>))
    /\ Still(loginQ, loginQ', {<<a, "create">>})
    /\ hasty' = IF sess[a].stage # 0 THEN hasty \cup {a} ELSE hasty
    /\ contended' = IF BeingCreated(n) THEN contended \cup {n} ELSE contended
    /\ UNCHANGED <<joining, stuck, Stored, version, nextGuid, raced>>
DidReset(a) ==
    /\ sess[a] # None /\ Ready(sess[a].create) /\ Moved(a) /\ sess'[a] \in Sessions
    /\ SameWorld(a) /\ SameList(a)
    /\ sess'[a].info = None /\ sess'[a].count = 0 /\ sess'[a].create = None
    /\ sess'[a].stage = 0
    /\ UNCHANGED <<joining, stuck, Stored, version, Traced>>
DidRefuse(a) ==
    /\ DidReset(a) /\ UNCHANGED <<charQ, loginQ>>
    /\ nextGuid' \in {nextGuid, nextGuid + 1}
DidStage(a, i, c) ==
    /\ sess[a] # None /\ Ready(sess[a].create) /\ Moved(a) /\ sess'[a] \in Sessions
    /\ sess[a].stage = i - 1
    /\ SameWorld(a) /\ SameList(a)
    /\ sess'[a].info = sess[a].info /\ sess'[a].count = c /\ sess'[a].create = Waiting
    /\ sess'[a].stage = i
    /\ UNCHANGED <<joining, stuck, Stored, version, nextGuid, Traced>>
DidAskSum(a) ==
    /\ DidStage(a, 1, 0) /\ ~sess[a].create.rows
    /\ Grows(loginQ, loginQ', {<<a, "create">>}, Op("sum", a, None, None, <<a, "create">>))
    /\ UNCHANGED charQ
DidAskCount(a) ==
    /\ DidStage(a, 2, 0)
    /\ Grows(charQ, charQ', {<<a, "create">>}, Op("count", a, None, None, <<a, "create">>))
    /\ UNCHANGED loginQ
Counted(a, c) ==
    c = IF sess[a].create.rows THEN sess[a].create.num ELSE 0
DidAskInfo(a, c) ==
    /\ DidStage(a, 3, c) /\ Counted(a, c) /\ c < PerRealm
    /\ Grows(charQ, charQ', {<<a, "create">>}, Op("info", a, None, None, <<a, "create">>))
    /\ UNCHANGED loginQ
DidCreate(a, c) ==
    /\ DidReset(a)
    /\ \/ sess[a].stage = 2 /\ Counted(a, c) /\ c < PerRealm
       \/ sess[a].stage = 3 /\ c = sess[a].count
    /\ nextGuid \in Guids /\ nextGuid' = nextGuid + 1
    /\ Grows(charQ, charQ', {}, Op("insert", a, nextGuid, sess[a].info, Nobody))
    /\ Grows(loginQ, loginQ', {}, Op("numchars", a, None, c + 1, Nobody))
DidDrop(a, g) ==
    /\ g \in OfAccount(a) /\ raced' \in {raced, raced \cup {g}}
    /\ InWorld(g) \/ BeingLoaded(g) => g \in raced'
    /\ Grows2(charQ, charQ', {}, Op("delete", a, g, None, Nobody), Op("total", a, None, None, Nobody))
    /\ UNCHANGED <<sess, joining, stuck, loginQ, Stored, version, nextGuid, hasty, contended>>
DidUpdateCount ==
    /\ OnlyWrites
    /\ UNCHANGED <<sess, joining, stuck, charQ, Stored, version, nextGuid, Traced>>
DidLoad(a, g) ==
    /\ sess[a] # None /\ ~sess[a].loading /\ sess[a].player = None /\ g \in sess[a].legit
    /\ Moved(a) /\ sess'[a] \in Sessions /\ SameCreate(a) /\ SameList(a)
    /\ sess'[a].player = sess[a].player /\ sess'[a].loading
    /\ sess'[a].holder = g /\ sess'[a].login = Waiting
    /\ Grows(charQ, charQ', {<<a, "login">>}, Op("load", a, g, None, <<a, "login">>))
    /\ UNCHANGED <<joining, stuck, loginQ, Stored, version, nextGuid, Traced>>
DidKick(a) ==
    /\ sess[a] # None /\ ~sess[a].loading /\ sess[a].player = None
    /\ Moved(a) /\ sess'[a] \in Sessions /\ SameCreate(a) /\ SameList(a)
    /\ sess'[a].player = sess[a].player /\ sess'[a].loading
    /\ sess'[a].holder = sess[a].holder /\ sess'[a].login = sess[a].login
    /\ UNCHANGED <<joining, stuck, charQ, loginQ, Stored, version, nextGuid, Traced>>
DidAnswer(a) ==
    /\ sess[a] # None /\ Ready(sess[a].login)
    /\ Moved(a) /\ sess'[a] \in Sessions /\ SameCreate(a) /\ SameList(a) /\ ~sess'[a].loading
    /\ sess'[a].holder = None /\ sess'[a].login = None
    /\ UNCHANGED <<joining, stuck, Stored, nextGuid, Traced>>
DidEnter(a) ==
    /\ DidAnswer(a) /\ sess[a].login[1] # None /\ sess[a].holder \in Guids
    /\ sess'[a].player = sess[a].holder
    /\ version' = [version EXCEPT ![sess[a].holder] = sess[a].login[1].ver]
    /\ Grows(charQ, charQ', {}, Op("online", a, sess[a].holder, None, Nobody))
    /\ Grows(loginQ, loginQ', {}, Op("online", a, None, TRUE, Nobody))
DidFail(a) ==
    /\ DidAnswer(a) /\ sess'[a].player = sess[a].player
    /\ UNCHANGED <<version, charQ, loginQ>>

(* A step of an account.                                                   *)
Did(a) ==
    \/ DidConnect(a) \/ DidKeep(a) \/ DidAdd(a) \/ DidReplace(a) \/ DidRemove(a)
    \/ DidDisconnect(a) \/ DidLogout(a) \/ DidPlay(a) \/ DidSave(a)
    \/ DidAskEnum(a) \/ DidList(a) \/ DidRefuse(a) \/ DidAskSum(a) \/ DidAskCount(a)
    \/ DidKick(a) \/ DidEnter(a) \/ DidFail(a)
    \/ \E n \in Names : DidAskName(a, n)
    \/ \E c \in Nat : DidAskInfo(a, c) \/ DidCreate(a, c)
    \/ \E g \in Guids : DidDrop(a, g) \/ DidLoad(a, g)

(* Facts an action needs of the state it starts in.                        *)
LEMMA BaseFacts ==
    ASSUME Base, NEW a \in Accounts, sess[a] # None
    PROVE  /\ sess[a] \in Sessions
           /\ sess[a].player # None => sess[a].player \in Guids /\ version[sess[a].player] \in Nat
           /\ Ready(sess[a].create) => sess[a].create \in Answers /\ sess[a].info \in Names
           /\ Ready(sess[a].login) => sess[a].login \in Loads /\ sess[a].holder \in Guids
           /\ Ready(sess[a].enum) => sess[a].enum \in SUBSET Guids
           /\ sess[a].legit \in SUBSET Guids /\ sess[a].count \in Nat
<1>1. sess[a] \in Sessions
  BY SessionType DEF Base
<1>2. /\ sess[a].player \in {None} \cup Guids /\ sess[a].create \in {None, Waiting} \cup Answers
      /\ sess[a].login \in {None, Waiting} \cup Loads /\ sess[a].holder \in {None} \cup Guids
      /\ sess[a].info \in {None} \cup Names /\ sess[a].legit \in SUBSET Guids
      /\ sess[a].enum \in {None, Waiting} \cup SUBSET Guids /\ sess[a].count \in Nat
  BY <1>1 DEF Sessions
<1>3. version \in [Guids -> Nat]
  BY DEF Base, TypeOK
<1>4. /\ sess[a].create = None <=> sess[a].info = None
      /\ sess[a].login = None <=> sess[a].holder = None
  BY DEF Base, Paired
<1> QED BY <1>1, <1>2, <1>3, <1>4 DEF Ready

(* A client connects.                                                      *)
LEMMA ConnectDid ==
    ASSUME Base, NEW a \in Accounts, Connect(a)
    PROVE  DidConnect(a) /\ Queued' /\ TypeOK'
<1>0. TypeOK /\ Queued
  BY DEF Base
<1>1. /\ UNCHANGED <<sess, charQ, row, realm, online, counts, version, nextGuid, crashes>>
      /\ UNCHANGED <<hasty, contended, raced, cut, zoning>>
      /\ \/ joining' = joining \cup {a} /\ stuck' = stuck
         \/ joining' = joining /\ stuck' = stuck \cup {a}
      /\ loginQ' = Append(loginQ, Op("online", a, None, TRUE, Nobody))
      /\ left \in Nat /\ left > 0 /\ left' = left - 1
  BY <1>0 DEF Connect, Request, database, TypeOK
<1>2. loginQ' \in Seq(LoginOps) /\ Grows(loginQ, loginQ', {}, Op("online", a, None, TRUE, Nobody))
  BY <1>0, <1>1, LoginOpTypes, LoginQFacts DEF Queued
<1>3. Queued'
  BY <1>0, <1>1, <1>2 DEF Queued
<1>4. joining' \subseteq Accounts /\ stuck' \subseteq Accounts
  BY <1>0, <1>1 DEF TypeOK
<1>5. TypeOK'
  BY <1>0, <1>1, <1>4 DEF TypeOK
<1> QED BY <1>1, <1>2, <1>3, <1>5 DEF DidConnect, Stored, Traced

(* A session is deleted, its player logged out first.                      *)
LEMMA DeleteDid ==
    ASSUME Base, NEW a \in Accounts, sess[a] # None, DeleteSession(a),
           UNCHANGED <<row, online, version, nextGuid, hasty, contended, raced>>
    PROVE  DidDelete(a) /\ Queued'
<1>0. TypeOK /\ Queued
  BY DEF Base
<1>1. /\ charQ' = Forget(charQ, Futures(a)) \o LogoutOps(a)
      /\ loginQ' = Append(Forget(loginQ, Futures(a)), Op("online", a, None, FALSE, Nobody))
  BY DEF DeleteSession
<1>2. charQ' \in Seq(CharOps) /\ LogsOut(a, Futures(a))
  BY <1>0, <1>1, LogoutOpsFacts
<1>3. /\ loginQ' \in Seq(LoginOps)
      /\ Grows(loginQ, loginQ', Futures(a), Op("online", a, None, FALSE, Nobody))
  BY <1>0, <1>1, LoginOpTypes, LoginQFacts DEF Queued
<1>4. Queued'
  BY <1>2, <1>3 DEF Queued
<1> QED BY <1>2, <1>3, <1>4 DEF DidDelete, Stored, Traced

(* The new session takes the place of the old one.                         *)
LEMMA AddSessionDid ==
    ASSUME Base, NEW a \in Accounts, AddSession(a)
    PROVE  (DidKeep(a) \/ DidAdd(a) \/ DidReplace(a)) /\ Queued' /\ TypeOK'
<1>0. TypeOK /\ Queued
  BY DEF Base
<1>1. /\ UNCHANGED <<row, realm, online, counts, version, nextGuid, left, crashes>>
      /\ UNCHANGED <<hasty, contended, raced, stuck, cut>> /\ joining' = joining \ {a}
      /\ zoning' = zoning \/ zoning' = zoning \ {a}
  BY DEF AddSession, DeleteSession, database, history
<1>2. CASE sess[a] # None /\ sess[a].loading
  <2>1. /\ loginQ' = Append(loginQ, Op("online", a, None, FALSE, Nobody))
        /\ UNCHANGED <<sess, charQ>>
    BY <1>2 DEF AddSession
  <2>2. loginQ' \in Seq(LoginOps) /\ Grows(loginQ, loginQ', {}, Op("online", a, None, FALSE, Nobody))
    BY <1>0, <2>1, LoginOpTypes, LoginQFacts DEF Queued
  <2>3. Queued'
    BY <1>0, <2>1, <2>2 DEF Queued
  <2>4. TypeOK'
    BY <1>0, <1>1, <2>1 DEF TypeOK
  <2>5. DidKeep(a)
    BY <1>1, <1>2, <2>1, <2>2 DEF DidKeep, Stored, Traced
  <2> QED BY <2>3, <2>4, <2>5
<1>3. CASE ~(sess[a] # None /\ sess[a].loading)
  <2>1. sess' = [sess EXCEPT ![a] = NewSession]
    BY <1>3 DEF AddSession
  <2>2. Moved(a) /\ sess'[a] = NewSession
    BY <1>0, <2>1, NewSessionFacts, Replaced
  <2>3. TypeOK'
    BY <1>0, <1>1, <2>2 DEF TypeOK, Moved
  <2>4. CASE sess[a] = None
    <3>1. UNCHANGED <<charQ, loginQ>>
      BY <1>3, <2>4 DEF AddSession
    <3>2. Queued'
      BY <1>0, <3>1 DEF Queued
    <3>3. DidAdd(a)
      BY <1>1, <2>2, <2>4, <3>1 DEF DidAdd, Stored, Traced
    <3> QED BY <2>3, <3>2, <3>3
  <2>5. CASE sess[a] # None
    <3>1. DeleteSession(a)
      BY <1>3, <2>5 DEF AddSession
    <3>2. DidDelete(a) /\ Queued'
      BY <1>1, <2>5, <3>1, DeleteDid
    <3>3. DidReplace(a)
      BY <1>1, <1>3, <2>2, <2>5, <3>2 DEF DidReplace
    <3> QED BY <2>3, <3>2, <3>3
  <2> QED BY <2>4, <2>5
<1> QED BY <1>2, <1>3

(* The sessions that are closed are removed.                               *)
LEMMA RemoveSessionDid ==
    ASSUME Base, NEW a \in Accounts, RemoveSession(a)
    PROVE  DidRemove(a) /\ Queued' /\ TypeOK'
<1>0. TypeOK /\ Queued
  BY DEF Base
<1>1. /\ UNCHANGED <<joining, row, realm, online, counts, version, nextGuid, left, crashes>>
      /\ UNCHANGED <<hasty, contended, raced>>
      /\ stuck' = stuck \ {a} /\ cut' = cut \ {a} /\ zoning' = zoning \ {a}
      /\ sess[a] # None /\ DeleteSession(a) /\ sess' = [sess EXCEPT ![a] = None]
  BY DEF RemoveSession, DeleteSession, database
<1>2. Moved(a) /\ sess'[a] = None
  BY <1>0, <1>1, Replaced
<1>3. DidDelete(a) /\ Queued'
  BY <1>1, DeleteDid
<1>4. TypeOK'
  BY <1>0, <1>1, <1>2 DEF TypeOK, Moved
<1> QED BY <1>1, <1>2, <1>3, <1>4 DEF DidRemove

(* A socket closes.                                                        *)
LEMMA DisconnectDid ==
    ASSUME Base, NEW a \in Accounts, Disconnect(a)
    PROVE  DidDisconnect(a) /\ Queued' /\ TypeOK'
<1>0. TypeOK /\ Queued
  BY DEF Base
<1>1. /\ UNCHANGED <<joining, charQ, loginQ, row, realm, online, counts, version, nextGuid, crashes>>
      /\ UNCHANGED <<hasty, contended, raced, stuck, cut, zoning>>
      /\ sess[a] # None /\ sess' = [sess EXCEPT ![a].open = FALSE]
      /\ left \in Nat /\ left > 0 /\ left' = left - 1
  BY <1>0 DEF Disconnect, Active, Request, database, history, TypeOK
<1>2. /\ Moved(a) /\ sess'[a] \in Sessions
      /\ SameWorld(a) /\ SameCreate(a) /\ SameList(a)
  BY <1>0, <1>1, DisconnectEffect
<1>3. Queued'
  BY <1>0, <1>1 DEF Queued
<1>4. TypeOK'
  BY <1>0, <1>1, <1>2 DEF TypeOK, Moved
<1> QED BY <1>1, <1>2, <1>3, <1>4 DEF DidDisconnect, Stored, Traced

(* A player logs out to the character screen.                              *)
LEMMA LogoutPlayerDid ==
    ASSUME Base, NEW a \in Accounts, LogoutPlayer(a)
    PROVE  DidLogout(a) /\ Queued' /\ TypeOK'
<1>0. TypeOK /\ Queued
  BY DEF Base
<1>1. /\ UNCHANGED <<joining, loginQ, row, realm, online, counts, version, nextGuid, crashes>>
      /\ UNCHANGED <<hasty, contended, raced, stuck, cut>> /\ zoning' = zoning \ {a}
      /\ sess[a] # None /\ sess[a].player # None /\ sess' = [sess EXCEPT ![a].player = None]
      /\ charQ' = charQ \o LogoutOps(a)
      /\ left \in Nat /\ left > 0 /\ left' = left - 1
  BY <1>0 DEF LogoutPlayer, Active, Request, database, history, TypeOK
<1>2. /\ Moved(a) /\ sess'[a] \in Sessions
      /\ SameCreate(a) /\ SameList(a)
      /\ sess'[a].player = None /\ sess'[a].loading = sess[a].loading
      /\ sess'[a].holder = sess[a].holder /\ sess'[a].login = sess[a].login
  BY <1>0, <1>1, LogoutEffect
<1>3. charQ' \in Seq(CharOps) /\ LogsOut(a, {})
  BY <1>0, <1>1, LogoutOpsFacts
<1>4. Queued'
  BY <1>0, <1>1, <1>3 DEF Queued
<1>5. TypeOK'
  BY <1>0, <1>1, <1>2 DEF TypeOK, Moved
<1> QED BY <1>1, <1>2, <1>3, <1>4, <1>5 DEF DidLogout, Stored, Traced

(* A player in the world changes.                                          *)
LEMMA PlayDid ==
    ASSUME Base, NEW a \in Accounts, Play(a)
    PROVE  DidPlay(a) /\ Queued' /\ TypeOK'
<1>0. TypeOK /\ Queued
  BY DEF Base
<1>1. /\ UNCHANGED <<sess, joining, charQ, loginQ, row, realm, online, counts, nextGuid, left, crashes>>
      /\ UNCHANGED <<hasty, contended, raced, stuck, cut, zoning>>
      /\ sess[a] # None /\ sess[a].player # None
      /\ version' = [version EXCEPT ![sess[a].player] = @ + 1]
  BY DEF Play, database, history
<1>2. sess[a].player \in Guids
  BY <1>1, BaseFacts
<1>3. version' \in [Guids -> Nat]
  BY <1>0, <1>1, <1>2 DEF TypeOK
<1>4. TypeOK'
  BY <1>0, <1>1, <1>3 DEF TypeOK
<1>5. Queued'
  BY <1>0, <1>1 DEF Queued
<1> QED BY <1>1, <1>4, <1>5 DEF DidPlay, Stored, Traced

(* A player in the world is saved.                                         *)
LEMMA AutoSaveDid ==
    ASSUME Base, NEW a \in Accounts, AutoSave(a)
    PROVE  DidSave(a) /\ Queued' /\ TypeOK'
<1>0. TypeOK /\ Queued
  BY DEF Base
<1> DEFINE o == Op("save", a, sess[a].player, version[sess[a].player], Nobody)
<1>1. /\ UNCHANGED <<sess, joining, loginQ, row, realm, online, counts, version, nextGuid, crashes>>
      /\ UNCHANGED <<hasty, contended, raced, stuck, cut, zoning>>
      /\ sess[a] # None /\ sess[a].player # None
      /\ charQ' = Append(charQ, o)
      /\ left \in Nat /\ left > 0 /\ left' = left - 1
  BY <1>0 DEF AutoSave, Request, database, history, TypeOK
<1>2. o \in CharOps
  BY <1>1, BaseFacts, CharOpTypes
<1> HIDE DEF o
<1>3. charQ' \in Seq(CharOps) /\ Grows(charQ, charQ', {}, o)
  BY <1>0, <1>1, <1>2, CharQFacts DEF Queued
<1>4. Queued'
  BY <1>0, <1>1, <1>3 DEF Queued
<1>5. TypeOK'
  BY <1>0, <1>1 DEF TypeOK
<1> QED BY <1>1, <1>3, <1>4, <1>5 DEF DidSave, Stored, Traced, o

(* CMSG_CHAR_ENUM.                                                         *)
LEMMA EnumOpcodeDid ==
    ASSUME Base, NEW a \in Accounts, HandleCharEnumOpcode(a)
    PROVE  DidAskEnum(a) /\ Queued' /\ TypeOK'
<1>0. TypeOK /\ Queued
  BY DEF Base
<1> DEFINE o == Op("enum", a, None, None, <<a, "enum">>)
<1>1. /\ UNCHANGED <<joining, loginQ, row, realm, online, counts, version, nextGuid, crashes>>
      /\ UNCHANGED <<hasty, contended, raced, stuck, cut, zoning>>
      /\ sess[a] # None /\ sess' = [sess EXCEPT ![a].enum = Waiting]
      /\ charQ' = Ask(charQ, o)
      /\ left \in Nat /\ left > 0 /\ left' = left - 1
  BY <1>0 DEF HandleCharEnumOpcode, Active, Request, database, history, TypeOK
<1>2. o \in CharOps /\ charQ' = Append(Forget(charQ, {<<a, "enum">>}), o)
  <2>1. o \in CharOps
    BY CharOpTypes
  <2>2. o.to = <<a, "enum">>
    BY OpFields
  <2>3. Ask(charQ, o) = Append(Forget(charQ, {<<a, "enum">>}), o)
    BY <2>2, AskOp
  <2> QED BY <1>1, <2>1, <2>3
<1> HIDE DEF o
<1>3. charQ' \in Seq(CharOps) /\ Grows(charQ, charQ', {<<a, "enum">>}, o)
  BY <1>0, <1>1, <1>2, CharQFacts DEF Queued
<1>4. /\ Moved(a) /\ sess'[a] \in Sessions /\ SameWorld(a) /\ SameCreate(a)
      /\ sess'[a].legit = sess[a].legit /\ sess'[a].enum = Waiting
  BY <1>0, <1>1, EnumEffect
<1>5. Queued'
  BY <1>0, <1>1, <1>3 DEF Queued
<1>6. TypeOK'
  BY <1>0, <1>1, <1>4 DEF TypeOK, Moved
<1> QED BY <1>1, <1>3, <1>4, <1>5, <1>6 DEF DidAskEnum, Stored, Traced, o

(* The callback of the list.                                               *)
LEMMA EnumDid ==
    ASSUME Base, NEW a \in Accounts, HandleCharEnum(a)
    PROVE  DidList(a) /\ Queued' /\ TypeOK'
<1>0. TypeOK /\ Queued
  BY DEF Base
<1> DEFINE l == IF sess[a].enum = {} THEN sess[a].legit ELSE sess[a].enum
<1>1. /\ UNCHANGED <<joining, charQ, loginQ, row, realm, online, counts, version, nextGuid, left, crashes>>
      /\ UNCHANGED <<hasty, contended, raced, stuck, cut, zoning>>
      /\ sess[a] # None /\ Ready(sess[a].enum)
      /\ sess' = [sess EXCEPT ![a].enum = None,
                              ![a].legit = IF sess[a].enum = {} THEN @ ELSE sess[a].enum]
  BY DEF HandleCharEnum, database, history
<1>2. sess[a] \in Sessions /\ l \in SUBSET Guids /\ l \in {sess[a].legit, sess[a].enum}
  BY <1>1, BaseFacts
<1>3. sess' = [sess EXCEPT ![a].enum = None, ![a].legit = l]
  BY <1>0, <1>1, <1>2 DEF TypeOK, Sessions
<1> HIDE DEF l
<1>4. /\ Moved(a) /\ sess'[a] \in Sessions /\ SameWorld(a) /\ SameCreate(a)
      /\ sess'[a].legit = l /\ sess'[a].enum = None
  BY <1>0, <1>1, <1>2, <1>3, ListEffect
<1>5. Queued'
  BY <1>0, <1>1 DEF Queued
<1>6. TypeOK'
  BY <1>0, <1>1, <1>4 DEF TypeOK, Moved
<1> QED BY <1>1, <1>2, <1>4, <1>5, <1>6 DEF DidList, Stored, Traced

(* CMSG_CHAR_CREATE: it is refused, or asks whether the name is taken.     *)
LEMMA CreateOpcodeDid ==
    ASSUME Base, NEW a \in Accounts, NEW n \in Names, HandleCharCreateOpcode(a, n)
    PROVE  DidAskName(a, n) /\ Queued' /\ TypeOK'
<1>0. TypeOK /\ Queued
  BY DEF Base
<1> DEFINE o == Op("name", a, None, n, <<a, "create">>)
<1>1. /\ UNCHANGED <<joining, row, realm, online, counts, version, nextGuid, crashes, raced>>
      /\ UNCHANGED <<stuck, cut, zoning>>
      /\ sess[a] # None
      /\ sess' = [sess EXCEPT ![a].info = n, ![a].count = 0, ![a].create = Waiting]
      /\ charQ' = Ask(charQ, o)
      /\ loginQ' = Forget(loginQ, {<<a, "create">>})
      /\ hasty' = IF sess[a].stage # 0 THEN hasty \cup {a} ELSE hasty
      /\ contended' = IF BeingCreated(n) THEN contended \cup {n} ELSE contended
      /\ left > 0 /\ left' = left - 1
  BY DEF HandleCharCreateOpcode, Active, Request, database
<1>2. o \in CharOps /\ charQ' = Append(Forget(charQ, {<<a, "create">>}), o)
  <2>1. o \in CharOps
    BY CharOpTypes
  <2>2. o.to = <<a, "create">>
    BY OpFields
  <2>3. Ask(charQ, o) = Append(Forget(charQ, {<<a, "create">>}), o)
    BY <2>2, AskOp
  <2> QED BY <1>1, <2>1, <2>3
<1> HIDE DEF o
<1>3. charQ' \in Seq(CharOps) /\ Grows(charQ, charQ', {<<a, "create">>}, o)
  BY <1>0, <1>1, <1>2, CharQFacts DEF Queued
<1>4. loginQ' \in Seq(LoginOps) /\ Still(loginQ, loginQ', {<<a, "create">>})
  BY <1>0, <1>1, LoginQFacts DEF Queued
<1>5. /\ Moved(a) /\ sess'[a] \in Sessions /\ SameWorld(a) /\ SameList(a)
      /\ sess'[a].info = n /\ sess'[a].count = 0 /\ sess'[a].create = Waiting
      /\ sess'[a].stage = sess[a].stage
  BY <1>0, <1>1, AskNameEffect
<1>6. Queued'
  BY <1>3, <1>4 DEF Queued
<1>7. hasty' \subseteq Accounts /\ contended' \subseteq Names /\ left' \in Nat
  BY <1>0, <1>1 DEF TypeOK
<1>8. TypeOK'
  BY <1>0, <1>1, <1>5, <1>7 DEF TypeOK, Moved
<1> QED BY <1>1, <1>3, <1>4, <1>5, <1>6, <1>8 DEF DidAskName, Stored, o

(* The common part of the stages of a creation.                            *)
CreateRest(a) ==
    /\ sess[a] # None /\ Ready(sess[a].create)
    /\ UNCHANGED <<joining, row, realm, online, counts, version, left, crashes>>
    /\ UNCHANGED <<hasty, contended, raced, stuck, cut, zoning>>

(* A stage that resets the creation and asks for nothing refuses it.       *)
LEMMA ResetDid ==
    ASSUME Base, NEW a \in Accounts, CreateRest(a), sess' = [sess EXCEPT ![a] = Reset(@)],
           nextGuid' \in {nextGuid, nextGuid + 1}
    PROVE  DidReset(a) /\ TypeOK'
<1>0. TypeOK
  BY DEF Base
<1>1. /\ Moved(a) /\ sess'[a] \in Sessions /\ SameWorld(a) /\ SameList(a)
      /\ sess'[a].info = None /\ sess'[a].count = 0 /\ sess'[a].create = None
      /\ sess'[a].stage = 0
  BY <1>0, ResetEffect DEF CreateRest
<1>2. nextGuid' \in Nat \ {0}
  BY <1>0 DEF TypeOK
<1>3. TypeOK'
  BY <1>0, <1>1, <1>2 DEF TypeOK, Moved, CreateRest
<1> QED BY <1>1, <1>3 DEF DidReset, CreateRest, Stored, Traced

(* The ways a stage ends the creation.                                     *)
LEMMA RefuseDid ==
    ASSUME Base, NEW a \in Accounts, CreateRest(a), sess' = [sess EXCEPT ![a] = Reset(@)],
           nextGuid' \in {nextGuid, nextGuid + 1}, UNCHANGED <<charQ, loginQ>>
    PROVE  DidRefuse(a) /\ Queued' /\ TypeOK'
<1>1. DidReset(a) /\ TypeOK'
  BY ResetDid
<1>2. Queued'
  BY DEF Base, Queued
<1> QED BY <1>1, <1>2 DEF DidRefuse

(* A stage that asks the next query.                                       *)
LEMMA StageDid ==
    ASSUME Base, NEW a \in Accounts, CreateRest(a), NEW i \in 1 .. 3, NEW c \in Nat,
           NextStage(a, i, c), sess[a].stage = i - 1, nextGuid' = nextGuid
    PROVE  DidStage(a, i, c) /\ TypeOK'
<1>0. TypeOK
  BY DEF Base
<1>1. /\ Moved(a) /\ sess'[a] \in Sessions /\ SameWorld(a) /\ SameList(a)
      /\ sess'[a].info = sess[a].info /\ sess'[a].count = c /\ sess'[a].create = Waiting
      /\ sess'[a].stage = i
  BY <1>0, StageEffect DEF CreateRest
<1>2. TypeOK'
  BY <1>0, <1>1 DEF TypeOK, Moved, CreateRest
<1> QED BY <1>1, <1>2 DEF DidStage, CreateRest, Stored, Traced

(* The answer about the name (case 0 of HandleCharCreateCallback).         *)
LEMMA Stage0Did ==
    ASSUME Base, NEW a \in Accounts, CreateStage0(a)
    PROVE  (DidRefuse(a) \/ DidAskSum(a)) /\ Queued' /\ TypeOK'
<1>0. TypeOK /\ Queued
  BY DEF Base
<1>1. CreateRest(a) /\ sess[a].stage = 0
  BY DEF CreateStage0, CreateRest, InStage, database, history
<1>2. CASE sess[a].create.rows
  <2>1. sess' = [sess EXCEPT ![a] = Reset(@)] /\ UNCHANGED <<charQ, loginQ, nextGuid>>
    BY <1>2 DEF CreateStage0, EndCreate
  <2> QED BY <1>1, <2>1, RefuseDid
<1>3. CASE ~sess[a].create.rows
  <2> DEFINE o == Op("sum", a, None, None, <<a, "create">>)
  <2>1. /\ loginQ' = Ask(loginQ, o)
        /\ NextStage(a, 1, 0) /\ UNCHANGED <<charQ, nextGuid>>
    BY <1>3 DEF CreateStage0
  <2>2. o \in LoginOps /\ loginQ' = Append(Forget(loginQ, {<<a, "create">>}), o)
    <3>1. o \in LoginOps
      BY LoginOpTypes
    <3>2. o.to = <<a, "create">>
      BY OpFields
    <3>3. Ask(loginQ, o) = Append(Forget(loginQ, {<<a, "create">>}), o)
      BY <3>2, AskOp
    <3> QED BY <2>1, <3>1, <3>3
  <2> HIDE DEF o
  <2>3. loginQ' \in Seq(LoginOps) /\ Grows(loginQ, loginQ', {<<a, "create">>}, o)
    BY <1>0, <2>1, <2>2, LoginQFacts DEF Queued
  <2>4. DidStage(a, 1, 0) /\ TypeOK'
    BY <1>1, <2>1, StageDid
  <2>5. Queued'
    BY <1>0, <2>1, <2>3 DEF Queued
  <2>6. DidAskSum(a)
    BY <1>3, <2>1, <2>3, <2>4 DEF DidAskSum, o
  <2> QED BY <2>4, <2>5, <2>6
<1> QED BY <1>2, <1>3

(* The answer about the sum over the realms (case 1).                      *)
LEMMA Stage1Did ==
    ASSUME Base, NEW a \in Accounts, CreateStage1(a)
    PROVE  (DidRefuse(a) \/ DidAskCount(a)) /\ Queued' /\ TypeOK'
<1>0. TypeOK /\ Queued
  BY DEF Base
<1>1. CreateRest(a) /\ sess[a].stage = 1
  BY DEF CreateStage1, CreateRest, InStage, database, history
<1>2. CASE EndCreate(a)
  <2>1. sess' = [sess EXCEPT ![a] = Reset(@)] /\ UNCHANGED <<charQ, loginQ, nextGuid>>
    BY <1>2 DEF EndCreate
  <2> QED BY <1>1, <2>1, RefuseDid
<1>3. CASE ~EndCreate(a)
  <2> DEFINE o == Op("count", a, None, None, <<a, "create">>)
  <2>1. /\ charQ' = Ask(charQ, o)
        /\ NextStage(a, 2, 0) /\ UNCHANGED <<loginQ, nextGuid>>
    BY <1>3 DEF CreateStage1
  <2>2. o \in CharOps /\ charQ' = Append(Forget(charQ, {<<a, "create">>}), o)
    <3>1. o \in CharOps
      BY CharOpTypes
    <3>2. o.to = <<a, "create">>
      BY OpFields
    <3>3. Ask(charQ, o) = Append(Forget(charQ, {<<a, "create">>}), o)
      BY <3>2, AskOp
    <3> QED BY <2>1, <3>1, <3>3
  <2> HIDE DEF o
  <2>3. charQ' \in Seq(CharOps) /\ Grows(charQ, charQ', {<<a, "create">>}, o)
    BY <1>0, <2>1, <2>2, CharQFacts DEF Queued
  <2>4. DidStage(a, 2, 0) /\ TypeOK'
    BY <1>1, <2>1, StageDid
  <2>5. Queued'
    BY <1>0, <2>1, <2>3 DEF Queued
  <2>6. DidAskCount(a)
    BY <2>1, <2>3, <2>4 DEF DidAskCount, o
  <2> QED BY <2>4, <2>5, <2>6
<1> QED BY <1>2, <1>3

(* The last stage creates the character and queues its rows.               *)
LEMMA CreateDid ==
    ASSUME Base, NEW a \in Accounts, NEW c \in Nat, NEW asked \in BOOLEAN, Create(a, c, asked),
           CreateRest(a),
           \/ sess[a].stage = 2 /\ Counted(a, c) /\ c < PerRealm
           \/ sess[a].stage = 3 /\ c = sess[a].count
    PROVE  (DidRefuse(a) \/ DidCreate(a, c)) /\ Queued' /\ TypeOK'
<1>0. TypeOK /\ Queued
  BY DEF Base
<1>1. CASE EndCreate(a)
  <2>1. sess' = [sess EXCEPT ![a] = Reset(@)] /\ UNCHANGED <<charQ, loginQ, nextGuid>>
    BY <1>1 DEF EndCreate
  <2> QED BY <2>1, RefuseDid
<1>2. CASE /\ nextGuid' = IF nextGuid \in Guids THEN nextGuid + 1 ELSE nextGuid
           /\ sess' = [sess EXCEPT ![a] = Reset(@)]
           /\ UNCHANGED <<charQ, loginQ>>
  BY <1>2, RefuseDid
<1> DEFINE o == Op("insert", a, nextGuid, sess[a].info, Nobody)
           p == Op("numchars", a, None, c + 1, Nobody)
<1>3. CASE /\ nextGuid \in Guids
           /\ nextGuid' = nextGuid + 1
           /\ sess' = [sess EXCEPT ![a] = Reset(@)]
           /\ charQ' = Append(charQ, o)
           /\ loginQ' = Append(loginQ, p)
  <2>1. sess[a].info \in Names /\ c + 1 \in Nat
    BY BaseFacts DEF CreateRest
  <2>2. o \in CharOps /\ p \in LoginOps
    <3>1. o \in CharOps
      BY <1>3, <2>1, CharOpTypes
    <3>2. p \in LoginOps
      BY <2>1, LoginOpTypes
    <3> QED BY <3>1, <3>2
  <2> HIDE DEF o, p
  <2>3. charQ' \in Seq(CharOps) /\ Grows(charQ, charQ', {}, o)
    BY <1>0, <1>3, <2>2, CharQFacts DEF Queued
  <2>4. loginQ' \in Seq(LoginOps) /\ Grows(loginQ, loginQ', {}, p)
    BY <1>0, <1>3, <2>2, LoginQFacts DEF Queued
  <2>5. DidReset(a) /\ TypeOK'
    BY <1>3, ResetDid
  <2>6. Queued'
    BY <2>3, <2>4 DEF Queued
  <2>7. DidCreate(a, c)
    BY <1>3, <2>3, <2>4, <2>5 DEF DidCreate, o, p
  <2> QED BY <2>5, <2>6, <2>7
<1> QED BY <1>1, <1>2, <1>3 DEF Create

(* The answer about the characters of this realm (case 2).                 *)
LEMMA Stage2Did ==
    ASSUME Base, NEW a \in Accounts, CreateStage2(a)
    PROVE  /\ \/ DidRefuse(a)
              \/ \E c \in Nat : DidAskInfo(a, c) \/ DidCreate(a, c)
           /\ Queued' /\ TypeOK'
<1>0. TypeOK /\ Queued
  BY DEF Base
<1>1. CreateRest(a) /\ sess[a].stage = 2
  BY DEF CreateStage2, CreateRest, InStage, database, history
<1>2. PICK c : Counted(a, c)
  BY DEF Counted
<1>3. c \in Nat
  BY <1>1, <1>2, BaseFacts DEF CreateRest, Counted, Answers
<1> DEFINE o == Op("info", a, None, None, <<a, "create">>)
<1>4. \/ EndCreate(a)
      \/ /\ c < PerRealm /\ charQ' = Ask(charQ, o)
         /\ NextStage(a, 3, c) /\ UNCHANGED <<loginQ, nextGuid>>
      \/ c < PerRealm /\ Create(a, c, FALSE)
  BY <1>2 DEF CreateStage2, Counted
<1>5. CASE EndCreate(a)
  <2>1. sess' = [sess EXCEPT ![a] = Reset(@)] /\ UNCHANGED <<charQ, loginQ, nextGuid>>
    BY <1>5 DEF EndCreate
  <2> QED BY <1>1, <2>1, RefuseDid
<1>6. CASE /\ c < PerRealm /\ charQ' = Ask(charQ, o)
           /\ NextStage(a, 3, c) /\ UNCHANGED <<loginQ, nextGuid>>
  <2>2. o \in CharOps /\ charQ' = Append(Forget(charQ, {<<a, "create">>}), o)
    <3>1. o \in CharOps
      BY CharOpTypes
    <3>2. o.to = <<a, "create">>
      BY OpFields
    <3>3. Ask(charQ, o) = Append(Forget(charQ, {<<a, "create">>}), o)
      BY <3>2, AskOp
    <3> QED BY <1>6, <3>1, <3>3
  <2> HIDE DEF o
  <2>3. charQ' \in Seq(CharOps) /\ Grows(charQ, charQ', {<<a, "create">>}, o)
    BY <1>0, <1>6, <2>2, CharQFacts DEF Queued
  <2>4. DidStage(a, 3, c) /\ TypeOK'
    BY <1>1, <1>3, <1>6, StageDid
  <2>5. Queued'
    BY <1>0, <1>6, <2>3 DEF Queued
  <2>6. DidAskInfo(a, c)
    BY <1>2, <1>6, <2>3, <2>4 DEF DidAskInfo, o
  <2> QED BY <1>3, <2>4, <2>5, <2>6
<1>7. CASE c < PerRealm /\ Create(a, c, FALSE)
  <2>1. (DidRefuse(a) \/ DidCreate(a, c)) /\ Queued' /\ TypeOK'
    BY <1>1, <1>2, <1>3, <1>7, CreateDid
  <2> QED BY <1>3, <2>1
<1> QED BY <1>4, <1>5, <1>6, <1>7

(* The answer about the other characters (case 3).                         *)
LEMMA Stage3Did ==
    ASSUME Base, NEW a \in Accounts, CreateStage3(a)
    PROVE  (DidRefuse(a) \/ \E c \in Nat : DidCreate(a, c)) /\ Queued' /\ TypeOK'
<1>1. CreateRest(a) /\ sess[a].stage = 3 /\ Create(a, sess[a].count, TRUE)
  BY DEF CreateStage3, CreateRest, InStage, database, history
<1>2. PICK c \in Nat : c = sess[a].count
  BY <1>1, BaseFacts DEF CreateRest
<1>3. (DidRefuse(a) \/ DidCreate(a, c)) /\ Queued' /\ TypeOK'
  BY <1>1, <1>2, CreateDid
<1> QED BY <1>3

(* CMSG_CHAR_DELETE.                                                       *)
LEMMA DeleteOpcodeDid ==
    ASSUME Base, NEW a \in Accounts, NEW g \in Guids, HandleCharDeleteOpcode(a, g)
    PROVE  DidDrop(a, g) /\ Queued' /\ TypeOK'
<1>0. TypeOK /\ Queued
  BY DEF Base
<1> DEFINE o == Op("delete", a, g, None, Nobody)
           p == Op("total", a, None, None, Nobody)
<1>1. /\ UNCHANGED <<sess, joining, loginQ, row, realm, online, counts, version, nextGuid, crashes>>
      /\ UNCHANGED <<hasty, contended, stuck, cut, zoning>>
      /\ ~FindPlayer(g) /\ g \in OfAccount(a)
      /\ charQ' = charQ \o <<o, p>>
      /\ raced' = IF BeingLoaded(g) \/ BetweenMaps(g) THEN raced \cup {g} ELSE raced
      /\ left > 0 /\ left' = left - 1
  BY DEF HandleCharDeleteOpcode, Request, database
<1>2. o \in CharOps /\ p \in CharOps
  BY CharOpTypes
<1> HIDE DEF o, p
<1>3. charQ' \in Seq(CharOps) /\ Grows2(charQ, charQ', {}, o, p)
  BY <1>0, <1>1, <1>2, CharQFacts DEF Queued
<1>4. Queued'
  BY <1>0, <1>1, <1>3 DEF Queued
<1>5. raced' \subseteq Guids /\ left' \in Nat
  BY <1>0, <1>1 DEF TypeOK
<1>6. TypeOK'
  BY <1>0, <1>1, <1>5 DEF TypeOK
<1>7. InWorld(g) => BetweenMaps(g)
  BY <1>0, <1>1 DEF InWorld, FindPlayer, BetweenMaps, TypeOK
<1>8. raced' \in {raced, raced \cup {g}} /\ (InWorld(g) \/ BeingLoaded(g) => g \in raced')
  BY <1>1, <1>7
<1> QED BY <1>1, <1>3, <1>4, <1>6, <1>8 DEF DidDrop, Stored, o, p

(* World::UpdateRealmCharCount writes the number to LoginDatabase.         *)
LEMMA UpdateCountDid ==
    ASSUME Base, UpdateRealmCharCount
    PROVE  DidUpdateCount /\ Queued' /\ TypeOK'
<1>0. TypeOK /\ Queued
  BY DEF Base
<1> DEFINE c == Head(counts)
<1>1. /\ UNCHANGED <<sess, joining, charQ, row, realm, online, version, nextGuid, left, crashes>>
      /\ UNCHANGED <<hasty, contended, raced, stuck, cut, zoning>>
      /\ counts # <<>> /\ counts' = Tail(counts)
      /\ loginQ' = IF c.n = 0 THEN loginQ
                   ELSE loginQ \o <<Op("dropchars", c.a, None, None, Nobody),
                                    Op("numchars", c.a, None, c.n, Nobody)>>
  BY DEF UpdateRealmCharCount, database, history
<1>2. counts \in Seq([a : Accounts, n : Nat])
  BY <1>0 DEF TypeOK
<1>3. c \in [a : Accounts, n : Nat] /\ counts' \in Seq([a : Accounts, n : Nat])
  BY <1>1, <1>2, HeadTail, Zenon
<1>4. PICK b \in Accounts, m \in Nat : b = c.a /\ m = c.n
  BY <1>3
<1> HIDE DEF c
<1>5. TypeOK'
  BY <1>0, <1>1, <1>3 DEF TypeOK
<1>6. CASE m = 0
  <2>1. UNCHANGED loginQ
    BY <1>1, <1>4, <1>6
  <2>2. loginQ' \in Seq(LoginOps) /\ OnlyWrites
    BY <1>0, <2>1, StillLoginQ DEF Still, OnlyWrites, Queued
  <2>3. Queued'
    BY <1>0, <1>1, <2>2 DEF Queued
  <2> QED BY <1>1, <1>5, <2>2, <2>3 DEF DidUpdateCount, Stored, Traced
<1>7. CASE m # 0
  <2> DEFINE o == Op("dropchars", b, None, None, Nobody)
             p == Op("numchars", b, None, m, Nobody)
  <2>1. loginQ' = loginQ \o <<o, p>>
    BY <1>1, <1>4, <1>7
  <2>2. o \in LoginOps /\ p \in LoginOps
    BY LoginOpTypes
  <2>3. /\ o.to = Nobody /\ o.op # "online"
        /\ p.to = Nobody /\ p.op # "online"
    BY OpFields
  <2> HIDE DEF o, p
  <2>4. loginQ' \in Seq(LoginOps) /\ Grows2(loginQ, loginQ', {}, o, p)
    BY <1>0, <2>1, <2>2, LoginQGrows DEF Queued
  <2>5. OnlyWrites
    <3>1. Len(loginQ) \in Nat /\ Len(loginQ') = Len(loginQ) + 2 /\ DOMAIN loginQ' = 1..Len(loginQ')
      BY <1>0, <2>4 DEF Queued, Grows2
    <3>2. \A i \in DOMAIN loginQ' : i > Len(loginQ) => loginQ'[i] \in {o, p}
      BY <2>4, <3>1 DEF Grows2
    <3> QED BY <2>3, <2>4, <3>2 DEF OnlyWrites, Grows2
  <2>6. Queued'
    BY <1>0, <1>1, <2>4 DEF Queued
  <2> QED BY <1>1, <1>5, <2>5, <2>6 DEF DidUpdateCount, Stored, Traced
<1> QED BY <1>6, <1>7

(* A journey from one map to another changes no more than who is found.    *)
LEMMA ZoneDid ==
    ASSUME Base, NEW a \in Accounts, Zone(a) \/ Arrive(a)
    PROVE  DidUpdateCount /\ Queued' /\ TypeOK'
<1>0. TypeOK /\ Queued
  BY DEF Base
<1>1. /\ UNCHANGED <<sess, joining, charQ, loginQ, row, realm, online, counts, version, nextGuid, crashes>>
      /\ UNCHANGED <<hasty, contended, raced, stuck, cut>>
      /\ zoning' \subseteq Accounts /\ left' \in Nat
  BY <1>0 DEF Zone, Arrive, Request, database, history, TypeOK
<1>2. loginQ' \in Seq(LoginOps) /\ OnlyWrites
  BY <1>0, <1>1, StillLoginQ DEF Still, OnlyWrites, Queued
<1>3. Queued'
  BY <1>0, <1>1 DEF Queued
<1>4. TypeOK'
  BY <1>0, <1>1 DEF TypeOK
<1> QED BY <1>1, <1>2, <1>3, <1>4 DEF DidUpdateCount, Stored, Traced

(* CMSG_PLAYER_LOGIN.                                                      *)
LEMMA LoginOpcodeDid ==
    ASSUME Base, NEW a \in Accounts, NEW g \in Guids, HandlePlayerLoginOpcode(a, g)
    PROVE  (DidLoad(a, g) \/ DidKick(a)) /\ Queued' /\ TypeOK'
<1>0. TypeOK /\ Queued
  BY DEF Base
<1>1. /\ UNCHANGED <<joining, loginQ, row, realm, online, counts, version, nextGuid, crashes>>
      /\ UNCHANGED <<hasty, contended, raced, stuck, zoning>> /\ cut' \subseteq Accounts
      /\ sess[a] # None /\ ~sess[a].loading /\ sess[a].player = None
      /\ left \in Nat /\ left > 0 /\ left' = left - 1
  BY <1>0 DEF HandlePlayerLoginOpcode, Request, Active, database, TypeOK
<1> DEFINE o == Op("load", a, g, None, <<a, "login">>)
<1>2. CASE /\ g \in sess[a].legit /\ charQ' = Ask(charQ, o)
           /\ sess' = [sess EXCEPT ![a].loading = TRUE, ![a].holder = g, ![a].login = Waiting]
  <2>2. o \in CharOps /\ charQ' = Append(Forget(charQ, {<<a, "login">>}), o)
    <3>1. o \in CharOps
      BY CharOpTypes
    <3>2. o.to = <<a, "login">>
      BY OpFields
    <3>3. Ask(charQ, o) = Append(Forget(charQ, {<<a, "login">>}), o)
      BY <3>2, AskOp
    <3> QED BY <1>2, <3>1, <3>3
  <2> HIDE DEF o
  <2>3. charQ' \in Seq(CharOps) /\ Grows(charQ, charQ', {<<a, "login">>}, o)
    BY <1>0, <2>2, CharQFacts DEF Queued
  <2>4. /\ Moved(a) /\ sess'[a] \in Sessions /\ SameCreate(a) /\ SameList(a)
        /\ sess'[a].player = sess[a].player /\ sess'[a].loading
        /\ sess'[a].holder = g /\ sess'[a].login = Waiting
    BY <1>0, <1>1, <1>2, LoadEffect
  <2>5. Queued'
    BY <1>0, <1>1, <2>3 DEF Queued
  <2>6. TypeOK'
    BY <1>0, <1>1, <2>4 DEF TypeOK, Moved
  <2>7. DidLoad(a, g)
    BY <1>1, <1>2, <2>3, <2>4 DEF DidLoad, Stored, Traced, o
  <2> QED BY <2>5, <2>6, <2>7
<1>3. CASE /\ UNCHANGED charQ
           /\ \/ sess' = [sess EXCEPT ![a].loading = TRUE, ![a].open = FALSE]
              \/ sess' = [sess EXCEPT ![a].loading = TRUE]
  <2>2. /\ Moved(a) /\ sess'[a] \in Sessions /\ SameCreate(a) /\ SameList(a)
        /\ sess'[a].player = sess[a].player /\ sess'[a].loading
        /\ sess'[a].holder = sess[a].holder /\ sess'[a].login = sess[a].login
    BY <1>0, <1>1, <1>3, KickEffect, CutEffect
  <2>3. Queued'
    BY <1>0, <1>1, <1>3 DEF Queued
  <2>4. TypeOK'
    BY <1>0, <1>1, <2>2 DEF TypeOK, Moved
  <2>5. DidKick(a)
    BY <1>1, <1>3, <2>2 DEF DidKick, Stored, Traced
  <2> QED BY <2>3, <2>4, <2>5
<1> QED BY <1>2, <1>3 DEF HandlePlayerLoginOpcode

(* The callback of a load: the character comes in, or the session is       *)
(* kicked.                                                                 *)
LEMMA PlayerLoginDid ==
    ASSUME Base, NEW a \in Accounts, HandlePlayerLogin(a)
    PROVE  (DidEnter(a) \/ DidFail(a)) /\ Queued' /\ TypeOK'
<1>0. TypeOK /\ Queued
  BY DEF Base
<1>1. /\ UNCHANGED <<joining, row, realm, online, counts, nextGuid, left, crashes>>
      /\ UNCHANGED <<hasty, contended, raced, stuck, cut, zoning>>
      /\ sess[a] # None /\ Ready(sess[a].login)
  BY DEF HandlePlayerLogin, database, history
<1>2. sess[a].holder \in Guids /\ sess[a].login \in Loads
  BY <1>1, BaseFacts
<1>3. CASE Loaded(a)
  <2> DEFINE g == sess[a].holder
             o == Op("online", a, g, None, Nobody)
             p == Op("online", a, None, TRUE, Nobody)
  <2>1. /\ sess' = [sess EXCEPT ![a] =
              [[sess[a] EXCEPT !.loading = FALSE, !.holder = None, !.login = None]
                  EXCEPT !.player = g]]
        /\ version' = [version EXCEPT ![g] = sess[a].login[1].ver]
        /\ charQ' = Append(charQ, o)
        /\ loginQ' = Append(loginQ, p)
    BY <1>3 DEF HandlePlayerLogin
  <2>2. sess[a].login[1] # None /\ sess[a].login[1] \in Rows /\ sess[a].login[1].ver \in Nat
    BY <1>2, <1>3 DEF Loaded, Loads, Rows
  <2>3. o \in CharOps /\ p \in LoginOps
    BY <1>2, CharOpTypes, LoginOpTypes
  <2>4. /\ Moved(a) /\ sess'[a] \in Sessions /\ SameCreate(a) /\ SameList(a)
        /\ sess'[a].player = g /\ ~sess'[a].loading
        /\ sess'[a].holder = None /\ sess'[a].login = None
    BY <1>0, <1>1, <1>2, <2>1, EnterEffect
  <2>5. version' \in [Guids -> Nat]
    BY <1>0, <1>2, <2>1, <2>2 DEF TypeOK
  <2> HIDE DEF o, p
  <2>6. charQ' \in Seq(CharOps) /\ Grows(charQ, charQ', {}, o)
    BY <1>0, <2>1, <2>3, CharQFacts DEF Queued
  <2>7. loginQ' \in Seq(LoginOps) /\ Grows(loginQ, loginQ', {}, p)
    BY <1>0, <2>1, <2>3, LoginQFacts DEF Queued
  <2>8. Queued'
    BY <2>6, <2>7 DEF Queued
  <2>9. TypeOK'
    BY <1>0, <1>1, <2>4, <2>5 DEF TypeOK, Moved
  <2>10. DidAnswer(a)
    BY <1>1, <2>4 DEF DidAnswer, Stored, Traced
  <2>11. DidEnter(a)
    BY <1>2, <2>1, <2>2, <2>4, <2>6, <2>7, <2>10 DEF DidEnter, o, p
  <2> QED BY <2>8, <2>9, <2>11
<1>4. CASE ~Loaded(a)
  <2>1. /\ sess' = [sess EXCEPT ![a] =
              [[sess[a] EXCEPT !.loading = FALSE, !.holder = None, !.login = None]
                  EXCEPT !.open = FALSE]]
        /\ UNCHANGED <<version, charQ, loginQ>>
    BY <1>4 DEF HandlePlayerLogin
  <2>2. /\ Moved(a) /\ sess'[a] \in Sessions /\ SameCreate(a) /\ SameList(a)
        /\ sess'[a].player = sess[a].player /\ ~sess'[a].loading
        /\ sess'[a].holder = None /\ sess'[a].login = None
    BY <1>0, <1>1, <2>1, RefuseEffect
  <2>3. Queued'
    BY <1>0, <2>1 DEF Queued
  <2>4. TypeOK'
    BY <1>0, <1>1, <2>1, <2>2 DEF TypeOK, Moved
  <2>5. DidAnswer(a)
    BY <1>1, <2>2 DEF DidAnswer, Stored, Traced
  <2>6. DidFail(a)
    BY <2>1, <2>2, <2>5 DEF DidFail
  <2> QED BY <2>3, <2>4, <2>6
<1> QED BY <1>3, <1>4

-----------------------------------------------------------------------------
(* The workers and a restart, by their effects                             *)

Shifts(q, r) == Len(q) > 0 /\ Len(r) = Len(q) - 1 /\ \A i \in 1..Len(r) : r[i] = q[i + 1]
SameRow(g) ==
    /\ row'[g] = None <=> row[g] = None
    /\ row[g] # None => /\ row'[g].acct = row[g].acct /\ row'[g].name = row[g].name
                        /\ row'[g].ver = row[g].ver
RowsBut(g) == \A h \in Guids : h # g => SameRow(h)

Pops(o) ==
    /\ charQ # <<>> /\ o = charQ[1] /\ o \in CharOps /\ Shifts(charQ, charQ')
    /\ UNCHANGED <<joining, stuck, loginQ, online, version, nextGuid, Traced>>
DidInsert(o) ==
    Pops(o) /\ o.op = "insert" /\ row'[o.g] = Row(o.a, o.n) /\ RowsBut(o.g) /\ UNCHANGED sess
DidWrite(o) ==
    /\ Pops(o) /\ o.op = "save" /\ RowsBut(o.g) /\ UNCHANGED sess
    /\ row'[o.g] = None <=> row[o.g] = None
    /\ row[o.g] # None => /\ row'[o.g].acct = row[o.g].acct /\ row'[o.g].name = row[o.g].name
                          /\ row'[o.g].ver = o.n
DidErase(o) ==
    Pops(o) /\ o.op = "delete" /\ row'[o.g] = None /\ RowsBut(o.g) /\ UNCHANGED sess
DidMark(o) ==
    /\ Pops(o) /\ o.op \notin {"insert", "save", "delete"} /\ o.to = Nobody
    /\ (\A g \in Guids : SameRow(g)) /\ UNCHANGED sess
Tells(o) == sess[o.a] # None /\ Moved(o.a) /\ sess'[o.a] \in Sessions
DidTellEnum(o) ==
    /\ Pops(o) /\ o.op = "enum" /\ o.to = <<o.a, "enum">> /\ UNCHANGED row /\ Tells(o)
    /\ SameWorld(o.a) /\ SameCreate(o.a)
    /\ sess'[o.a].legit = sess[o.a].legit /\ sess'[o.a].enum = OfAccount(o.a)
TellsCreate(o) ==
    /\ o.to = <<o.a, "create">> /\ Tells(o) /\ SameWorld(o.a) /\ SameList(o.a)
    /\ sess'[o.a].info = sess[o.a].info /\ sess'[o.a].count = sess[o.a].count
    /\ sess'[o.a].stage = sess[o.a].stage /\ sess'[o.a].create \in Answers
DidTellCreate(o) ==
    /\ Pops(o) /\ o.op \in {"name", "count", "info"} /\ UNCHANGED row
    /\ TellsCreate(o) /\ sess'[o.a].create = CharAnswer(o)
DidTellLoad(o) ==
    /\ Pops(o) /\ o.op = "load" /\ o.to = <<o.a, "login">> /\ UNCHANGED row /\ Tells(o)
    /\ SameCreate(o.a) /\ SameList(o.a)
    /\ sess'[o.a].player = sess[o.a].player /\ sess'[o.a].loading = sess[o.a].loading
    /\ sess'[o.a].holder = sess[o.a].holder /\ sess'[o.a].login = <<row[o.g]>>
DidCharWork(o) ==
    \/ DidInsert(o) \/ DidWrite(o) \/ DidErase(o) \/ DidMark(o)
    \/ DidTellEnum(o) \/ DidTellCreate(o) \/ DidTellLoad(o)

PopsLogin(o) ==
    /\ loginQ # <<>> /\ o = loginQ[1] /\ o \in LoginOps /\ Shifts(loginQ, loginQ')
    /\ online' = IF o.op = "online" THEN [online EXCEPT ![o.a] = o.n] ELSE online
    /\ UNCHANGED <<joining, stuck, charQ, row, version, nextGuid, Traced>>
DidRecord(o) == PopsLogin(o) /\ o.to = Nobody /\ UNCHANGED sess
DidTellSum(o) == PopsLogin(o) /\ o.op = "sum" /\ TellsCreate(o)
DidLoginWork(o) == DidRecord(o) \/ DidTellSum(o)

DidRestart ==
    /\ \A a \in Accounts : sess'[a] = None
    /\ joining' = {} /\ charQ' = <<>> /\ loginQ' = <<>>
    /\ \A a \in Accounts : online'[a] = FALSE \/ a \in stuck'
    /\ \A g \in Guids : SameRow(g)
    /\ \A g \in Guids : version'[g] = IF row[g] = None THEN 0 ELSE row[g].ver
    /\ \A g \in Guids : row[g] # None => g < nextGuid'
    /\ UNCHANGED Traced

(* The table after an operation.                                           *)
LEMMA RowAfterFacts ==
    ASSUME TypeOK, NEW o \in CharOps, row' = RowAfter(o)
    PROVE  /\ row' \in [Guids -> {None} \cup Rows]
           /\ o.op = "insert" => row'[o.g] = Row(o.a, o.n) /\ RowsBut(o.g)
           /\ o.op = "save" =>
                 /\ RowsBut(o.g) /\ (row'[o.g] = None <=> row[o.g] = None)
                 /\ row[o.g] # None =>
                       /\ row'[o.g].acct = row[o.g].acct /\ row'[o.g].name = row[o.g].name
                       /\ row'[o.g].ver = o.n
           /\ o.op = "delete" => row'[o.g] = None /\ RowsBut(o.g)
           /\ o.op \notin {"insert", "save", "delete"} => \A g \in Guids : SameRow(g)
           /\ o.op \in {"enum", "name", "count", "info", "load", "total"} => UNCHANGED row
<1>0. row \in [Guids -> {None} \cup Rows]
  BY DEF TypeOK
<1>1. CharOp(o) /\ o \in OpSet
  BY DEF CharOps
<1>2. o.op \in Kinds /\ o.a \in Accounts
  BY <1>1 DEF OpSet
<1>3. /\ o.op \in {"insert", "save", "delete", "online", "load"} => o.g \in Guids
      /\ o.op = "insert" => o.n \in Names
      /\ o.op = "save" => o.n \in Nat
  BY <1>1 DEF CharOp
<1>4. \A r \in Rows : r # None
  BY NullFacts
<1>5. CASE o.op = "insert"
  <2>1. row' = [row EXCEPT ![o.g] = Row(o.a, o.n)]
    BY <1>5 DEF RowAfter
  <2>2. Row(o.a, o.n) \in Rows
    BY <1>2, <1>3, <1>5 DEF Row, Rows
  <2>3. row' \in [Guids -> {None} \cup Rows] /\ row'[o.g] = Row(o.a, o.n)
    BY <1>0, <1>3, <1>5, <2>1, <2>2
  <2>4. RowsBut(o.g)
    BY <1>0, <2>1 DEF RowsBut, SameRow
  <2> QED BY <1>5, <2>3, <2>4
<1>6. CASE o.op = "save"
  <2>1. row' = [row EXCEPT ![o.g] = IF row[o.g] = None THEN None
                                    ELSE [row[o.g] EXCEPT !.ver = o.n]]
    BY <1>6 DEF RowAfter
  <2>2. \A r \in Rows : LET x == [r EXCEPT !.ver = o.n] IN
            x \in Rows /\ x.acct = r.acct /\ x.name = r.name /\ x.ver = o.n
    BY <1>3, <1>6 DEF Rows
  <2>3. RowsBut(o.g)
    BY <1>0, <2>1 DEF RowsBut, SameRow
  <2>4. CASE row[o.g] = None
    BY <1>0, <1>3, <1>6, <2>1, <2>3, <2>4
  <2>5. CASE row[o.g] # None
    <3>1. row[o.g] \in Rows /\ o.g \in Guids
      BY <1>0, <1>3, <1>6, <2>5
    <3>2. PICK x \in Rows : /\ x = [row[o.g] EXCEPT !.ver = o.n]
                            /\ x.acct = row[o.g].acct /\ x.name = row[o.g].name /\ x.ver = o.n
      BY <3>1, <2>2
    <3>3. row' = [row EXCEPT ![o.g] = x]
      BY <2>1, <2>5, <3>2
    <3>4. row' \in [Guids -> {None} \cup Rows] /\ row'[o.g] = x
      BY <1>0, <3>1, <3>3
    <3>5. row'[o.g] # None
      BY <1>4, <3>4
    <3> QED BY <1>6, <2>3, <2>5, <3>2, <3>4, <3>5
  <2> QED BY <2>4, <2>5
<1>7. CASE o.op = "delete"
  <2>1. row' = [row EXCEPT ![o.g] = None]
    BY <1>7 DEF RowAfter
  <2>2. RowsBut(o.g)
    BY <1>0, <2>1 DEF RowsBut, SameRow
  <2> QED BY <1>0, <1>3, <1>7, <2>1, <2>2
<1>10. CASE o.op \notin {"insert", "save", "delete"}
  <2>1. row' = row
    BY <1>10 DEF RowAfter
  <2>2. \A g \in Guids : SameRow(g)
    BY <2>1 DEF SameRow
  <2> QED BY <1>0, <1>10, <2>1, <2>2
<1> QED BY <1>5, <1>6, <1>7, <1>10

(* The characters of an account are identifiers.                           *)
LEMMA OfAccountFacts ==
    ASSUME NEW a
    PROVE  OfAccount(a) \in SUBSET Guids /\ IsFiniteSet(OfAccount(a)) /\ Cardinality(OfAccount(a)) \in Nat
<1>1. OfAccount(a) \subseteq Guids
  BY DEF OfAccount
<1>2. IsFiniteSet(Guids)
  BY LimitsAssumption, FS_Interval DEF Guids
<1>3. IsFiniteSet(OfAccount(a))
  BY <1>1, <1>2, FS_Subset
<1> QED BY <1>1, <1>3, FS_CardinalityType

(* The worker of CharacterDatabase serves the first operation of its       *)
(* queue.                                                                  *)
LEMMA CharWorkDid ==
    ASSUME Base, CharWorker
    PROVE  (\E o \in CharOps : DidCharWork(o)) /\ Queued' /\ TypeOK'
<1>0. TypeOK /\ Queued /\ Wired
  BY DEF Base
<1> DEFINE o == Head(charQ)
<1>1. /\ UNCHANGED <<joining, loginQ, realm, online, version, nextGuid, left, crashes>>
      /\ UNCHANGED <<hasty, contended, raced, stuck, cut, zoning>>
      /\ charQ # <<>> /\ charQ' = Tail(charQ)
      /\ row' = RowAfter(o)
      /\ sess' = Fill(o, CharAnswer(o))
      /\ counts' = IF o.op = "total"
                   THEN Append(counts, [a |-> o.a, n |-> Cardinality(OfAccount(o.a))]) ELSE counts
  BY DEF CharWorker, history
<1>2. /\ charQ \in Seq(CharOps) /\ o \in CharOps /\ charQ' \in Seq(CharOps) /\ o = charQ[1]
      /\ Len(charQ) \in Nat \ {0} /\ Len(charQ') = Len(charQ) - 1
      /\ \A i \in 1..(Len(charQ) - 1) : charQ'[i] = charQ[i + 1]
  BY <1>0, <1>1, HeadTail DEF Queued
<1> HIDE DEF o
<1>3. Queued'
  BY <1>0, <1>1, <1>2 DEF Queued
<1>4. Pops(o)
  <2>1. Shifts(charQ, charQ')
    BY <1>2 DEF Shifts
  <2> QED BY <1>1, <1>2, <2>1 DEF Pops, Traced
<1>5. CharOp(o) /\ o \in OpSet
  BY <1>2 DEF CharOps
<1>6. o.op \in Kinds /\ o.a \in Accounts
  BY <1>5 DEF OpSet
<1>7. 1 \in DOMAIN charQ
  BY <1>2
<1>8. Serves(o, o.a, sess[o.a])
  BY <1>0, <1>2, <1>6, <1>7 DEF Wired
<1>9. Cardinality(OfAccount(o.a)) \in Nat /\ OfAccount(o.a) \in SUBSET Guids
  BY OfAccountFacts
<1>10. counts' \in Seq([a : Accounts, n : Nat])
  <2>1. counts \in Seq([a : Accounts, n : Nat])
    BY <1>0 DEF TypeOK
  <2>2. [a |-> o.a, n |-> Cardinality(OfAccount(o.a))] \in [a : Accounts, n : Nat]
    BY <1>6, <1>9
  <2>3. ASSUME NEW S, NEW s \in Seq(S), NEW x \in S PROVE Append(s, x) \in Seq(S)
    OBVIOUS
  <2>4. Append(counts, [a |-> o.a, n |-> Cardinality(OfAccount(o.a))]) \in Seq([a : Accounts, n : Nat])
    BY <2>1, <2>2, <2>3, Zenon
  <2> QED BY <1>1, <2>1, <2>4
<1>11. row' \in [Guids -> {None} \cup Rows]
  BY <1>0, <1>1, <1>2, RowAfterFacts
<1>12. ASSUME sess' \in [Accounts -> {None} \cup Sessions] PROVE TypeOK'
  BY <1>0, <1>1, <1>10, <1>11, <1>12 DEF TypeOK
<1>13. \/ o.to = Nobody
       \/ o.to = <<o.a, "enum">> /\ o.op = "enum"
       \/ o.to = <<o.a, "login">> /\ o.op = "load"
       \/ o.to = <<o.a, "create">> /\ o.op \in {"name", "count", "info"}
  BY <1>5 DEF CharOp
<1>14. CASE o.to = Nobody
  <2>1. sess' = sess
    BY <1>1, <1>14 DEF Fill
  <2>2. TypeOK'
    BY <1>0, <1>12, <2>1 DEF TypeOK
  <2>3. /\ o.op = "insert" => row'[o.g] = Row(o.a, o.n) /\ RowsBut(o.g)
        /\ o.op = "save" =>
              /\ RowsBut(o.g) /\ (row'[o.g] = None <=> row[o.g] = None)
              /\ row[o.g] # None =>
                    /\ row'[o.g].acct = row[o.g].acct /\ row'[o.g].name = row[o.g].name
                    /\ row'[o.g].ver = o.n
        /\ o.op = "delete" => row'[o.g] = None /\ RowsBut(o.g)
        /\ o.op \notin {"insert", "save", "delete"} => \A g \in Guids : SameRow(g)
    BY <1>0, <1>1, <1>2, RowAfterFacts
  <2>4. DidInsert(o) \/ DidWrite(o) \/ DidErase(o) \/ DidMark(o)
    BY <1>4, <1>14, <2>1, <2>3 DEF DidInsert, DidWrite, DidErase, DidMark
  <2> QED BY <1>2, <1>3, <2>2, <2>4 DEF DidCharWork
<1>15. CASE o.to = <<o.a, "enum">> /\ o.op = "enum"
  <2>1. sess[o.a] # None
    BY <1>8, <1>15 DEF Serves
  <2>2. UNCHANGED row
    BY <1>0, <1>1, <1>2, <1>15, RowAfterFacts
  <2>3. sess' = Fill(o, OfAccount(o.a))
    BY <1>1, <1>15 DEF CharAnswer
  <2>4. /\ Moved(o.a) /\ sess'[o.a] \in Sessions
        /\ SameWorld(o.a) /\ SameCreate(o.a)
        /\ sess'[o.a].legit = sess[o.a].legit /\ sess'[o.a].enum = OfAccount(o.a)
    BY <1>0, <1>6, <1>9, <1>15, <2>1, <2>3, FillEnum
  <2>5. TypeOK'
    BY <1>12, <2>4 DEF Moved
  <2>6. DidTellEnum(o)
    BY <1>4, <1>15, <2>1, <2>2, <2>4 DEF DidTellEnum, Tells
  <2> QED BY <1>2, <1>3, <2>5, <2>6 DEF DidCharWork
<1>16. CASE o.to = <<o.a, "login">> /\ o.op = "load"
  <2>1. sess[o.a] # None
    BY <1>8, <1>16 DEF Serves
  <2>2. UNCHANGED row
    BY <1>0, <1>1, <1>2, <1>16, RowAfterFacts
  <2>3. sess' = Fill(o, <<row[o.g]>>)
    BY <1>1, <1>16 DEF CharAnswer
  <2>4. o.g \in Guids
    BY <1>5, <1>16 DEF CharOp
  <2>5. row[o.g] \in {None} \cup Rows
    BY <1>0, <2>4 DEF TypeOK
  <2>6. <<row[o.g]>> \in Loads
    BY <2>5 DEF Loads
  <2>7. /\ Moved(o.a) /\ sess'[o.a] \in Sessions
        /\ SameCreate(o.a) /\ SameList(o.a)
        /\ sess'[o.a].player = sess[o.a].player /\ sess'[o.a].loading = sess[o.a].loading
        /\ sess'[o.a].holder = sess[o.a].holder /\ sess'[o.a].login = <<row[o.g]>>
    BY <1>0, <1>6, <1>16, <2>1, <2>3, <2>6, FillLogin
  <2>8. TypeOK'
    BY <1>12, <2>7 DEF Moved
  <2>9. DidTellLoad(o)
    BY <1>4, <1>16, <2>1, <2>2, <2>7 DEF DidTellLoad, Tells
  <2> QED BY <1>2, <1>3, <2>8, <2>9 DEF DidCharWork
<1>17. CASE o.to = <<o.a, "create">> /\ o.op \in {"name", "count", "info"}
  <2>1. sess[o.a] # None
    BY <1>8, <1>17 DEF Serves
  <2>2. UNCHANGED row
    BY <1>0, <1>1, <1>2, <1>17, RowAfterFacts
  <2>3. CharAnswer(o) \in Answers
    <3>1. \A r \in BOOLEAN, n \in Nat, m \in Nat : Answer(r, n, m) \in Answers
      BY DEF Answer, Answers
    <3>2. CASE o.op = "name"
      BY <3>1, <3>2 DEF CharAnswer
    <3>3. CASE o.op = "count"
      BY <3>1, <3>3, <1>9 DEF CharAnswer
    <3>4. CASE o.op = "info"
      BY <3>1, <3>4 DEF CharAnswer
    <3> QED BY <1>17, <3>2, <3>3, <3>4
  <2>4. /\ Moved(o.a) /\ sess'[o.a] \in Sessions
        /\ SameWorld(o.a) /\ SameList(o.a)
        /\ sess'[o.a].info = sess[o.a].info /\ sess'[o.a].count = sess[o.a].count
        /\ sess'[o.a].create = CharAnswer(o) /\ sess'[o.a].stage = sess[o.a].stage
    BY <1>0, <1>1, <1>6, <1>17, <2>1, <2>3, FillCreate
  <2>5. TypeOK'
    BY <1>12, <2>4 DEF Moved
  <2>6. DidTellCreate(o)
    BY <1>4, <1>17, <2>1, <2>2, <2>3, <2>4 DEF DidTellCreate, TellsCreate, Tells
  <2> QED BY <1>2, <1>3, <2>5, <2>6 DEF DidCharWork
<1> QED BY <1>13, <1>14, <1>15, <1>16, <1>17

(* The worker of LoginDatabase serves the first operation of its queue.    *)
LEMMA LoginWorkDid ==
    ASSUME Base, LoginWorker
    PROVE  (\E o \in LoginOps : DidLoginWork(o)) /\ Queued' /\ TypeOK'
<1>0. TypeOK /\ Queued /\ Wired
  BY DEF Base
<1> DEFINE o == Head(loginQ)
<1>1. /\ UNCHANGED <<joining, charQ, row, counts, version, nextGuid, left, crashes>>
      /\ UNCHANGED <<hasty, contended, raced, stuck, cut, zoning>>
      /\ loginQ # <<>> /\ loginQ' = Tail(loginQ)
      /\ realm' = RealmAfter(o)
      /\ online' = IF o.op = "online" THEN [online EXCEPT ![o.a] = o.n] ELSE online
      /\ sess' = Fill(o, Answer(TRUE, 0, IF realm[o.a] = None THEN 0 ELSE realm[o.a]))
  BY DEF LoginWorker, history
<1>s. PICK v : v = IF realm[o.a] = None THEN 0 ELSE realm[o.a]
  OBVIOUS
<1>2. /\ loginQ \in Seq(LoginOps) /\ o \in LoginOps /\ loginQ' \in Seq(LoginOps) /\ o = loginQ[1]
      /\ Len(loginQ) \in Nat \ {0} /\ Len(loginQ') = Len(loginQ) - 1
      /\ \A i \in 1..(Len(loginQ) - 1) : loginQ'[i] = loginQ[i + 1]
  BY <1>0, <1>1, HeadTail DEF Queued
<1> HIDE DEF o
<1>3. Queued'
  BY <1>0, <1>1, <1>2 DEF Queued
<1>4. PopsLogin(o)
  <2>1. Shifts(loginQ, loginQ')
    BY <1>2 DEF Shifts
  <2> QED BY <1>1, <1>2, <2>1 DEF PopsLogin, Traced
<1>5. LoginOp(o) /\ o \in OpSet
  BY <1>2 DEF LoginOps
<1>6. o.op \in Kinds /\ o.a \in Accounts
  BY <1>5 DEF OpSet
<1>7. 1 \in DOMAIN loginQ
  BY <1>2
<1>8. Serves(o, o.a, sess[o.a])
  BY <1>0, <1>2, <1>6, <1>7 DEF Wired
<1>9. realm \in [Accounts -> {None} \cup Nat] /\ online \in [Accounts -> BOOLEAN]
  BY <1>0 DEF TypeOK
<1>10. /\ o.op = "online" => o.n \in BOOLEAN
       /\ o.op = "numchars" => o.n \in Nat
       /\ o.to = Nobody \/ (o.to = <<o.a, "create">> /\ o.op = "sum")
  BY <1>5 DEF LoginOp
<1>11. realm' \in [Accounts -> {None} \cup Nat] /\ online' \in [Accounts -> BOOLEAN]
  <2>1. realm' \in [Accounts -> {None} \cup Nat]
    <3>1. \/ realm' = [realm EXCEPT ![o.a] = None]
          \/ realm' = [realm EXCEPT ![o.a] = o.n] /\ o.n \in Nat
          \/ realm' = realm
      BY <1>1, <1>10 DEF RealmAfter
    <3> QED BY <1>6, <1>9, <3>1
  <2>2. CASE o.op = "online"
    <3>1. online' = [online EXCEPT ![o.a] = o.n] /\ o.n \in BOOLEAN
      BY <1>1, <1>10, <2>2
    <3> QED BY <1>9, <2>1, <3>1
  <2>3. CASE o.op # "online"
    BY <1>1, <1>9, <2>1, <2>3
  <2> QED BY <2>2, <2>3
<1>12. ASSUME sess' \in [Accounts -> {None} \cup Sessions] PROVE TypeOK'
  BY <1>0, <1>1, <1>11, <1>12 DEF TypeOK
<1>13. CASE o.to = Nobody
  <2>1. sess' = sess
    BY <1>1, <1>13 DEF Fill
  <2>2. TypeOK'
    BY <1>0, <1>12, <2>1 DEF TypeOK
  <2> QED BY <1>2, <1>3, <1>4, <1>13, <2>1, <2>2 DEF DidLoginWork, DidRecord
<1>14. CASE o.to = <<o.a, "create">> /\ o.op = "sum"
  <2>1. sess[o.a] # None
    BY <1>8, <1>14 DEF Serves
  <2>2. Answer(TRUE, 0, v) \in Answers
    BY <1>6, <1>9, <1>s DEF Answer, Answers
  <2>3. /\ Moved(o.a) /\ sess'[o.a] \in Sessions
        /\ SameWorld(o.a) /\ SameList(o.a)
        /\ sess'[o.a].info = sess[o.a].info /\ sess'[o.a].count = sess[o.a].count
        /\ sess'[o.a].create = Answer(TRUE, 0, v)
        /\ sess'[o.a].stage = sess[o.a].stage
    BY <1>0, <1>1, <1>s, <1>6, <1>14, <2>1, <2>2, FillCreate
  <2>4. TypeOK'
    BY <1>12, <2>3 DEF Moved
  <2>5. DidTellSum(o)
    BY <1>4, <1>14, <2>1, <2>2, <2>3 DEF DidTellSum, TellsCreate, Tells
  <2> QED BY <1>2, <1>3, <2>4, <2>5 DEF DidLoginWork
<1> QED BY <1>10, <1>13, <1>14

(* The process ends and starts again.                                      *)
LEMMA RestartDid ==
    ASSUME Base, Restart
    PROVE  DidRestart /\ Queued' /\ TypeOK'
<1>0. TypeOK
  BY DEF Base
<1> DEFINE S == {0} \cup {g \in Guids : row[g] # None}
<1>1. /\ UNCHANGED <<row, realm, left, hasty, contended, raced>>
      /\ crashes' = crashes + 1
      /\ sess' = [a \in Accounts |-> None]
      /\ joining' = {} /\ charQ' = <<>> /\ loginQ' = <<>> /\ counts' = <<>>
      /\ zoning' = {} /\ cut' = {}
      /\ online' = [a \in Accounts |-> realm[a] = None /\ online[a]]
      /\ stuck' = {a \in Accounts : realm[a] = None /\ online[a]}
      /\ version' = [g \in Guids |-> IF row[g] = None THEN 0 ELSE row[g].ver]
      /\ nextGuid' = Max(S) + 1
  BY DEF Restart
<1>2. row \in [Guids -> {None} \cup Rows] /\ crashes \in Nat
  BY <1>0 DEF TypeOK
<1>3. S \subseteq 0..MaxGuid /\ S # {} /\ MaxGuid \in Nat
  BY LimitsAssumption DEF Guids
<1>4. Max(S) \in S /\ \A x \in S : x <= Max(S)
  <2> HIDE DEF S
  <2> QED BY <1>3, MaxFacts
<1>5. Max(S) \in Nat /\ \A g \in Guids : row[g] # None => g <= Max(S) /\ g \in Nat
  BY <1>4 DEF Guids
<1> HIDE DEF S
<1>6. nextGuid' \in Nat \ {0} /\ \A g \in Guids : row[g] # None => g < nextGuid'
  BY <1>1, <1>5
<1>7. \A r \in Rows : r.ver \in Nat
  BY DEF Rows
<1>8. row' \in [Guids -> {None} \cup Rows] /\ \A g \in Guids : SameRow(g)
  BY <1>1, <1>2 DEF SameRow
<1>9. version' \in [Guids -> Nat]
  BY <1>1, <1>2, <1>7
<1>10. sess' \in [Accounts -> {None} \cup Sessions] /\ stuck' \subseteq Accounts
  BY <1>1
<1>o. online' \in [Accounts -> BOOLEAN] /\ \A a \in Accounts : online'[a] = FALSE \/ a \in stuck'
  <2>1. \A a \in Accounts : (realm[a] = None /\ online[a]) \in BOOLEAN
    BY Zenon
  <2>2. online' \in [Accounts -> BOOLEAN]
    BY <1>1, <2>1, Zenon
  <2>3. ASSUME NEW a \in Accounts PROVE online'[a] = FALSE \/ a \in stuck'
    <3>1. online'[a] <=> realm[a] = None /\ online[a]
      BY <1>1, Zenon
    <3>2. a \in stuck' <=> realm[a] = None /\ online[a]
      BY <1>1, Zenon
    <3>3. online'[a] \in BOOLEAN
      BY <2>2
    <3> QED BY <3>1, <3>2, <3>3
  <2> QED BY <2>2, <2>3
<1>11. Queued'
  BY <1>1 DEF Queued
<1>12. counts' \in Seq([a : Accounts, n : Nat])
  BY <1>1
<1>13. TypeOK'
  BY <1>0, <1>1, <1>2, <1>6, <1>8, <1>9, <1>10, <1>o, <1>12 DEF TypeOK
<1>14. DidRestart
  BY <1>1, <1>6, <1>8, <1>o DEF DidRestart, Traced
<1> QED BY <1>11, <1>13, <1>14

(* Every step is one of these.                                             *)
LEMMA NextDid ==
    ASSUME Base, Next
    PROVE  /\ Queued' /\ TypeOK'
           /\ \/ \E a \in Accounts : Did(a)
              \/ \E o \in CharOps : DidCharWork(o)
              \/ \E o \in LoginOps : DidLoginWork(o)
              \/ DidUpdateCount \/ DidRestart
<1>1. CASE CharWorker
  BY <1>1, CharWorkDid
<1>2. CASE LoginWorker
  BY <1>2, LoginWorkDid
<1>3. CASE UpdateRealmCharCount
  BY <1>3, UpdateCountDid
<1>4. CASE Restart
  BY <1>4, RestartDid
<1>5. ASSUME NEW a \in Accounts,
             \/ Connect(a) \/ AddSession(a) \/ Disconnect(a) \/ RemoveSession(a)
             \/ LogoutPlayer(a) \/ Play(a) \/ AutoSave(a) \/ Zone(a) \/ Arrive(a)
             \/ HandleCharEnumOpcode(a) \/ HandleCharEnum(a) \/ HandleCharCreateCallback(a)
             \/ HandlePlayerLogin(a)
             \/ \E n \in Names : HandleCharCreateOpcode(a, n)
             \/ \E g \in Guids : HandleCharDeleteOpcode(a, g) \/ HandlePlayerLoginOpcode(a, g)
      PROVE  (Did(a) \/ DidUpdateCount) /\ Queued' /\ TypeOK'
  <2>z. CASE Zone(a) \/ Arrive(a)
    BY <2>z, ZoneDid
  <2>1. CASE Connect(a)
    BY <2>1, ConnectDid DEF Did
  <2>2. CASE AddSession(a)
    BY <2>2, AddSessionDid DEF Did
  <2>3. CASE Disconnect(a)
    BY <2>3, DisconnectDid DEF Did
  <2>4. CASE RemoveSession(a)
    BY <2>4, RemoveSessionDid DEF Did
  <2>5. CASE LogoutPlayer(a)
    BY <2>5, LogoutPlayerDid DEF Did
  <2>6. CASE Play(a)
    BY <2>6, PlayDid DEF Did
  <2>7. CASE AutoSave(a)
    BY <2>7, AutoSaveDid DEF Did
  <2>8. CASE HandleCharEnumOpcode(a)
    BY <2>8, EnumOpcodeDid DEF Did
  <2>9. CASE HandleCharEnum(a)
    BY <2>9, EnumDid DEF Did
  <2>10. CASE HandleCharCreateCallback(a)
    <3>1. CASE CreateStage0(a)
      BY <3>1, Stage0Did DEF Did
    <3>2. CASE CreateStage1(a)
      BY <3>2, Stage1Did DEF Did
    <3>3. CASE CreateStage2(a)
      BY <3>3, Stage2Did DEF Did
    <3>4. CASE CreateStage3(a)
      BY <3>4, Stage3Did DEF Did
    <3> QED BY <2>10, <3>1, <3>2, <3>3, <3>4 DEF HandleCharCreateCallback
  <2>11. CASE HandlePlayerLogin(a)
    BY <2>11, PlayerLoginDid DEF Did
  <2>12. ASSUME NEW n \in Names, HandleCharCreateOpcode(a, n) PROVE Did(a) /\ Queued' /\ TypeOK'
    BY <2>12, CreateOpcodeDid DEF Did
  <2>13. ASSUME NEW g \in Guids, HandleCharDeleteOpcode(a, g) PROVE Did(a) /\ Queued' /\ TypeOK'
    BY <2>13, DeleteOpcodeDid DEF Did
  <2>14. ASSUME NEW g \in Guids, HandlePlayerLoginOpcode(a, g) PROVE Did(a) /\ Queued' /\ TypeOK'
    BY <2>14, LoginOpcodeDid DEF Did
  <2> QED BY <1>5, <2>1, <2>2, <2>3, <2>4, <2>5, <2>6, <2>7, <2>8, <2>9, <2>10, <2>11, <2>12,
             <2>13, <2>14, <2>z
<1> QED BY <1>1, <1>2, <1>3, <1>4, <1>5 DEF Next

-----------------------------------------------------------------------------
(* The basic invariant is inductive                                        *)

(* What a step adds to a queue without asking.                             *)
Quiet(q, r, D) == Keeps(q, r, D) /\ \A i \in DOMAIN r : i > Len(q) => r[i].to = Nobody

(* A queue that does not change, or grows by writes only.                  *)
LEMMA QuietFacts ==
    ASSUME NEW X, NEW q \in Seq(X), NEW r \in Seq(X), NEW D
    PROVE  /\ r = q => Quiet(q, r, {})
           /\ Still(q, r, D) => Quiet(q, r, D)
           /\ \A o : Grows(q, r, D, o) /\ o.to = Nobody => Quiet(q, r, D)
           /\ \A o, p : Grows2(q, r, D, o, p) /\ o.to = Nobody /\ p.to = Nobody => Quiet(q, r, D)
<1>0. Len(q) \in Nat /\ DOMAIN r = 1..Len(r)
  OBVIOUS
<1>1. r = q => Quiet(q, r, {})
  BY <1>0, SameFacts DEF Quiet
<1>2. Still(q, r, D) => Quiet(q, r, D)
  BY <1>0 DEF Quiet, Still
<1>3. ASSUME NEW o, Grows(q, r, D, o), o.to = Nobody PROVE Quiet(q, r, D)
  <2>1. \A i \in DOMAIN r : i > Len(q) => i = Len(q) + 1
    BY <1>0, <1>3 DEF Grows
  <2> QED BY <1>3, <2>1 DEF Quiet, Grows
<1>4. ASSUME NEW o, NEW p, Grows2(q, r, D, o, p), o.to = Nobody, p.to = Nobody PROVE Quiet(q, r, D)
  <2>1. \A i \in DOMAIN r : i > Len(q) => i = Len(q) + 1 \/ i = Len(q) + 2
    BY <1>0, <1>4 DEF Grows2
  <2> QED BY <1>4, <2>1 DEF Quiet, Grows2
<1> QED BY <1>1, <1>2, <1>3, <1>4

(* A logout asks for nothing.                                              *)
LEMMA LogsOutQuiet ==
    ASSUME Queued, Queued', NEW a, NEW D, LogsOut(a, D)
    PROVE  Quiet(charQ, charQ', D)
<1>1. charQ \in Seq(CharOps) /\ charQ' \in Seq(CharOps)
  BY DEF Queued
<1> QED BY <1>1, QuietFacts, OpFields DEF LogsOut

(* A session whose create and login fields are kept expects what it        *)
(* expected.                                                               *)
LEMMA StaysPut ==
    ASSUME TypeOK, NEW a \in Accounts, UNCHANGED sess
    PROVE  Moved(a)
BY DEF TypeOK, Moved

(* A session whose futures wait for what they waited for.                  *)
Expects(a) ==
    sess[a] # None =>
        /\ sess'[a] # None
        /\ sess[a].create = Waiting => sess'[a].create = Waiting
        /\ sess[a].login = Waiting => sess'[a].login = Waiting /\ sess'[a].holder = sess[a].holder

(* A step that asks for nothing keeps the futures wired.                   *)
LEMMA QuietWired ==
    ASSUME Queued, Queued', Wired, NEW a \in Accounts, Moved(a), Expects(a),
           Quiet(charQ, charQ', {}), Quiet(loginQ, loginQ', {})
    PROVE  Wired'
<1>1. \A o : o.to = Nobody => Serves(o, a, sess'[a])
  BY FutureFacts DEF Serves
<1>2. /\ Keeps(charQ, charQ', {}) /\ Keeps(loginQ, loginQ', {})
      /\ \A i \in DOMAIN charQ' : i > Len(charQ) =>
            charQ'[i].to \in {Nobody, Nobody} /\ Serves(charQ'[i], a, sess'[a])
      /\ \A i \in DOMAIN loginQ' : i > Len(loginQ) =>
            loginQ'[i].to \in {Nobody, Nobody} /\ Serves(loginQ'[i], a, sess'[a])
  BY <1>1 DEF Quiet
<1>3. /\ sess'[a] # None \/ sess[a] = None
      /\ \/ sess[a] = None \/ sess[a].create # Waiting
         \/ sess'[a] # None /\ sess'[a].create = Waiting
      /\ \/ sess[a] = None \/ sess[a].login # Waiting
         \/ sess'[a] # None /\ sess'[a].login = Waiting /\ sess'[a].holder = sess[a].holder
  BY DEF Expects
<1>4. {} \in SUBSET Futures(a) /\ Nobody \in {Nobody} \cup Futures(a)
  OBVIOUS
<1> QED BY <1>2, <1>3, <1>4, WiredStep

(* A session that ends takes its futures away.                             *)
LEMMA DeleteWired ==
    ASSUME Queued, Queued', Wired, NEW a \in Accounts, Moved(a), DidDelete(a)
    PROVE  Wired'
<1>1. \A o : o.to = Nobody => Serves(o, a, sess'[a])
  BY FutureFacts DEF Serves
<1>2. Quiet(charQ, charQ', Futures(a)) /\ Quiet(loginQ, loginQ', Futures(a))
  <2>1. /\ LogsOut(a, Futures(a))
        /\ Grows(loginQ, loginQ', Futures(a), Op("online", a, None, FALSE, Nobody))
    BY DEF DidDelete
  <2>2. Quiet(charQ, charQ', Futures(a))
    BY <2>1, LogsOutQuiet
  <2>3. loginQ \in Seq(LoginOps) /\ loginQ' \in Seq(LoginOps)
    BY DEF Queued
  <2>4. ASSUME NEW v, Grows(loginQ, loginQ', Futures(a), Op("online", a, None, v, Nobody))
        PROVE  Quiet(loginQ, loginQ', Futures(a))
    <3>1. Op("online", a, None, v, Nobody).to = Nobody
      BY OpFields
    <3> QED BY <2>3, <2>4, <3>1, QuietFacts
  <2> QED BY <2>1, <2>2, <2>4
<1>3. /\ Keeps(charQ, charQ', Futures(a)) /\ Keeps(loginQ, loginQ', Futures(a))
      /\ \A i \in DOMAIN charQ' : i > Len(charQ) =>
            charQ'[i].to \in {Nobody, Nobody} /\ Serves(charQ'[i], a, sess'[a])
      /\ \A i \in DOMAIN loginQ' : i > Len(loginQ) =>
            loginQ'[i].to \in {Nobody, Nobody} /\ Serves(loginQ'[i], a, sess'[a])
  BY <1>1, <1>2 DEF Quiet
<1>4. /\ Futures(a) \in SUBSET Futures(a) /\ Nobody \in {Nobody} \cup Futures(a)
      /\ <<a, "enum">> \in Futures(a) /\ <<a, "create">> \in Futures(a) \cap Futures(a)
      /\ <<a, "login">> \in Futures(a)
  BY DEF Futures
<1> QED BY <1>3, <1>4, WiredStep

(* One operation is asked of the database of the characters.               *)
LEMMA AskWired ==
    ASSUME Queued, Queued', Wired, NEW a \in Accounts, Moved(a),
           NEW t \in Futures(a), NEW o, o.to = t, Grows(charQ, charQ', {t}, o),
           NEW E \in {{}, {t}}, Still(loginQ, loginQ', E),
           Serves(o, a, sess'[a]), sess'[a] # None,
           \/ t = <<a, "enum">>
           \/ t \in E
           \/ t = <<a, "create">> /\ sess[a].create # Waiting
           \/ t = <<a, "login">> /\ sess[a].login # Waiting,
           \/ t = <<a, "create">> /\ (t \in E \/ sess[a].create # Waiting)
           \/ sess[a].create = Waiting => sess'[a].create = Waiting,
           \/ t = <<a, "login">>
           \/ sess[a].login = Waiting =>
                 sess'[a].login = Waiting /\ sess'[a].holder = sess[a].holder
    PROVE  Wired'
<1>1. Keeps(charQ, charQ', {t}) /\ Keeps(loginQ, loginQ', E)
  BY DEF Grows, Still
<1>2. Len(charQ') <= Len(charQ) + 1 /\ Len(loginQ') = Len(loginQ)
  BY DEF Grows, Still, Queued
<1>3. \A i \in DOMAIN charQ' : i > Len(charQ) =>
         charQ'[i].to \in {Nobody, t} /\ Serves(charQ'[i], a, sess'[a])
  <2>1. Len(charQ) \in Nat /\ DOMAIN charQ' = 1..(Len(charQ) + 1) /\ charQ'[Len(charQ) + 1] = o
    BY DEF Grows, Queued
  <2>2. \A i \in DOMAIN charQ' : i > Len(charQ) => i = Len(charQ) + 1
    BY <2>1
  <2> QED BY <2>1, <2>2
<1>4. \A i \in DOMAIN loginQ' : i > Len(loginQ) =>
         loginQ'[i].to \in {Nobody, t} /\ Serves(loginQ'[i], a, sess'[a])
  <2>1. Len(loginQ) \in Nat /\ DOMAIN loginQ' = 1..Len(loginQ)
    BY DEF Still, Queued
  <2> QED BY <2>1
<1>5. {t} \in SUBSET Futures(a) /\ E \in SUBSET Futures(a) /\ t \in {Nobody} \cup Futures(a)
  OBVIOUS
<1>6. \/ t \in {t} \cap E
      \/ t = <<a, "enum">> /\ t \in {t}
      \/ t = <<a, "create">> /\ sess[a].create # Waiting
      \/ t = <<a, "login">> /\ sess[a].login # Waiting
  OBVIOUS
<1>7. /\ \/ <<a, "create">> \in {t} \cap E
         \/ sess[a] = None \/ sess[a].create # Waiting
         \/ sess'[a] # None /\ sess'[a].create = Waiting
      /\ \/ <<a, "login">> \in {t}
         \/ sess[a] = None \/ sess[a].login # Waiting
         \/ sess'[a] # None /\ sess'[a].login = Waiting /\ sess'[a].holder = sess[a].holder
  OBVIOUS
<1> QED BY <1>1, <1>2, <1>3, <1>4, <1>5, <1>6, <1>7, WiredStep

(* One is asked of the other database.                                     *)
LEMMA SumWired ==
    ASSUME Queued, Queued', Wired, NEW a \in Accounts, Moved(a), NEW o, o.to = <<a, "create">>,
           Grows(loginQ, loginQ', {<<a, "create">>}, o), UNCHANGED charQ,
           sess'[a] # None, sess[a].create # Waiting, sess'[a].create = Waiting,
           sess[a].login = Waiting => sess'[a].login = Waiting /\ sess'[a].holder = sess[a].holder
    PROVE  Wired'
<1> DEFINE t == <<a, "create">>
<1>0. t # <<a, "enum">> /\ t # <<a, "login">> /\ t # Nobody /\ t \in Futures(a)
  BY FutureFacts DEF Futures
<1>1. Keeps(charQ, charQ', {}) /\ Keeps(loginQ, loginQ', {t})
  BY SameFacts DEF Grows, Queued
<1>2. Len(charQ') = Len(charQ) /\ Len(loginQ') <= Len(loginQ) + 1
  BY DEF Grows, Queued
<1>3. Serves(o, a, sess'[a])
  BY <1>0 DEF Serves
<1>4. \A i \in DOMAIN loginQ' : i > Len(loginQ) =>
         loginQ'[i].to \in {Nobody, t} /\ Serves(loginQ'[i], a, sess'[a])
  <2>1. Len(loginQ) \in Nat /\ DOMAIN loginQ' = 1..(Len(loginQ) + 1) /\ loginQ'[Len(loginQ) + 1] = o
    BY DEF Grows, Queued
  <2>2. \A i \in DOMAIN loginQ' : i > Len(loginQ) => i = Len(loginQ) + 1
    BY <2>1
  <2> QED BY <2>1, <2>2, <1>3
<1>5. \A i \in DOMAIN charQ' : i > Len(charQ) =>
         charQ'[i].to \in {Nobody, t} /\ Serves(charQ'[i], a, sess'[a])
  <2>1. Len(charQ) \in Nat /\ DOMAIN charQ' = 1..Len(charQ)
    BY DEF Queued
  <2> QED BY <2>1
<1>6. {} \in SUBSET Futures(a) /\ {t} \in SUBSET Futures(a) /\ t \in {Nobody} \cup Futures(a)
  BY <1>0
<1> QED BY <1>1, <1>2, <1>4, <1>5, <1>6, WiredStep

(* The queues after the steps that ask for nothing.                        *)
LEMMA QuietQueues ==
    ASSUME Queued, Queued', NEW a \in Accounts
    PROVE  /\ UNCHANGED charQ => Quiet(charQ, charQ', {})
           /\ UNCHANGED loginQ => Quiet(loginQ, loginQ', {})
           /\ \A k, b, g, n : Grows(charQ, charQ', {}, Op(k, b, g, n, Nobody)) => Quiet(charQ, charQ', {})
           /\ \A k, b, g, n : Grows(loginQ, loginQ', {}, Op(k, b, g, n, Nobody)) =>
                 Quiet(loginQ, loginQ', {})
           /\ \A k, b, g, n, l, c, h, m :
                 Grows2(charQ, charQ', {}, Op(k, b, g, n, Nobody), Op(l, c, h, m, Nobody)) =>
                    Quiet(charQ, charQ', {})
           /\ LogsOut(a, {}) => Quiet(charQ, charQ', {})
<1>0. /\ charQ \in Seq(CharOps) /\ charQ' \in Seq(CharOps)
      /\ loginQ \in Seq(LoginOps) /\ loginQ' \in Seq(LoginOps)
  BY DEF Queued
<1>1. UNCHANGED charQ => Quiet(charQ, charQ', {})
  BY <1>0, QuietFacts
<1>2. UNCHANGED loginQ => Quiet(loginQ, loginQ', {})
  BY <1>0, QuietFacts
<1>3. ASSUME NEW k, NEW b, NEW g, NEW n PROVE Op(k, b, g, n, Nobody).to = Nobody
  BY OpFields
<1>4. ASSUME NEW o, o.to = Nobody, Grows(charQ, charQ', {}, o) PROVE Quiet(charQ, charQ', {})
  BY <1>0, <1>4, QuietFacts
<1>5. ASSUME NEW o, o.to = Nobody, Grows(loginQ, loginQ', {}, o) PROVE Quiet(loginQ, loginQ', {})
  BY <1>0, <1>5, QuietFacts
<1>6. ASSUME NEW o, NEW p, o.to = Nobody, p.to = Nobody, Grows2(charQ, charQ', {}, o, p)
      PROVE  Quiet(charQ, charQ', {})
  BY <1>0, <1>6, QuietFacts
<1>7. LogsOut(a, {}) => Quiet(charQ, charQ', {})
  BY LogsOutQuiet
<1> QED BY <1>1, <1>2, <1>3, <1>4, <1>5, <1>6, <1>7

(* A step of one account can only disturb the pairing of that account's    *)
(* session.                                                                *)
LEMMA PairedStep ==
    ASSUME Paired, NEW a \in Accounts, Moved(a),
           sess'[a] # None =>
              /\ sess'[a].create = None <=> sess'[a].info = None
              /\ sess'[a].login = None <=> sess'[a].holder = None
              /\ sess'[a].login # None => sess'[a].loading
              /\ sess'[a].loading => sess'[a].player = None
    PROVE  Paired'
<1>1. \A b \in Accounts : b # a => sess'[b] = sess[b]
  BY DEF Moved
<1> QED BY <1>1 DEF Paired

(* Every step of an account keeps the futures wired and the fields of its  *)
(* session paired.                                                         *)
LEMMA DidBase ==
    ASSUME Base, Queued', TypeOK', NEW a \in Accounts, Did(a)
    PROVE  Wired' /\ Paired'
<1>0. TypeOK /\ Queued /\ Wired /\ Paired
  BY DEF Base
<1>n. /\ \A s \in Sessions : s # None
      /\ \A g \in Guids : g # None
      /\ \A n \in Names : n # None
      /\ None # Waiting
  BY NullFacts
<1>p. sess[a] # None =>
         /\ sess[a].create = None <=> sess[a].info = None
         /\ sess[a].login = None <=> sess[a].holder = None
         /\ sess[a].login # None => sess[a].loading
         /\ sess[a].loading => sess[a].player = None
  BY <1>0 DEF Paired
<1>q. /\ UNCHANGED charQ => Quiet(charQ, charQ', {})
      /\ UNCHANGED loginQ => Quiet(loginQ, loginQ', {})
      /\ \A k, b, g, n : Grows(charQ, charQ', {}, Op(k, b, g, n, Nobody)) => Quiet(charQ, charQ', {})
      /\ \A k, b, g, n : Grows(loginQ, loginQ', {}, Op(k, b, g, n, Nobody)) =>
            Quiet(loginQ, loginQ', {})
      /\ \A k, b, g, n, l, c, h, m :
            Grows2(charQ, charQ', {}, Op(k, b, g, n, Nobody), Op(l, c, h, m, Nobody)) =>
               Quiet(charQ, charQ', {})
      /\ LogsOut(a, {}) => Quiet(charQ, charQ', {})
  BY <1>0, QuietQueues
<1>s. Still(charQ, charQ, {}) /\ Still(loginQ, loginQ, {})
  BY <1>0, SameFacts DEF Queued, Still
<1>1. ASSUME UNCHANGED sess PROVE Paired' /\ Expects(a) /\ Moved(a)
  BY <1>1, <1>0, StaysPut DEF Paired, Expects
<1>2. CASE DidConnect(a)
  <2>1. Quiet(charQ, charQ', {}) /\ Quiet(loginQ, loginQ', {}) /\ UNCHANGED sess
    BY <1>2, <1>q DEF DidConnect
  <2> QED BY <2>1, <1>0, <1>1, QuietWired
<1>3. CASE DidKeep(a)
  <2>1. Quiet(charQ, charQ', {}) /\ Quiet(loginQ, loginQ', {}) /\ UNCHANGED sess
    BY <1>3, <1>q DEF DidKeep
  <2> QED BY <2>1, <1>0, <1>1, QuietWired
<1>4. CASE DidAdd(a)
  <2>1. Quiet(charQ, charQ', {}) /\ Quiet(loginQ, loginQ', {}) /\ Moved(a)
    BY <1>4, <1>q DEF DidAdd
  <2>2. Expects(a) /\ sess'[a] = NewSession
    BY <1>4 DEF DidAdd, Expects
  <2>3. Paired'
    BY <2>1, <2>2, <1>0, PairedStep, NewSessionFacts
  <2> QED BY <2>1, <2>2, <2>3, <1>0, QuietWired
<1>5. CASE DidReplace(a)
  <2>1. DidDelete(a) /\ Moved(a) /\ sess'[a] = NewSession
    BY <1>5 DEF DidReplace
  <2>2. Paired'
    BY <2>1, <1>0, PairedStep, NewSessionFacts
  <2> QED BY <2>1, <2>2, <1>0, DeleteWired
<1>6. CASE DidRemove(a)
  <2>1. DidDelete(a) /\ Moved(a) /\ sess'[a] = None
    BY <1>6 DEF DidRemove
  <2>2. Paired'
    BY <2>1, <1>0, PairedStep
  <2> QED BY <2>1, <2>2, <1>0, DeleteWired
<1>7. CASE DidDisconnect(a)
  <2>1. Quiet(charQ, charQ', {}) /\ Quiet(loginQ, loginQ', {}) /\ Moved(a)
    BY <1>7, <1>q DEF DidDisconnect
  <2>2. sess[a] # None /\ sess'[a] # None /\ SameWorld(a) /\ SameCreate(a)
    BY <1>7, <1>n DEF DidDisconnect
  <2>3. Expects(a)
    BY <2>2 DEF Expects, SameWorld, SameCreate
  <2>4. Paired'
    BY <2>1, <2>2, <1>0, <1>p, PairedStep DEF SameWorld, SameCreate
  <2> QED BY <2>1, <2>3, <2>4, <1>0, QuietWired
<1>8. CASE DidLogout(a)
  <2>1. Quiet(charQ, charQ', {}) /\ Quiet(loginQ, loginQ', {}) /\ Moved(a)
    BY <1>8, <1>q DEF DidLogout
  <2>2. /\ sess[a] # None /\ sess'[a] # None /\ SameCreate(a)
        /\ sess'[a].player = None /\ sess'[a].loading = sess[a].loading
        /\ sess'[a].holder = sess[a].holder /\ sess'[a].login = sess[a].login
    BY <1>8, <1>n DEF DidLogout
  <2>3. Expects(a)
    BY <2>2 DEF Expects, SameCreate
  <2>4. Paired'
    BY <2>1, <2>2, <1>0, <1>p, PairedStep DEF SameCreate
  <2> QED BY <2>1, <2>3, <2>4, <1>0, QuietWired
<1>9. CASE DidPlay(a)
  <2>1. Quiet(charQ, charQ', {}) /\ Quiet(loginQ, loginQ', {}) /\ UNCHANGED sess
    BY <1>9, <1>q DEF DidPlay
  <2> QED BY <2>1, <1>0, <1>1, QuietWired
<1>10. CASE DidSave(a)
  <2>1. Quiet(charQ, charQ', {}) /\ Quiet(loginQ, loginQ', {}) /\ UNCHANGED sess
    BY <1>10, <1>q DEF DidSave
  <2> QED BY <2>1, <1>0, <1>1, QuietWired
<1>11. CASE DidAskEnum(a)
  <2> DEFINE t == <<a, "enum">>
             o == Op("enum", a, None, None, t)
  <2>1. /\ Moved(a) /\ sess'[a] # None /\ sess[a] # None /\ SameWorld(a) /\ SameCreate(a)
        /\ Grows(charQ, charQ', {t}, o) /\ UNCHANGED loginQ
    BY <1>11, <1>n DEF DidAskEnum
  <2>2. o.to = t /\ t \in Futures(a)
    BY OpFields DEF Futures
  <2>3. Serves(o, a, sess'[a])
    BY <2>1, <2>2, FutureFacts DEF Serves
  <2>4. Paired'
    BY <2>1, <1>0, <1>p, PairedStep DEF SameWorld, SameCreate
  <2>5. /\ sess[a].create = Waiting => sess'[a].create = Waiting
        /\ sess[a].login = Waiting => sess'[a].login = Waiting /\ sess'[a].holder = sess[a].holder
    BY <2>1 DEF SameWorld, SameCreate
  <2>6. Still(loginQ, loginQ', {})
    BY <2>1, <1>s
  <2> HIDE DEF o
  <2>7. Wired'
    BY <2>1, <2>2, <2>3, <2>5, <2>6, <1>0, AskWired
  <2> QED BY <2>4, <2>7
<1>12. CASE DidList(a)
  <2>1. Quiet(charQ, charQ', {}) /\ Quiet(loginQ, loginQ', {}) /\ Moved(a)
    BY <1>12, <1>q DEF DidList
  <2>2. sess[a] # None /\ sess'[a] # None /\ SameWorld(a) /\ SameCreate(a)
    BY <1>12, <1>n DEF DidList
  <2>3. Expects(a)
    BY <2>2 DEF Expects, SameWorld, SameCreate
  <2>4. Paired'
    BY <2>1, <2>2, <1>0, <1>p, PairedStep DEF SameWorld, SameCreate
  <2> QED BY <2>1, <2>3, <2>4, <1>0, QuietWired
<1>13. ASSUME DidReset(a), Quiet(charQ, charQ', {}), Quiet(loginQ, loginQ', {})
       PROVE  Wired' /\ Paired'
  <2>1. /\ Moved(a) /\ sess[a] # None /\ sess'[a] # None /\ SameWorld(a)
        /\ sess[a].create # Waiting /\ sess'[a].create = None /\ sess'[a].info = None
    BY <1>13, <1>n DEF DidReset, Ready
  <2>2. Expects(a)
    BY <2>1 DEF Expects, SameWorld
  <2>3. Paired'
    BY <2>1, <1>0, <1>p, PairedStep DEF SameWorld
  <2> QED BY <2>1, <2>2, <2>3, <1>0, <1>13, QuietWired
<1>14. CASE DidRefuse(a)
  BY <1>14, <1>13, <1>q DEF DidRefuse
<1>15. ASSUME NEW c \in Nat, DidCreate(a, c) PROVE Wired' /\ Paired'
  BY <1>15, <1>13, <1>q DEF DidCreate
<1>16. ASSUME NEW i, NEW c, DidStage(a, i, c)
       PROVE  /\ Moved(a) /\ sess[a] # None /\ sess'[a] # None /\ SameWorld(a)
              /\ sess[a].create # Waiting /\ sess'[a].create = Waiting
              /\ sess[a].login = Waiting =>
                    sess'[a].login = Waiting /\ sess'[a].holder = sess[a].holder
              /\ Paired'
  <2>1. /\ Moved(a) /\ sess[a] # None /\ sess'[a] # None /\ SameWorld(a)
        /\ sess[a].create # Waiting /\ sess[a].create # None /\ sess'[a].create = Waiting
        /\ sess'[a].info = sess[a].info
    BY <1>16, <1>n DEF DidStage, Ready
  <2>2. Paired'
    BY <2>1, <1>0, <1>p, <1>n, PairedStep DEF SameWorld
  <2>3. sess[a].login = Waiting => sess'[a].login = Waiting /\ sess'[a].holder = sess[a].holder
    BY <2>1 DEF SameWorld
  <2> QED BY <2>1, <2>2, <2>3
<1>17. CASE DidAskSum(a)
  <2> DEFINE o == Op("sum", a, None, None, <<a, "create">>)
  <2>1. /\ DidStage(a, 1, 0) /\ Grows(loginQ, loginQ', {<<a, "create">>}, o) /\ UNCHANGED charQ
        /\ o.to = <<a, "create">>
    BY <1>17, OpFields DEF DidAskSum
  <2> HIDE DEF o
  <2> QED BY <2>1, <1>16, <1>0, SumWired
<1>18. ASSUME NEW k, NEW i, NEW c, DidStage(a, i, c), UNCHANGED loginQ,
              Grows(charQ, charQ', {<<a, "create">>}, Op(k, a, None, None, <<a, "create">>))
       PROVE  Wired' /\ Paired'
  <2> DEFINE t == <<a, "create">>
             o == Op(k, a, None, None, t)
  <2>1. o.to = t /\ t \in Futures(a)
    BY OpFields DEF Futures
  <2>2. /\ Moved(a) /\ sess[a] # None /\ sess'[a] # None
        /\ sess[a].create # Waiting /\ sess'[a].create = Waiting
        /\ sess[a].login = Waiting => sess'[a].login = Waiting /\ sess'[a].holder = sess[a].holder
        /\ Paired'
    BY <1>16, <1>18
  <2>3. Serves(o, a, sess'[a])
    BY <2>1, <2>2, FutureFacts DEF Serves
  <2>4. Still(loginQ, loginQ', {}) /\ Grows(charQ, charQ', {t}, o)
    BY <1>18, <1>s
  <2> HIDE DEF o
  <2>5. Wired'
    BY <2>1, <2>2, <2>3, <2>4, <1>0, AskWired
  <2> QED BY <2>2, <2>5
<1>19. CASE DidAskCount(a)
  BY <1>19, <1>18 DEF DidAskCount
<1>20. ASSUME NEW c \in Nat, DidAskInfo(a, c) PROVE Wired' /\ Paired'
  BY <1>20, <1>18 DEF DidAskInfo
<1>21. ASSUME NEW n \in Names, DidAskName(a, n) PROVE Wired' /\ Paired'
  <2> DEFINE t == <<a, "create">>
             o == Op("name", a, None, n, t)
  <2>1. o.to = t /\ t \in Futures(a)
    BY OpFields DEF Futures
  <2>2. /\ Moved(a) /\ sess[a] # None /\ sess'[a] # None /\ SameWorld(a)
        /\ sess'[a].create = Waiting /\ sess'[a].info # None
        /\ Grows(charQ, charQ', {t}, o) /\ Still(loginQ, loginQ', {t})
    BY <1>21, <1>n DEF DidAskName
  <2>3. sess[a].login = Waiting => sess'[a].login = Waiting /\ sess'[a].holder = sess[a].holder
    BY <2>2 DEF SameWorld
  <2>4. Paired'
    BY <2>2, <1>0, <1>p, <1>n, PairedStep DEF SameWorld
  <2>5. Serves(o, a, sess'[a])
    BY <2>1, <2>2, FutureFacts DEF Serves
  <2> HIDE DEF o
  <2>6. Wired'
    BY <2>1, <2>2, <2>3, <2>5, <1>0, AskWired
  <2> QED BY <2>4, <2>6
<1>22. ASSUME NEW g \in Guids, DidDrop(a, g) PROVE Wired' /\ Paired'
  <2>1. Quiet(charQ, charQ', {}) /\ Quiet(loginQ, loginQ', {}) /\ UNCHANGED sess
    BY <1>22, <1>q DEF DidDrop
  <2> QED BY <2>1, <1>0, <1>1, QuietWired
<1>23. ASSUME NEW g \in Guids, DidLoad(a, g) PROVE Wired' /\ Paired'
  <2> DEFINE t == <<a, "login">>
             o == Op("load", a, g, None, t)
  <2>1. o.to = t /\ o.g = g /\ t \in Futures(a)
    BY OpFields DEF Futures
  <2>2. /\ Moved(a) /\ sess[a] # None /\ sess'[a] # None /\ SameCreate(a)
        /\ ~sess[a].loading /\ sess'[a].loading /\ sess'[a].player = None
        /\ sess'[a].holder = g /\ sess'[a].login = Waiting
        /\ Grows(charQ, charQ', {t}, o) /\ UNCHANGED loginQ
    BY <1>23, <1>n DEF DidLoad
  <2>3. sess[a].login # Waiting /\ (sess[a].create = Waiting => sess'[a].create = Waiting)
    BY <2>2, <1>p, <1>n DEF SameCreate
  <2>4. Paired'
    BY <2>2, <1>0, <1>p, <1>n, PairedStep DEF SameCreate
  <2>5. Serves(o, a, sess'[a])
    BY <2>1, <2>2, FutureFacts DEF Serves
  <2>6. Still(loginQ, loginQ', {})
    BY <2>2, <1>s
  <2> HIDE DEF o
  <2>7. Wired'
    BY <2>1, <2>2, <2>3, <2>5, <2>6, <1>0, AskWired
  <2> QED BY <2>4, <2>7
<1>24. CASE DidKick(a)
  <2>1. Quiet(charQ, charQ', {}) /\ Quiet(loginQ, loginQ', {}) /\ Moved(a)
    BY <1>24, <1>q DEF DidKick
  <2>2. /\ sess[a] # None /\ sess'[a] # None /\ SameCreate(a)
        /\ sess'[a].player = None /\ sess'[a].loading
        /\ sess'[a].holder = sess[a].holder /\ sess'[a].login = sess[a].login
    BY <1>24, <1>n DEF DidKick
  <2>3. Expects(a)
    BY <2>2 DEF Expects, SameCreate
  <2>4. Paired'
    BY <2>1, <2>2, <1>0, <1>p, PairedStep DEF SameCreate
  <2> QED BY <2>1, <2>3, <2>4, <1>0, QuietWired
<1>25. ASSUME DidAnswer(a), Quiet(charQ, charQ', {}), Quiet(loginQ, loginQ', {})
       PROVE  Wired' /\ Paired'
  <2>1. /\ Moved(a) /\ sess[a] # None /\ sess'[a] # None /\ SameCreate(a)
        /\ sess[a].login # Waiting /\ ~sess'[a].loading
        /\ sess'[a].holder = None /\ sess'[a].login = None
    BY <1>25, <1>n DEF DidAnswer, Ready
  <2>2. Expects(a)
    BY <2>1 DEF Expects, SameCreate
  <2>3. Paired'
    BY <2>1, <1>0, <1>p, PairedStep DEF SameCreate
  <2> QED BY <2>1, <2>2, <2>3, <1>0, <1>25, QuietWired
<1>26. CASE DidEnter(a)
  BY <1>26, <1>25, <1>q DEF DidEnter
<1>27. CASE DidFail(a)
  BY <1>27, <1>25, <1>q DEF DidFail
<1> QED BY <1>2, <1>3, <1>4, <1>5, <1>6, <1>7, <1>8, <1>9, <1>10, <1>11, <1>12, <1>14, <1>15,
           <1>17, <1>19, <1>20, <1>21, <1>22, <1>23, <1>24, <1>26, <1>27 DEF Did

(* A queue that is served keeps its wiring.                                *)
LEMMA ShiftFacts ==
    ASSUME NEW X, NEW q \in Seq(X), NEW r \in Seq(X), Shifts(q, r)
    PROVE  /\ 1 \in DOMAIN q
           /\ \A i \in DOMAIN r : i \in Nat /\ i + 1 \in DOMAIN q /\ i + 1 # 1 /\ r[i] = q[i + 1]
           /\ \A i \in DOMAIN q : i = 1 \/ (i - 1 \in DOMAIN r /\ r[i - 1] = q[i])
BY DEF Shifts

(* The operations of CharacterDatabase that are left move up by one; no    *)
(* other one fills the future of the first.                                *)
LEMMA PopFacts ==
    ASSUME Queued, Queued', Wired, NEW o \in CharOps, Pops(o)
    PROVE  /\ 1 \in DOMAIN charQ /\ o = charQ[1] /\ o.a \in Accounts
           /\ \A i \in DOMAIN charQ' : i \in Nat /\ i + 1 \in DOMAIN charQ /\ charQ'[i] = charQ[i + 1]
           /\ \A i \in DOMAIN charQ : i = 1 \/ (i - 1 \in DOMAIN charQ' /\ charQ'[i - 1] = charQ[i])
           /\ \A i \in DOMAIN charQ' : charQ'[i].to = o.to => o.to = Nobody
           /\ \A i \in DOMAIN loginQ : loginQ[i].to = o.to => o.to = Nobody
<1>0. charQ \in Seq(CharOps) /\ charQ' \in Seq(CharOps) /\ Shifts(charQ, charQ') /\ o = charQ[1]
  BY DEF Queued, Pops
<1>1. /\ 1 \in DOMAIN charQ
      /\ \A i \in DOMAIN charQ' :
            i \in Nat /\ i + 1 \in DOMAIN charQ /\ i + 1 # 1 /\ charQ'[i] = charQ[i + 1]
      /\ \A i \in DOMAIN charQ : i = 1 \/ (i - 1 \in DOMAIN charQ' /\ charQ'[i - 1] = charQ[i])
  BY <1>0, ShiftFacts
<1>2. o.a \in Accounts
  BY DEF CharOps, OpSet
<1>3. \A i \in DOMAIN charQ' : charQ'[i].to = o.to => o.to = Nobody
  BY <1>0, <1>1 DEF Wired
<1>4. \A i \in DOMAIN loginQ : loginQ[i].to = o.to => o.to = Nobody
  BY <1>0, <1>1 DEF Wired
<1> QED BY <1>0, <1>1, <1>2, <1>3, <1>4

(* The same for LoginDatabase.                                             *)
LEMMA PopLoginFacts ==
    ASSUME Queued, Queued', Wired, NEW o \in LoginOps, PopsLogin(o)
    PROVE  /\ 1 \in DOMAIN loginQ /\ o = loginQ[1] /\ o.a \in Accounts
           /\ \A i \in DOMAIN loginQ' :
                 i \in Nat /\ i + 1 \in DOMAIN loginQ /\ loginQ'[i] = loginQ[i + 1]
           /\ \A i \in DOMAIN loginQ :
                 i = 1 \/ (i - 1 \in DOMAIN loginQ' /\ loginQ'[i - 1] = loginQ[i])
           /\ \A i \in DOMAIN loginQ' : loginQ'[i].to = o.to => o.to = Nobody
           /\ \A i \in DOMAIN charQ : charQ[i].to = o.to => o.to = Nobody
<1>0. loginQ \in Seq(LoginOps) /\ loginQ' \in Seq(LoginOps) /\ Shifts(loginQ, loginQ') /\ o = loginQ[1]
  BY DEF Queued, PopsLogin
<1>1. /\ 1 \in DOMAIN loginQ
      /\ \A i \in DOMAIN loginQ' :
            i \in Nat /\ i + 1 \in DOMAIN loginQ /\ i + 1 # 1 /\ loginQ'[i] = loginQ[i + 1]
      /\ \A i \in DOMAIN loginQ : i = 1 \/ (i - 1 \in DOMAIN loginQ' /\ loginQ'[i - 1] = loginQ[i])
  BY <1>0, ShiftFacts
<1>2. o.a \in Accounts
  BY DEF LoginOps, OpSet
<1>3. \A i \in DOMAIN loginQ' : loginQ'[i].to = o.to => o.to = Nobody
  BY <1>0, <1>1 DEF Wired
<1>4. \A i \in DOMAIN charQ : charQ[i].to = o.to => o.to = Nobody
  BY <1>0, <1>1 DEF Wired
<1> QED BY <1>0, <1>1, <1>2, <1>3, <1>4

(* Every future but the one that is answered waits on.                     *)
Answers1(o) ==
    \A b \in Accounts :
        /\ sess[b] # None <=> sess'[b] # None
        /\ sess[b] # None =>
              /\ sess'[b].holder = sess[b].holder
              /\ o.to # <<b, "create">> => sess'[b].create = sess[b].create
              /\ o.to # <<b, "login">> => sess'[b].login = sess[b].login

(* Serving CharacterDatabase's queue keeps the futures wired.              *)
LEMMA PopWired ==
    ASSUME Queued, Queued', Wired, NEW o \in CharOps, Pops(o), Answers1(o)
    PROVE  Wired'
<1>1. /\ \A i \in DOMAIN charQ' : i \in Nat /\ i + 1 \in DOMAIN charQ /\ charQ'[i] = charQ[i + 1]
      /\ \A i \in DOMAIN charQ' : charQ'[i].to = o.to => o.to = Nobody
      /\ \A i \in DOMAIN loginQ : loginQ[i].to = o.to => o.to = Nobody
  BY PopFacts
<1>2. UNCHANGED loginQ
  BY DEF Pops
<1>3. ASSUME NEW p, NEW b \in Accounts, Serves(p, b, sess[b]), p.to = o.to => o.to = Nobody
      PROVE  Serves(p, b, sess'[b])
  BY <1>3, FutureFacts DEF Serves, Answers1
<1>4. \A i \in DOMAIN charQ', b \in Accounts : Serves(charQ'[i], b, sess'[b])
  BY <1>1, <1>3 DEF Wired
<1>5. \A i \in DOMAIN loginQ', b \in Accounts : Serves(loginQ'[i], b, sess'[b])
  BY <1>1, <1>2, <1>3 DEF Wired
<1>6. \A i, j \in DOMAIN charQ' : i # j /\ charQ'[i].to = charQ'[j].to => charQ'[i].to = Nobody
  <2> TAKE i, j \in DOMAIN charQ'
  <2>1. i # j => i + 1 # j + 1
    BY <1>1
  <2> QED BY <1>1, <2>1 DEF Wired
<1>7. \A i, j \in DOMAIN loginQ' : i # j /\ loginQ'[i].to = loginQ'[j].to => loginQ'[i].to = Nobody
  BY <1>2 DEF Wired
<1>8. \A i \in DOMAIN charQ', j \in DOMAIN loginQ' :
         charQ'[i].to = loginQ'[j].to => charQ'[i].to = Nobody
  BY <1>1, <1>2 DEF Wired
<1> QED BY <1>4, <1>5, <1>6, <1>7, <1>8 DEF Wired

(* Serving LoginDatabase's queue keeps them wired.                         *)
LEMMA PopLoginWired ==
    ASSUME Queued, Queued', Wired, NEW o \in LoginOps, PopsLogin(o), Answers1(o)
    PROVE  Wired'
<1>1. /\ \A i \in DOMAIN loginQ' : i \in Nat /\ i + 1 \in DOMAIN loginQ /\ loginQ'[i] = loginQ[i + 1]
      /\ \A i \in DOMAIN loginQ' : loginQ'[i].to = o.to => o.to = Nobody
      /\ \A i \in DOMAIN charQ : charQ[i].to = o.to => o.to = Nobody
  BY PopLoginFacts
<1>2. UNCHANGED charQ
  BY DEF PopsLogin
<1>3. ASSUME NEW p, NEW b \in Accounts, Serves(p, b, sess[b]), p.to = o.to => o.to = Nobody
      PROVE  Serves(p, b, sess'[b])
  BY <1>3, FutureFacts DEF Serves, Answers1
<1>4. \A i \in DOMAIN loginQ', b \in Accounts : Serves(loginQ'[i], b, sess'[b])
  BY <1>1, <1>3 DEF Wired
<1>5. \A i \in DOMAIN charQ', b \in Accounts : Serves(charQ'[i], b, sess'[b])
  BY <1>1, <1>2, <1>3 DEF Wired
<1>6. \A i, j \in DOMAIN loginQ' : i # j /\ loginQ'[i].to = loginQ'[j].to => loginQ'[i].to = Nobody
  <2> TAKE i, j \in DOMAIN loginQ'
  <2>1. i # j => i + 1 # j + 1
    BY <1>1
  <2> QED BY <1>1, <2>1 DEF Wired
<1>7. \A i, j \in DOMAIN charQ' : i # j /\ charQ'[i].to = charQ'[j].to => charQ'[i].to = Nobody
  BY <1>2 DEF Wired
<1>8. \A i \in DOMAIN charQ', j \in DOMAIN loginQ' :
         charQ'[i].to = loginQ'[j].to => charQ'[i].to = Nobody
  BY <1>1, <1>2 DEF Wired
<1> QED BY <1>4, <1>5, <1>6, <1>7, <1>8 DEF Wired

(* The two workers.                                                        *)
LEMMA WorkBase ==
    ASSUME Base, Queued', TypeOK',
           \/ \E o \in CharOps : DidCharWork(o)
           \/ \E o \in LoginOps : DidLoginWork(o)
    PROVE  Wired' /\ Paired'
<1>0. TypeOK /\ Queued /\ Wired /\ Paired
  BY DEF Base
<1>n. /\ \A s \in Sessions : s # None
      /\ \A v \in Answers : v # None /\ v # Waiting
      /\ \A v \in Loads : v # None /\ v # Waiting
      /\ None # Waiting
  BY NullFacts
<1>1. ASSUME NEW o, UNCHANGED sess PROVE Answers1(o) /\ Paired'
  BY <1>0, <1>1 DEF Answers1, Paired
<1>2. ASSUME NEW o, o.a \in Accounts, TellsCreate(o), Serves(o, o.a, sess[o.a])
      PROVE  Answers1(o) /\ Paired'
  <2>1. /\ o.to = <<o.a, "create">> /\ Moved(o.a) /\ sess[o.a] # None /\ sess'[o.a] # None
        /\ SameWorld(o.a) /\ sess'[o.a].info = sess[o.a].info /\ sess'[o.a].create # None
    BY <1>2, <1>n DEF TellsCreate, Tells
  <2>2. sess[o.a].create # None
    BY <1>2, <2>1, <1>n DEF Serves
  <2>3. Answers1(o)
    BY <2>1 DEF Answers1, Moved, SameWorld
  <2>4. Paired'
    BY <1>0, <1>2, <2>1, <2>2, PairedStep DEF Paired, SameWorld
  <2> QED BY <2>3, <2>4
<1>3. ASSUME NEW o \in CharOps, DidCharWork(o) PROVE Wired' /\ Paired'
  <2>1. Pops(o)
    BY <1>3 DEF DidCharWork, DidInsert, DidWrite, DidErase, DidMark, DidTellEnum, DidTellCreate, DidTellLoad
  <2>2. 1 \in DOMAIN charQ /\ o = charQ[1] /\ o.a \in Accounts
    BY <2>1, <1>0, PopFacts
  <2>3. Serves(o, o.a, sess[o.a])
    BY <2>2, <1>0 DEF Wired
  <2>4. CASE DidInsert(o) \/ DidWrite(o) \/ DidErase(o) \/ DidMark(o)
    <3>1. UNCHANGED sess
      BY <2>4 DEF DidInsert, DidWrite, DidErase, DidMark
    <3> QED BY <1>0, <1>1, <2>1, <3>1, PopWired
  <2>5. CASE DidTellEnum(o)
    <3>1. /\ Moved(o.a) /\ sess[o.a] # None /\ sess'[o.a] # None
          /\ SameWorld(o.a) /\ SameCreate(o.a)
      BY <2>5, <1>n DEF DidTellEnum, Tells
    <3>2. Answers1(o)
      BY <3>1 DEF Answers1, Moved, SameWorld, SameCreate
    <3>3. Paired'
      BY <1>0, <2>2, <3>1, PairedStep DEF Paired, SameWorld, SameCreate
    <3> QED BY <1>0, <2>1, <3>2, <3>3, PopWired
  <2>6. CASE DidTellCreate(o)
    <3>1. TellsCreate(o)
      BY <2>6 DEF DidTellCreate
    <3> QED BY <1>0, <1>2, <2>1, <2>2, <2>3, <3>1, PopWired
  <2>7. CASE DidTellLoad(o)
    <3>1. /\ o.to = <<o.a, "login">> /\ Moved(o.a) /\ sess[o.a] # None /\ sess'[o.a] # None
          /\ SameCreate(o.a) /\ sess'[o.a].player = sess[o.a].player
          /\ sess'[o.a].loading = sess[o.a].loading
          /\ sess'[o.a].holder = sess[o.a].holder /\ sess'[o.a].login = <<row[o.g]>>
      BY <2>7, <1>n DEF DidTellLoad, Tells
    <3>2. sess[o.a].login # None /\ sess'[o.a].login # None
      <4>1. sess[o.a].login = Waiting
        BY <2>3, <3>1 DEF Serves
      <4>2. o.g \in Guids
        BY <2>7 DEF DidTellLoad, CharOps, CharOp
      <4>3. row[o.g] \in {None} \cup Rows
        BY <1>0, <4>2 DEF TypeOK
      <4>4. <<row[o.g]>> \in Loads
        BY <4>3 DEF Loads
      <4>5. <<row[o.g]>> # None /\ Waiting # None
        BY <4>4, <1>n
      <4> QED BY <4>1, <4>5, <3>1
    <3>3. Answers1(o)
      BY <3>1 DEF Answers1, Moved, SameCreate
    <3>4. Paired'
      BY <1>0, <2>2, <3>1, <3>2, PairedStep DEF Paired, SameCreate
    <3> QED BY <1>0, <2>1, <3>3, <3>4, PopWired
  <2> QED BY <1>3, <2>4, <2>5, <2>6, <2>7 DEF DidCharWork
<1>4. ASSUME NEW o \in LoginOps, DidLoginWork(o) PROVE Wired' /\ Paired'
  <2>1. PopsLogin(o)
    BY <1>4 DEF DidLoginWork, DidRecord, DidTellSum
  <2>2. 1 \in DOMAIN loginQ /\ o = loginQ[1] /\ o.a \in Accounts
    BY <2>1, <1>0, PopLoginFacts
  <2>3. Serves(o, o.a, sess[o.a])
    BY <2>2, <1>0 DEF Wired
  <2>4. CASE DidRecord(o)
    <3>1. UNCHANGED sess
      BY <2>4 DEF DidRecord
    <3> QED BY <1>0, <1>1, <2>1, <3>1, PopLoginWired
  <2>5. CASE DidTellSum(o)
    <3>1. TellsCreate(o)
      BY <2>5 DEF DidTellSum
    <3> QED BY <1>0, <1>2, <2>1, <2>2, <2>3, <3>1, PopLoginWired
  <2> QED BY <1>4, <2>4, <2>5 DEF DidLoginWork
<1> QED BY <1>3, <1>4

(* The number a realm is told of, and a restart.                           *)
LEMMA OtherBase ==
    ASSUME Base, Queued', TypeOK', DidUpdateCount \/ DidRestart
    PROVE  Wired' /\ Paired'
<1>0. TypeOK /\ Queued /\ Wired /\ Paired
  BY DEF Base
<1>1. CASE DidRestart
  <2>1. charQ' = <<>> /\ loginQ' = <<>> /\ \A a \in Accounts : sess'[a] = None
    BY <1>1 DEF DidRestart
  <2>2. DOMAIN charQ' = {} /\ DOMAIN loginQ' = {}
    BY <2>1
  <2>3. Wired'
    BY <2>2 DEF Wired
  <2>4. Paired'
    BY <2>1 DEF Paired
  <2> QED BY <2>3, <2>4
<1>2. CASE DidUpdateCount
  <2>1. UNCHANGED <<sess, charQ>>
    BY <1>2 DEF DidUpdateCount
  <2>2. Paired'
    BY <1>0, <2>1 DEF Paired
  <2>3. Quiet(charQ, charQ', {}) /\ Quiet(loginQ, loginQ', {})
    BY <1>0, <1>2, <2>1, QuietFacts DEF DidUpdateCount, OnlyWrites, Quiet, Queued
  <2>4. CASE Accounts = {}
    <3>1. OpSet = {}
      BY <2>4 DEF OpSet
    <3>2. CharOps = {} /\ LoginOps = {}
      BY <3>1 DEF CharOps, LoginOps
    <3>3. DOMAIN charQ' = {} /\ DOMAIN loginQ' = {}
      BY <3>2 DEF Queued
    <3> QED BY <2>2, <3>3 DEF Wired
  <2>5. ASSUME NEW a \in Accounts PROVE Wired'
    <3>1. Moved(a) /\ Expects(a)
      BY <1>0, <2>1, StaysPut DEF Expects
    <3> QED BY <1>0, <2>3, <3>1, QuietWired
  <2> QED BY <2>2, <2>4, <2>5
<1> QED BY <1>1, <1>2

(* Base is inductive.                                                      *)
LEMMA InitBase == Init => Base
<1> SUFFICES ASSUME Init PROVE Base
  OBVIOUS
<1>1. /\ sess = [a \in Accounts |-> [NewSession EXCEPT !.legit = {g \in Guids : Owner[g] = a}]]
      /\ joining = {} /\ charQ = <<>> /\ loginQ = <<>>
      /\ row = [g \in Guids |-> IF Owner[g] = None THEN None ELSE Row(Owner[g], g)]
      /\ realm = [a \in Accounts |-> Cardinality({g \in Guids : Owner[g] = a})]
      /\ online = [a \in Accounts |-> TRUE]
      /\ counts = <<>> /\ version = [g \in Guids |-> 0]
      /\ nextGuid = Max({0} \cup {g \in Guids : Owner[g] # None}) + 1
      /\ left = MaxRequests /\ crashes = 0 /\ hasty = {} /\ contended = {} /\ raced = {}
      /\ zoning = {} /\ stuck = {} /\ cut = {}
  BY DEF Init
<1>2. MaxGuid \in Nat /\ MaxRequests \in Nat /\ Owner \in [Guids -> Accounts \cup {None}]
  BY LimitsAssumption
<1>3. ASSUME NEW a \in Accounts
      PROVE  /\ sess[a] \in Sessions
             /\ sess[a].create = None /\ sess[a].info = None /\ sess[a].login = None
             /\ sess[a].holder = None /\ ~sess[a].loading /\ sess[a].player = None
  <2>1. {g \in Guids : Owner[g] = a} \in SUBSET Guids
    OBVIOUS
  <2>2. ASSUME NEW s \in Sessions, NEW L \in SUBSET Guids
        PROVE  LET t == [s EXCEPT !.legit = L] IN
               /\ t \in Sessions
               /\ t.create = s.create /\ t.info = s.info /\ t.login = s.login
               /\ t.holder = s.holder /\ t.loading = s.loading /\ t.player = s.player
    BY DEF Sessions
  <2>3. sess[a] = [NewSession EXCEPT !.legit = {g \in Guids : Owner[g] = a}]
    BY <1>1
  <2> QED BY <2>1, <2>2, <2>3, NewSessionFacts
<1>4. sess \in [Accounts -> {None} \cup Sessions]
  BY <1>1, <1>3
<1>5. row \in [Guids -> {None} \cup Rows]
  <2>1. \A g \in Guids : Owner[g] # None => Row(Owner[g], g) \in Rows
    BY <1>2 DEF Row, Rows
  <2> QED BY <1>1, <2>1
<1>6. realm \in [Accounts -> {None} \cup Nat]
  <2>1. \A a \in Accounts : Cardinality({g \in Guids : Owner[g] = a}) \in Nat
    <3>1. IsFiniteSet(Guids)
      BY <1>2, FS_Interval DEF Guids
    <3> TAKE a \in Accounts
    <3>2. IsFiniteSet({g \in Guids : Owner[g] = a})
      BY <3>1, FS_Subset
    <3> QED BY <3>2, FS_CardinalityType
  <2> QED BY <1>1, <2>1
<1>7. nextGuid \in Nat \ {0}
  <2> DEFINE S == {0} \cup {g \in Guids : Owner[g] # None}
  <2>1. S \subseteq 0..MaxGuid /\ S # {}
    BY <1>2 DEF Guids
  <2>2. nextGuid = Max(S) + 1
    BY <1>1
  <2> HIDE DEF S
  <2>3. Max(S) \in S
    BY <1>2, <2>1, MaxFacts
  <2>4. Max(S) \in 0..MaxGuid
    BY <2>1, <2>3
  <2> QED BY <1>2, <2>2, <2>4
<1>8. online \in [Accounts -> BOOLEAN] /\ counts \in Seq([a : Accounts, n : Nat])
      /\ version \in [Guids -> Nat]
  BY <1>1
<1>9. TypeOK
  BY <1>1, <1>2, <1>4, <1>5, <1>6, <1>7, <1>8 DEF TypeOK
<1>10. Queued
  BY <1>1 DEF Queued
<1>11. Wired
  <2>1. DOMAIN charQ = {} /\ DOMAIN loginQ = {}
    BY <1>1
  <2> QED BY <2>1 DEF Wired
<1>12. Paired
  BY <1>3 DEF Paired
<1> QED BY <1>9, <1>10, <1>11, <1>12 DEF Base

(* Every step.                                                             *)
LEMMA NextBase == Base /\ [Next]_vars => Base'
<1> SUFFICES ASSUME Base, [Next]_vars PROVE Base'
  OBVIOUS
<1>1. CASE Next
  <2>1. /\ Queued' /\ TypeOK'
        /\ \/ \E a \in Accounts : Did(a)
           \/ \E o \in CharOps : DidCharWork(o)
           \/ \E o \in LoginOps : DidLoginWork(o)
           \/ DidUpdateCount \/ DidRestart
    BY <1>1, NextDid
  <2>2. Wired' /\ Paired'
    BY <2>1, DidBase, WorkBase, OtherBase
  <2> QED BY <2>1, <2>2 DEF Base
<1>2. CASE UNCHANGED vars
  BY <1>2 DEF vars, Base, TypeOK, Queued, Wired, Paired
<1> QED BY <1>1, <1>2

(* The basic invariant holds in every run.                                 *)
LEMMA CharactersBase == Spec => []Base
BY InitBase, NextBase, PTL DEF Spec

(* The sessions, the two tables, what is queued and the identifiers have   *)
(* their types after every handler, callback, database operation and       *)
(* restart (WorldSession.h 986, Callback.h 19-97).                         *)
THEOREM CharactersTypeCorrect == Spec => []TypeOK
<1>1. Base => TypeOK
  BY DEF Base
<1> QED BY <1>1, CharactersBase, PTL

-----------------------------------------------------------------------------
(* What every step of an account has in common                             *)

(* Nobody comes into the world and no character is found.                  *)
WorldFrame(a) ==
    sess'[a] # None =>
        /\ sess'[a].player # None => sess[a] # None /\ sess'[a].player = sess[a].player
        /\ Ready(sess'[a].login) =>
              /\ sess[a] # None /\ sess'[a].login = sess[a].login
              /\ sess'[a].holder = sess[a].holder

(* A character that leaves the world is saved.                             *)
Leaves(a) ==
    sess[a] # None /\ sess[a].player # None =>
        \/ sess'[a] # None /\ sess'[a].player = sess[a].player
        \/ \E D : LogsOut(a, D)

(* What a step of a may add to the queue, and when.                        *)
NewOp(a, o) ==
    /\ o.op = "insert" => /\ \E c \in Nat : DidCreate(a, c)
                          /\ o.g = nextGuid /\ o.a = a /\ o.n = sess[a].info
    /\ o.op = "save" => /\ sess[a] # None /\ sess[a].player # None
                        /\ o.g = sess[a].player /\ o.n = version[sess[a].player]
    /\ o.op = "delete" => DidDrop(a, o.g)
    /\ \/ o.to = Nobody \/ o.to = <<a, "enum">>
       \/ o.to = <<a, "login">> /\ o.op = "load" /\ DidLoad(a, o.g)
       \/ /\ o.to = <<a, "create">>
          /\ \/ o.op = "name" /\ DidAskName(a, o.n)
             \/ o.op = "count" /\ DidAskCount(a)
             \/ o.op = "info" /\ \E c \in Nat : DidAskInfo(a, c)

Added(a) ==
    /\ \E D : Keeps(charQ, charQ', D)
    /\ \A i \in DOMAIN charQ' : i > Len(charQ) => NewOp(a, charQ'[i])

Grown(g, a) ==
    \/ version'[g] = version[g]
    \/ DidPlay(a) /\ g = sess[a].player
    \/ DidEnter(a) /\ g = sess[a].holder

(* What a queue that grows by at most one operation has at its end.        *)
LEMMA AddedOps ==
    ASSUME NEW X, NEW q \in Seq(X), NEW r \in Seq(X), NEW D
    PROVE  /\ Still(q, r, D) => \A i \in DOMAIN r : ~(i > Len(q))
           /\ \A o : Grows(q, r, D, o) => \A i \in DOMAIN r : i > Len(q) => r[i] = o
<1>0. Len(q) \in Nat /\ DOMAIN r = 1..Len(r)
  OBVIOUS
<1>1. Still(q, r, D) => \A i \in DOMAIN r : ~(i > Len(q))
  BY <1>0 DEF Still
<1>2. ASSUME NEW o, Grows(q, r, D, o), NEW i \in DOMAIN r, i > Len(q) PROVE r[i] = o
  <2>1. i = Len(q) + 1
    BY <1>0, <1>2 DEF Grows
  <2> QED BY <2>1, <1>2 DEF Grows
<1> QED BY <1>1, <1>2

(* The ways the queue of the characters grows.                             *)
LEMMA AddedWays ==
    ASSUME Queued, Queued', NEW a
    PROVE  /\ UNCHANGED charQ => Added(a)
           /\ \A D, o : Grows(charQ, charQ', D, o) /\ NewOp(a, o) => Added(a)
           /\ \A D, o, p : Grows2(charQ, charQ', D, o, p) /\ NewOp(a, o) /\ NewOp(a, p) => Added(a)
           /\ \A D : LogsOut(a, D) /\ sess[a] # None => Added(a)
<1>0. charQ \in Seq(CharOps) /\ charQ' \in Seq(CharOps)
  BY DEF Queued
<1>1. ASSUME NEW D, Still(charQ, charQ', D) PROVE Added(a)
  <2>1. \A i \in DOMAIN charQ' : ~(i > Len(charQ))
    BY <1>0, <1>1, AddedOps
  <2>2. Keeps(charQ, charQ', D)
    BY <1>1 DEF Still
  <2> QED BY <2>1, <2>2 DEF Added
<1>2. ASSUME NEW D, NEW o, Grows(charQ, charQ', D, o), NewOp(a, o) PROVE Added(a)
  <2>1. \A i \in DOMAIN charQ' : i > Len(charQ) => charQ'[i] = o
    BY <1>0, <1>2, AddedOps
  <2>2. Keeps(charQ, charQ', D)
    BY <1>2 DEF Grows
  <2> QED BY <2>1, <2>2, <1>2 DEF Added
<1>3. ASSUME NEW D, NEW o, NEW p, Grows2(charQ, charQ', D, o, p), NewOp(a, o), NewOp(a, p)
      PROVE  Added(a)
  <2>0. /\ Len(charQ) \in Nat /\ DOMAIN charQ' = 1..Len(charQ')
        /\ Len(charQ') = Len(charQ) + 2
        /\ charQ'[Len(charQ) + 1] = o /\ charQ'[Len(charQ) + 2] = p
    BY <1>0, <1>3 DEF Grows2
  <2>1. \A i \in DOMAIN charQ' : i > Len(charQ) => charQ'[i] = o \/ charQ'[i] = p
    <3> TAKE i \in DOMAIN charQ'
    <3>1. i > Len(charQ) => i = Len(charQ) + 1 \/ i = Len(charQ) + 2
      BY <2>0
    <3> QED BY <2>0, <3>1
  <2>2. Keeps(charQ, charQ', D)
    BY <1>3 DEF Grows2
  <2> QED BY <2>1, <2>2, <1>3 DEF Added
<1>4. UNCHANGED charQ => Added(a)
  <2>1. UNCHANGED charQ => Still(charQ, charQ', {})
    BY <1>0, SameFacts DEF Still
  <2> QED BY <2>1, <1>1
<1>5. ASSUME NEW D, LogsOut(a, D), sess[a] # None PROVE Added(a)
  <2>1. CASE sess[a].player = None
    BY <2>1, <1>1, <1>5 DEF LogsOut
  <2>2. CASE sess[a].player # None
    <3> DEFINE o == Op("save", a, sess[a].player, version[sess[a].player], Nobody)
               p == Op("offline", a, None, None, Nobody)
    <3>1. Grows2(charQ, charQ', D, o, p)
      BY <2>2, <1>5 DEF LogsOut
    <3>2. NewOp(a, o)
      BY <2>2, <1>5, OpFields DEF NewOp
    <3>3. NewOp(a, p)
      BY OpFields DEF NewOp
    <3> HIDE DEF o, p
    <3> QED BY <1>3, <3>1, <3>2, <3>3
  <2> QED BY <2>1, <2>2
<1> QED BY <1>2, <1>3, <1>4, <1>5

DidFacts(a) ==
    /\ Moved(a) /\ UNCHANGED row
    /\ Added(a)
    /\ WorldFrame(a) \/ DidEnter(a)
    /\ Leaves(a)
    /\ Claims(a)' \subseteq Claims(a)
    /\ nextGuid' >= nextGuid
    /\ \A g \in Guids : Grown(g, a)
    /\ raced' = raced \/ \E g \in Guids : DidDrop(a, g)

(* Every step of an account has these facts, whichever handler it is.      *)
LEMMA DidHasFacts ==
    ASSUME Base, Queued', TypeOK', NEW a \in Accounts, Did(a)
    PROVE  DidFacts(a)
<1>0. TypeOK /\ Queued /\ Paired /\ nextGuid \in Nat
  BY DEF Base, TypeOK
<1>n. /\ \A s \in Sessions : s # None
      /\ None # Waiting
      /\ ~Ready(None) /\ ~Ready(Waiting)
  BY NullFacts DEF Ready
<1>w. /\ UNCHANGED charQ => Added(a)
      /\ \A D, o : Grows(charQ, charQ', D, o) /\ NewOp(a, o) => Added(a)
      /\ \A D, o, p : Grows2(charQ, charQ', D, o, p) /\ NewOp(a, o) /\ NewOp(a, p) => Added(a)
      /\ \A D : LogsOut(a, D) /\ sess[a] # None => Added(a)
  BY <1>0, AddedWays
<1>v. UNCHANGED version => \A g \in Guids : Grown(g, a)
  BY DEF Grown
<1>m. UNCHANGED nextGuid => nextGuid' >= nextGuid
  BY <1>0
<1>1. ASSUME UNCHANGED sess
      PROVE  Moved(a) /\ WorldFrame(a) /\ Leaves(a) /\ Claims(a)' \subseteq Claims(a)
  <2>1. Moved(a)
    BY <1>0, <1>1, StaysPut
  <2> QED BY <2>1, <1>1 DEF WorldFrame, Leaves, Claims
<1>2. ASSUME sess'[a] = NewSession
      PROVE  WorldFrame(a) /\ Claims(a)' \subseteq Claims(a)
  BY <1>2, <1>n, NewSessionFacts DEF WorldFrame, Claims
<1>3. ASSUME sess'[a] = None
      PROVE  WorldFrame(a) /\ Claims(a)' \subseteq Claims(a)
  BY <1>3 DEF WorldFrame, Claims
<1>4. ASSUME sess[a] # None, sess'[a] # None, SameWorld(a)
      PROVE  /\ WorldFrame(a) /\ Leaves(a)
             /\ \/ SameList(a)
                \/ sess'[a].legit = sess[a].legit /\ sess'[a].enum = Waiting
                \/ /\ sess'[a].enum = None /\ Ready(sess[a].enum)
                   /\ sess'[a].legit \in {sess[a].legit, sess[a].enum}
                => Claims(a)' \subseteq Claims(a)
  BY <1>4, <1>n DEF WorldFrame, Leaves, Claims, SameWorld, SameList
<1>5. CASE DidConnect(a)
  BY <1>5, <1>w, <1>v, <1>m, <1>1 DEF DidConnect, DidFacts, Stored, Traced
<1>6. CASE DidKeep(a)
  BY <1>6, <1>w, <1>v, <1>m, <1>1 DEF DidKeep, DidFacts, Stored, Traced
<1>7. CASE DidAdd(a)
  <2>1. Leaves(a)
    BY <1>7 DEF DidAdd, Leaves
  <2> QED BY <1>7, <2>1, <1>w, <1>v, <1>m, <1>2 DEF DidAdd, DidFacts, Stored, Traced
<1>8. CASE DidReplace(a) \/ DidRemove(a)
  <2>1. /\ DidDelete(a) /\ Moved(a) /\ sess'[a] \in {NewSession, None}
    BY <1>8 DEF DidReplace, DidRemove
  <2>2. LogsOut(a, Futures(a)) /\ sess[a] # None /\ UNCHANGED <<row, version, nextGuid, raced>>
    BY <2>1 DEF DidDelete, Stored, Traced
  <2>3. Leaves(a)
    BY <2>2 DEF Leaves
  <2> QED BY <2>1, <2>2, <2>3, <1>w, <1>v, <1>m, <1>2, <1>3 DEF DidFacts
<1>9. CASE DidDisconnect(a)
  BY <1>9, <1>n, <1>w, <1>v, <1>m, <1>4 DEF DidDisconnect, DidFacts, Stored, Traced
<1>10. CASE DidLogout(a)
  <2>1. /\ Moved(a) /\ sess[a] # None /\ sess'[a] # None /\ SameList(a) /\ LogsOut(a, {})
        /\ sess'[a].player = None
        /\ sess'[a].holder = sess[a].holder /\ sess'[a].login = sess[a].login
        /\ UNCHANGED <<row, version, nextGuid, raced>>
    BY <1>10, <1>n DEF DidLogout, Stored, Traced
  <2>2. WorldFrame(a) /\ Leaves(a)
    BY <2>1 DEF WorldFrame, Leaves
  <2>3. Claims(a)' \subseteq Claims(a)
    BY <2>1 DEF Claims, SameList
  <2> QED BY <2>1, <2>2, <2>3, <1>w, <1>v, <1>m DEF DidFacts
<1>11. CASE DidPlay(a)
  <2>1. \A g \in Guids : Grown(g, a)
    BY <1>0, <1>11 DEF DidPlay, Grown, TypeOK
  <2> QED BY <1>11, <2>1, <1>w, <1>m, <1>1 DEF DidPlay, DidFacts, Stored, Traced
<1>12. CASE DidSave(a)
  <2> DEFINE o == Op("save", a, sess[a].player, version[sess[a].player], Nobody)
  <2>1. Grows(charQ, charQ', {}, o) /\ UNCHANGED <<sess, row, version, nextGuid, raced>>
    BY <1>12 DEF DidSave, Stored, Traced
  <2>2. NewOp(a, o)
    BY <1>12, OpFields DEF NewOp, DidSave
  <2> HIDE DEF o
  <2> QED BY <2>1, <2>2, <1>w, <1>v, <1>m, <1>1 DEF DidFacts
<1>13. CASE DidAskEnum(a)
  <2> DEFINE o == Op("enum", a, None, None, <<a, "enum">>)
  <2>1. /\ Grows(charQ, charQ', {<<a, "enum">>}, o) /\ UNCHANGED <<row, version, nextGuid, raced>>
        /\ Moved(a) /\ sess[a] # None /\ sess'[a] # None /\ SameWorld(a)
        /\ sess'[a].legit = sess[a].legit /\ sess'[a].enum = Waiting
    BY <1>13, <1>n DEF DidAskEnum, Stored, Traced
  <2>2. NewOp(a, o)
    BY OpFields DEF NewOp
  <2> HIDE DEF o
  <2> QED BY <2>1, <2>2, <1>w, <1>v, <1>m, <1>4 DEF DidFacts
<1>14. CASE DidList(a)
  BY <1>14, <1>n, <1>w, <1>v, <1>m, <1>4 DEF DidList, DidFacts, Stored, Traced
<1>15. ASSUME NEW n \in Names, DidAskName(a, n) PROVE DidFacts(a)
  <2> DEFINE o == Op("name", a, None, n, <<a, "create">>)
  <2>1. /\ Grows(charQ, charQ', {<<a, "create">>}, o) /\ UNCHANGED <<row, version, nextGuid, raced>>
        /\ Moved(a) /\ sess[a] # None /\ sess'[a] # None /\ SameWorld(a) /\ SameList(a)
    BY <1>15, <1>n DEF DidAskName, Stored
  <2>2. NewOp(a, o)
    BY <1>15, OpFields DEF NewOp
  <2> HIDE DEF o
  <2> QED BY <2>1, <2>2, <1>w, <1>v, <1>m, <1>4 DEF DidFacts
<1>16. ASSUME DidReset(a)
       PROVE  /\ Moved(a) /\ UNCHANGED <<row, version, raced>> /\ WorldFrame(a) /\ Leaves(a)
              /\ Claims(a)' \subseteq Claims(a)
  BY <1>16, <1>n, <1>4 DEF DidReset, Stored, Traced
<1>17. CASE DidRefuse(a)
  <2>1. nextGuid' >= nextGuid
    BY <1>0, <1>17 DEF DidRefuse
  <2> QED BY <1>17, <1>16, <2>1, <1>w, <1>v DEF DidRefuse, DidFacts
<1>18. ASSUME NEW c \in Nat, DidCreate(a, c) PROVE DidFacts(a)
  <2> DEFINE o == Op("insert", a, nextGuid, sess[a].info, Nobody)
  <2>1. Grows(charQ, charQ', {}, o) /\ nextGuid' >= nextGuid /\ DidReset(a)
    BY <1>0, <1>18 DEF DidCreate
  <2>2. NewOp(a, o)
    BY <1>18, OpFields DEF NewOp
  <2> HIDE DEF o
  <2> QED BY <2>1, <2>2, <1>16, <1>w, <1>v DEF DidFacts
<1>19. ASSUME NEW i, NEW c, DidStage(a, i, c)
       PROVE  /\ Moved(a) /\ UNCHANGED <<row, version, raced, nextGuid>> /\ WorldFrame(a) /\ Leaves(a)
              /\ Claims(a)' \subseteq Claims(a)
  BY <1>19, <1>n, <1>4 DEF DidStage, Stored, Traced
<1>20. CASE DidAskSum(a)
  <2>1. DidStage(a, 1, 0) /\ UNCHANGED charQ
    BY <1>20 DEF DidAskSum
  <2> QED BY <2>1, <1>19, <1>w, <1>v, <1>m DEF DidFacts
<1>21. CASE DidAskCount(a)
  <2> DEFINE o == Op("count", a, None, None, <<a, "create">>)
  <2>1. DidStage(a, 2, 0) /\ Grows(charQ, charQ', {<<a, "create">>}, o)
    BY <1>21 DEF DidAskCount
  <2>2. NewOp(a, o)
    BY <1>21, OpFields DEF NewOp
  <2> HIDE DEF o
  <2> QED BY <2>1, <2>2, <1>19, <1>w, <1>v, <1>m DEF DidFacts
<1>22. ASSUME NEW c \in Nat, DidAskInfo(a, c) PROVE DidFacts(a)
  <2> DEFINE o == Op("info", a, None, None, <<a, "create">>)
  <2>1. DidStage(a, 3, c) /\ Grows(charQ, charQ', {<<a, "create">>}, o)
    BY <1>22 DEF DidAskInfo
  <2>2. NewOp(a, o)
    BY <1>22, OpFields DEF NewOp
  <2> HIDE DEF o
  <2> QED BY <2>1, <2>2, <1>19, <1>w, <1>v, <1>m DEF DidFacts
<1>23. ASSUME NEW g \in Guids, DidDrop(a, g) PROVE DidFacts(a)
  <2> DEFINE o == Op("delete", a, g, None, Nobody)
             p == Op("total", a, None, None, Nobody)
  <2>1. Grows2(charQ, charQ', {}, o, p) /\ UNCHANGED <<sess, row, version, nextGuid>>
    BY <1>23 DEF DidDrop, Stored
  <2>2. NewOp(a, o)
    BY <1>23, OpFields DEF NewOp
  <2>3. NewOp(a, p)
    BY OpFields DEF NewOp
  <2> HIDE DEF o, p
  <2> QED BY <2>1, <2>2, <2>3, <1>23, <1>w, <1>v, <1>m, <1>1 DEF DidFacts
<1>24. ASSUME NEW g \in Guids, DidLoad(a, g) PROVE DidFacts(a)
  <2> DEFINE o == Op("load", a, g, None, <<a, "login">>)
  <2>1. /\ Grows(charQ, charQ', {<<a, "login">>}, o) /\ UNCHANGED <<row, version, nextGuid, raced>>
        /\ Moved(a) /\ sess[a] # None /\ sess'[a] # None /\ SameList(a)
        /\ sess'[a].player = sess[a].player /\ sess'[a].holder = g /\ sess'[a].login = Waiting
        /\ g \in sess[a].legit
    BY <1>24, <1>n DEF DidLoad, Stored, Traced
  <2>2. NewOp(a, o)
    BY <1>24, OpFields DEF NewOp
  <2>3. WorldFrame(a) /\ Leaves(a)
    BY <2>1, <1>n DEF WorldFrame, Leaves
  <2>4. Claims(a)' \subseteq Claims(a)
    BY <2>1 DEF Claims, SameList
  <2> HIDE DEF o
  <2> QED BY <2>1, <2>2, <2>3, <2>4, <1>w, <1>v, <1>m DEF DidFacts
<1>25. CASE DidKick(a)
  <2>1. /\ Moved(a) /\ sess[a] # None /\ sess'[a] # None /\ SameList(a)
        /\ sess'[a].player = sess[a].player /\ sess'[a].holder = sess[a].holder
        /\ sess'[a].login = sess[a].login
        /\ UNCHANGED <<charQ, row, version, nextGuid, raced>>
    BY <1>25, <1>n DEF DidKick, Stored, Traced
  <2>2. WorldFrame(a) /\ Leaves(a)
    BY <2>1 DEF WorldFrame, Leaves
  <2>3. Claims(a)' \subseteq Claims(a)
    BY <2>1 DEF Claims, SameList
  <2> QED BY <2>1, <2>2, <2>3, <1>w, <1>v, <1>m DEF DidFacts
<1>26. ASSUME DidAnswer(a)
       PROVE  /\ Moved(a) /\ sess[a] # None /\ sess'[a] # None /\ SameList(a)
              /\ sess'[a].holder = None /\ sess'[a].login = None /\ sess[a].player = None
              /\ UNCHANGED <<row, nextGuid, raced>>
  <2>1. sess[a] # None /\ Ready(sess[a].login)
    BY <1>26 DEF DidAnswer
  <2>2. sess[a].player = None
    BY <1>0, <1>n, <2>1 DEF Paired
  <2> QED BY <2>2, <1>26, <1>n DEF DidAnswer, Stored, Traced
<1>27. CASE DidEnter(a)
  <2> DEFINE o == Op("online", a, sess[a].holder, None, Nobody)
  <2>1. /\ Grows(charQ, charQ', {}, o) /\ sess'[a].player = sess[a].holder
        /\ sess[a].holder \in Guids /\ DidAnswer(a)
    BY <1>27 DEF DidEnter
  <2>2. NewOp(a, o)
    BY OpFields DEF NewOp
  <2>3. Leaves(a)
    BY <2>1, <1>26 DEF Leaves
  <2>4. Claims(a)' \subseteq Claims(a)
    BY <2>1, <1>26 DEF Claims, SameList
  <2>5. \A g \in Guids : Grown(g, a)
    BY <1>0, <1>27 DEF DidEnter, Grown, TypeOK
  <2> HIDE DEF o
  <2> QED BY <2>1, <2>2, <2>3, <2>4, <2>5, <1>26, <1>27, <1>w, <1>m DEF DidFacts
<1>28. CASE DidFail(a)
  <2>1. sess'[a].player = sess[a].player /\ DidAnswer(a) /\ UNCHANGED <<version, charQ>>
    BY <1>28 DEF DidFail
  <2>2. WorldFrame(a) /\ Leaves(a)
    BY <2>1, <1>26, <1>n DEF WorldFrame, Leaves
  <2>3. Claims(a)' \subseteq Claims(a)
    BY <2>1, <1>26 DEF Claims, SameList
  <2> QED BY <2>1, <2>2, <2>3, <1>26, <1>w, <1>v, <1>m DEF DidFacts
<1> QED BY <1>5, <1>6, <1>7, <1>8, <1>9, <1>10, <1>11, <1>12, <1>13, <1>14, <1>15, <1>17,
           <1>18, <1>20, <1>21, <1>22, <1>23, <1>24, <1>25, <1>27, <1>28 DEF Did

-----------------------------------------------------------------------------
(* account.online                                                          *)

IsMark(i, a) == loginQ[i].op = "online" /\ loginQ[i].a = a

LastFacts ==
    \A a \in Accounts :
        /\ (\A i \in DOMAIN loginQ : ~IsMark(i, a)) => LastOnline(a) = online[a]
        /\ \A k \in DOMAIN loginQ : IsMark(k, a) /\ (\A i \in DOMAIN loginQ : i > k => ~IsMark(i, a))
              => LastOnline(a) = loginQ[k].n
        /\ \/ \A i \in DOMAIN loginQ : ~IsMark(i, a)
           \/ \E k \in DOMAIN loginQ : IsMark(k, a) /\ \A i \in DOMAIN loginQ : i > k => ~IsMark(i, a)

(* LastOnline is the value of the last mark that is queued, or of the      *)
(* table.                                                                  *)
LEMMA LastOnlineFacts == Queued => LastFacts
<1> SUFFICES ASSUME Queued, NEW a \in Accounts
    PROVE  /\ (\A i \in DOMAIN loginQ : ~IsMark(i, a)) => LastOnline(a) = online[a]
           /\ \A k \in DOMAIN loginQ :
                 IsMark(k, a) /\ (\A i \in DOMAIN loginQ : i > k => ~IsMark(i, a))
                 => LastOnline(a) = loginQ[k].n
           /\ \/ \A i \in DOMAIN loginQ : ~IsMark(i, a)
              \/ \E k \in DOMAIN loginQ :
                    IsMark(k, a) /\ \A i \in DOMAIN loginQ : i > k => ~IsMark(i, a)
  BY DEF LastFacts
<1> DEFINE W == {i \in DOMAIN loginQ : loginQ[i].op = "online" /\ loginQ[i].a = a}
<1>0. Len(loginQ) \in Nat /\ DOMAIN loginQ = 1..Len(loginQ)
  BY DEF Queued
<1>1. W \subseteq 0..Len(loginQ)
  BY <1>0
<1>2. \A i : i \in W <=> i \in DOMAIN loginQ /\ IsMark(i, a)
  BY DEF IsMark
<1>3. LastOnline(a) = IF W = {} THEN online[a] ELSE loginQ[Max(W)].n
  BY Zenon DEF LastOnline
<1> HIDE DEF W
<1>4. W # {} => Max(W) \in W /\ \A x \in W : x <= Max(W)
  BY <1>0, <1>1, MaxFacts
<1>5. ASSUME NEW k \in DOMAIN loginQ, IsMark(k, a), \A i \in DOMAIN loginQ : i > k => ~IsMark(i, a)
      PROVE  LastOnline(a) = loginQ[k].n
  <2>1. k \in W
    BY <1>2, <1>5
  <2>2. Max(W) \in W /\ k <= Max(W)
    BY <1>4, <2>1
  <2>3. Max(W) \in DOMAIN loginQ /\ IsMark(Max(W), a)
    BY <1>2, <2>2
  <2>4. ~(Max(W) > k)
    BY <1>5, <2>3
  <2>5. Max(W) = k
    BY <1>0, <2>2, <2>3, <2>4
  <2> QED BY <1>3, <2>1, <2>5
<1>6. ASSUME \A i \in DOMAIN loginQ : ~IsMark(i, a) PROVE LastOnline(a) = online[a]
  <2>1. W = {}
    BY <1>2, <1>6
  <2> QED BY <1>3, <2>1
<1>7. CASE W = {}
  BY <1>2, <1>5, <1>6, <1>7
<1>8. CASE W # {}
  <2>1. Max(W) \in DOMAIN loginQ /\ IsMark(Max(W), a)
    BY <1>2, <1>4, <1>8
  <2>2. \A i \in DOMAIN loginQ : i > Max(W) => ~IsMark(i, a)
    <3> TAKE i \in DOMAIN loginQ
    <3>1. i \in W => i <= Max(W)
      BY <1>4, <1>8
    <3> QED BY <1>0, <1>2, <2>1, <3>1
  <2> QED BY <1>5, <1>6, <2>1, <2>2
<1> QED BY <1>7, <1>8

(* The same in the next state.                                             *)
LEMMA LastOnlineAfter ==
    Queued' => \A a \in Accounts :
        /\ (\A i \in DOMAIN loginQ' : ~IsMark(i, a)') => LastOnline(a)' = online'[a]
        /\ \A k \in DOMAIN loginQ' : IsMark(k, a)' /\ (\A i \in DOMAIN loginQ' : i > k => ~IsMark(i, a)')
              => LastOnline(a)' = loginQ'[k].n
<1>1. Queued' => LastFacts'
  BY LastOnlineFacts, PTL
<1> QED BY <1>1 DEF LastFacts

(* Writes of other accounts, and none at all.                              *)
LEMMA MarksKept ==
    ASSUME Queued, Queued', NEW a \in Accounts, NEW E, Keeps(loginQ, loginQ', E), online' = online,
           \A i \in DOMAIN loginQ' : i > Len(loginQ) => ~(loginQ'[i].op = "online" /\ loginQ'[i].a = a)
    PROVE  LastOnline(a)' = LastOnline(a)
<1>0. /\ Len(loginQ) \in Nat /\ DOMAIN loginQ = 1..Len(loginQ) /\ Len(loginQ') \in Nat
      /\ DOMAIN loginQ' = 1..Len(loginQ')
  BY DEF Queued
<1>1. \A i \in DOMAIN loginQ :
         i \in DOMAIN loginQ' /\ (IsMark(i, a)' <=> IsMark(i, a)) /\ loginQ'[i].n = loginQ[i].n
  BY <1>0 DEF Keeps, IsMark
<1>2. \A i \in DOMAIN loginQ' : IsMark(i, a)' => i \in DOMAIN loginQ
  BY <1>0 DEF IsMark
<1>3. CASE \A i \in DOMAIN loginQ : ~IsMark(i, a)
  <2>1. LastOnline(a) = online[a]
    BY <1>3, LastOnlineFacts DEF LastFacts
  <2>2. LastOnline(a)' = online'[a]
    BY <1>1, <1>2, <1>3, LastOnlineAfter
  <2> QED BY <2>1, <2>2
<1>4. ASSUME NEW k \in DOMAIN loginQ, IsMark(k, a), \A i \in DOMAIN loginQ : i > k => ~IsMark(i, a)
      PROVE  LastOnline(a)' = LastOnline(a)
  <2>1. LastOnline(a) = loginQ[k].n
    BY <1>4, LastOnlineFacts DEF LastFacts
  <2>2. k \in DOMAIN loginQ' /\ IsMark(k, a)' /\ loginQ'[k].n = loginQ[k].n
    BY <1>1, <1>4
  <2>3. \A i \in DOMAIN loginQ' : i > k => ~IsMark(i, a)'
    BY <1>1, <1>2, <1>4
  <2>4. LastOnline(a)' = loginQ'[k].n
    BY <2>2, <2>3, LastOnlineAfter
  <2> QED BY <2>1, <2>2, <2>4
<1> QED BY <1>3, <1>4, LastOnlineFacts DEF LastFacts

(* A write at the end of the queue is the last one.                        *)
LEMMA MarkAdded ==
    ASSUME Queued, Queued', NEW a \in Accounts, NEW D, NEW v,
           Grows(loginQ, loginQ', D, Op("online", a, None, v, Nobody))
    PROVE  LastOnline(a)' = v
<1>1. /\ Len(loginQ) \in Nat /\ Len(loginQ') = Len(loginQ) + 1 /\ DOMAIN loginQ' = 1..Len(loginQ')
      /\ loginQ'[Len(loginQ) + 1] = Op("online", a, None, v, Nobody)
  BY DEF Queued, Grows
<1>p. PICK k : k = Len(loginQ) + 1
  OBVIOUS
<1>2. k \in DOMAIN loginQ' /\ \A i \in DOMAIN loginQ' : ~(i > k)
  BY <1>1, <1>p
<1>3. IsMark(k, a)'
  BY <1>1, <1>p, OpFields DEF IsMark
<1>4. loginQ'[k].n = v
  BY <1>1, <1>p DEF Op
<1>5. LastOnline(a)' = loginQ'[k].n
  BY <1>2, <1>3, LastOnlineAfter
<1> QED BY <1>4, <1>5

(* Serving the queue writes what LastOnline already counted.               *)
LEMMA MarkServed ==
    ASSUME Queued, Queued', Wired, TypeOK, NEW o \in LoginOps, PopsLogin(o), NEW a \in Accounts
    PROVE  LastOnline(a)' = LastOnline(a)
<1>0. /\ 1 \in DOMAIN loginQ /\ o = loginQ[1] /\ o.a \in Accounts
      /\ \A i \in DOMAIN loginQ' : i \in Nat /\ i + 1 \in DOMAIN loginQ /\ loginQ'[i] = loginQ[i + 1]
      /\ \A i \in DOMAIN loginQ : i = 1 \/ (i - 1 \in DOMAIN loginQ' /\ loginQ'[i - 1] = loginQ[i])
  BY PopLoginFacts
<1>1. DOMAIN loginQ \subseteq Nat
  BY DEF Queued
<1>2. \A i \in DOMAIN loginQ' : IsMark(i, a)' <=> IsMark(i + 1, a)
  BY <1>0 DEF IsMark
<1>3. online' = IF o.op = "online" THEN [online EXCEPT ![o.a] = o.n] ELSE online
  BY DEF PopsLogin
<1>4. online \in [Accounts -> BOOLEAN]
  BY DEF TypeOK
<1>5. CASE \A i \in DOMAIN loginQ : ~IsMark(i, a)
  <2>1. LastOnline(a) = online[a]
    BY <1>5, LastOnlineFacts DEF LastFacts
  <2>2. \A i \in DOMAIN loginQ' : ~IsMark(i, a)'
    BY <1>0, <1>2, <1>5
  <2>3. LastOnline(a)' = online'[a]
    BY <2>2, LastOnlineAfter
  <2>4. ~IsMark(1, a)
    BY <1>0, <1>5
  <2>5. online'[a] = online[a]
    BY <1>0, <1>3, <1>4, <2>4 DEF IsMark
  <2> QED BY <2>1, <2>3, <2>5
<1>6. ASSUME NEW k \in DOMAIN loginQ, IsMark(k, a), \A i \in DOMAIN loginQ : i > k => ~IsMark(i, a)
      PROVE  LastOnline(a)' = LastOnline(a)
  <2>1. LastOnline(a) = loginQ[k].n
    BY <1>6, LastOnlineFacts DEF LastFacts
  <2>2. CASE k = 1
    <3>1. \A i \in DOMAIN loginQ' : ~IsMark(i, a)'
      <4> TAKE i \in DOMAIN loginQ'
      <4>1. i + 1 \in DOMAIN loginQ /\ (i + 1 > 1 \/ i = 0)
        BY <1>0
      <4>2. i # 0
        BY DEF Queued
      <4> QED BY <4>1, <4>2, <1>2, <1>6, <2>2
    <3>2. LastOnline(a)' = online'[a]
      BY <3>1, LastOnlineAfter
    <3>3. o.op = "online" /\ o.a = a
      BY <1>0, <1>6, <2>2 DEF IsMark
    <3>4. online'[a] = o.n
      BY <1>3, <1>4, <3>3
    <3> QED BY <1>0, <2>1, <2>2, <3>2, <3>4
  <2>3. CASE k # 1
    <3>1. k - 1 \in DOMAIN loginQ' /\ loginQ'[k - 1] = loginQ[k]
      BY <1>0, <2>3
    <3>2. IsMark(k - 1, a)'
      BY <1>6, <3>1 DEF IsMark
    <3>3. \A i \in DOMAIN loginQ' : i > k - 1 => ~IsMark(i, a)'
      <4> TAKE i \in DOMAIN loginQ'
      <4>1. i \in Nat /\ k \in Nat /\ i + 1 \in DOMAIN loginQ
        BY <1>0, <1>1
      <4>2. i > k - 1 => i + 1 > k
        BY <4>1
      <4> QED BY <4>1, <4>2, <1>2, <1>6
    <3>4. LastOnline(a)' = loginQ'[k - 1].n
      BY <3>1, <3>2, <3>3, LastOnlineAfter
    <3> QED BY <2>1, <3>1, <3>4
  <2> QED BY <2>2, <2>3
<1> QED BY <1>5, <1>6, LastOnlineFacts DEF LastFacts

(* The agreement of one account.                                           *)
Agrees(a) ==
    /\ sess[a] # None /\ sess[a].player # None => LastOnline(a)
    /\ sess[a] = None /\ a \notin joining \cup stuck => ~LastOnline(a)

(* An account that may be online without a session.                        *)
Due(a) == a \in joining \cup stuck

(* The ways an account goes on agreeing with its mark.                     *)
LEMMA AgreesWays ==
    ASSUME NEW a \in Accounts, Agrees(a)
    PROVE  /\ LastOnline(a)' = TRUE /\ (sess'[a] # None \/ Due(a)') => Agrees(a)'
           /\ sess'[a] # None /\ sess'[a].player = None => Agrees(a)'
           /\ LastOnline(a)' = FALSE /\ sess'[a] = None => Agrees(a)'
           /\ /\ LastOnline(a)' = LastOnline(a) /\ sess'[a] # None /\ sess[a] # None
              /\ sess'[a].player = sess[a].player
              => Agrees(a)'
           /\ LastOnline(a)' = LastOnline(a) /\ sess'[a] = sess[a] /\ (Due(a)' <=> Due(a))
              => Agrees(a)'
BY DEF Agrees, Due

(* What a step of a adds to the queue of the accounts is about a.          *)
Marks(a) ==
    /\ online' = online
    /\ \E E : Keeps(loginQ, loginQ', E)
    /\ \A i \in DOMAIN loginQ' : i > Len(loginQ) => loginQ'[i].a = a
NoMarks(a) ==
    Marks(a) /\ \A i \in DOMAIN loginQ' : i > Len(loginQ) => loginQ'[i].op # "online"

(* A step of a queues marks of a only, or none.                            *)
LEMMA MarksWays ==
    ASSUME Queued, Queued', NEW a, online' = online
    PROVE  /\ UNCHANGED loginQ => NoMarks(a)
           /\ \A E : Still(loginQ, loginQ', E) => NoMarks(a)
           /\ \A E, k, g, n, to : Grows(loginQ, loginQ', E, Op(k, a, g, n, to)) => Marks(a)
           /\ \A E, k, g, n, to : k # "online" /\ Grows(loginQ, loginQ', E, Op(k, a, g, n, to)) => NoMarks(a)
<1>0. loginQ \in Seq(LoginOps) /\ loginQ' \in Seq(LoginOps)
  BY DEF Queued
<1>1. ASSUME NEW E, Still(loginQ, loginQ', E) PROVE NoMarks(a)
  <2>1. \A i \in DOMAIN loginQ' : ~(i > Len(loginQ))
    BY <1>0, <1>1, AddedOps
  <2>2. Keeps(loginQ, loginQ', E)
    BY <1>1 DEF Still
  <2> QED BY <2>1, <2>2 DEF NoMarks, Marks
<1>2. UNCHANGED loginQ => NoMarks(a)
  <2>1. UNCHANGED loginQ => Still(loginQ, loginQ', {})
    BY <1>0, SameFacts DEF Still
  <2> QED BY <1>1, <2>1
<1>3. ASSUME NEW E, NEW o, Grows(loginQ, loginQ', E, o), o.a = a
      PROVE  Marks(a) /\ (o.op # "online" => NoMarks(a))
  <2>1. \A i \in DOMAIN loginQ' : i > Len(loginQ) => loginQ'[i] = o
    BY <1>0, <1>3, AddedOps
  <2>2. Keeps(loginQ, loginQ', E)
    BY <1>3 DEF Grows
  <2> QED BY <2>1, <2>2, <1>3 DEF NoMarks, Marks
<1>4. ASSUME NEW E, NEW k, NEW g, NEW n, NEW to, Grows(loginQ, loginQ', E, Op(k, a, g, n, to))
      PROVE  Marks(a) /\ (k # "online" => NoMarks(a))
  <2>1. PICK o : o = Op(k, a, g, n, to)
    OBVIOUS
  <2>2. o.a = a /\ o.op = k
    BY <2>1, OpFields
  <2> QED BY <1>3, <1>4, <2>1, <2>2
<1> QED BY <1>1, <1>2, <1>4

(* What such a step does to LastOnline.                                    *)
LEMMA MarksFacts ==
    ASSUME Queued, Queued', NEW a \in Accounts
    PROVE  /\ Marks(a) => \A b \in Accounts : b # a => LastOnline(b)' = LastOnline(b)
           /\ NoMarks(a) => LastOnline(a)' = LastOnline(a)
<1>1. ASSUME Marks(a), NEW b \in Accounts, b # a PROVE LastOnline(b)' = LastOnline(b)
  <2>1. PICK E : Keeps(loginQ, loginQ', E)
    BY <1>1 DEF Marks
  <2>2. \A i \in DOMAIN loginQ' : i > Len(loginQ) => ~(loginQ'[i].op = "online" /\ loginQ'[i].a = b)
    BY <1>1 DEF Marks
  <2>3. online' = online
    BY <1>1 DEF Marks
  <2> QED BY <2>1, <2>2, <2>3, MarksKept
<1>2. ASSUME NoMarks(a) PROVE LastOnline(a)' = LastOnline(a)
  <2>1. PICK E : Keeps(loginQ, loginQ', E)
    BY <1>2 DEF NoMarks, Marks
  <2>2. \A i \in DOMAIN loginQ' : i > Len(loginQ) => ~(loginQ'[i].op = "online" /\ loginQ'[i].a = a)
    BY <1>2 DEF NoMarks
  <2>3. online' = online
    BY <1>2 DEF NoMarks, Marks
  <2> QED BY <2>1, <2>2, <2>3, MarksKept
<1> QED BY <1>1, <1>2

(* Every step of an account keeps its agreement and marks no other         *)
(* account.                                                                *)
LEMMA DidAgrees ==
    ASSUME Base, Queued', TypeOK', NEW a \in Accounts, Did(a), Agrees(a)
    PROVE  /\ Marks(a) /\ Agrees(a)' /\ Moved(a)
           /\ \A b \in Accounts : b # a => (Due(b)' <=> Due(b))
<1>0. TypeOK /\ Queued /\ Paired
  BY DEF Base
<1>n. \A s \in Sessions : s # None
  BY NullFacts
<1>o. NewSession.player = None /\ NewSession # None
  BY NewSessionFacts, NullFacts
<1>m. online' = online =>
         /\ UNCHANGED loginQ => NoMarks(a)
         /\ \A E : Still(loginQ, loginQ', E) => NoMarks(a)
         /\ \A E, k, g, n, to : Grows(loginQ, loginQ', E, Op(k, a, g, n, to)) => Marks(a)
         /\ \A E, k, g, n, to : k # "online" /\ Grows(loginQ, loginQ', E, Op(k, a, g, n, to)) => NoMarks(a)
  BY <1>0, MarksWays
<1>k. NoMarks(a) => LastOnline(a)' = LastOnline(a) /\ Marks(a)
  BY <1>0, MarksFacts DEF NoMarks
<1>w. /\ LastOnline(a)' = TRUE /\ (sess'[a] # None \/ Due(a)') => Agrees(a)'
      /\ sess'[a] # None /\ sess'[a].player = None => Agrees(a)'
      /\ LastOnline(a)' = FALSE /\ sess'[a] = None => Agrees(a)'
      /\ /\ LastOnline(a)' = LastOnline(a) /\ sess'[a] # None /\ sess[a] # None
         /\ sess'[a].player = sess[a].player
         => Agrees(a)'
      /\ LastOnline(a)' = LastOnline(a) /\ sess'[a] = sess[a] /\ (Due(a)' <=> Due(a))
         => Agrees(a)'
  BY AgreesWays
<1>1. UNCHANGED sess => Moved(a)
  BY <1>0, StaysPut
<1>d. UNCHANGED <<joining, stuck>> => \A b \in Accounts : Due(b)' <=> Due(b)
  BY DEF Due
<1>2. CASE DidConnect(a)
  <2>1. /\ UNCHANGED <<sess, online>>
        /\ Grows(loginQ, loginQ', {}, Op("online", a, None, TRUE, Nobody))
    BY <1>2 DEF DidConnect, Stored
  <2>2. LastOnline(a)' = TRUE
    BY <1>0, <2>1, MarkAdded
  <2>3. Due(a)' /\ \A b \in Accounts : b # a => (Due(b)' <=> Due(b))
    BY <1>2 DEF DidConnect, Due
  <2> QED BY <1>1, <1>m, <1>w, <2>1, <2>2, <2>3
<1>3. CASE DidKeep(a)
  <2>1. /\ UNCHANGED <<sess, online>>
        /\ Grows(loginQ, loginQ', {}, Op("online", a, None, FALSE, Nobody))
        /\ sess[a] # None /\ sess[a].loading
    BY <1>3 DEF DidKeep, Stored
  <2>2. sess[a].player = None
    BY <1>0, <2>1 DEF Paired
  <2>3. \A b \in Accounts : b # a => (Due(b)' <=> Due(b))
    BY <1>3 DEF DidKeep, Due
  <2> QED BY <1>1, <1>m, <1>w, <2>1, <2>2, <2>3
<1>4. CASE DidAdd(a)
  <2>1. UNCHANGED <<loginQ, online>> /\ Moved(a) /\ sess'[a] = NewSession
    BY <1>4 DEF DidAdd, Stored
  <2>2. \A b \in Accounts : b # a => (Due(b)' <=> Due(b))
    BY <1>4 DEF DidAdd, Due
  <2> QED BY <1>m, <1>k, <1>w, <1>o, <2>1, <2>2
<1>5. CASE DidReplace(a)
  <2>1. DidDelete(a) /\ Moved(a) /\ sess'[a] = NewSession
    BY <1>5 DEF DidReplace
  <2>2. /\ UNCHANGED online
        /\ Grows(loginQ, loginQ', Futures(a), Op("online", a, None, FALSE, Nobody))
    BY <2>1 DEF DidDelete, Stored
  <2>3. \A b \in Accounts : b # a => (Due(b)' <=> Due(b))
    BY <1>5 DEF DidReplace, Due
  <2> QED BY <1>m, <1>w, <1>o, <2>1, <2>2, <2>3
<1>6. CASE DidRemove(a)
  <2>1. DidDelete(a) /\ Moved(a) /\ sess'[a] = None
    BY <1>6 DEF DidRemove
  <2>2. /\ UNCHANGED online
        /\ Grows(loginQ, loginQ', Futures(a), Op("online", a, None, FALSE, Nobody))
    BY <2>1 DEF DidDelete, Stored
  <2>3. LastOnline(a)' = FALSE
    BY <1>0, <2>2, MarkAdded
  <2>4. \A b \in Accounts : b # a => (Due(b)' <=> Due(b))
    BY <1>6 DEF DidRemove, Due
  <2> QED BY <1>m, <1>w, <2>1, <2>2, <2>3, <2>4
<1>7. CASE DidDisconnect(a)
  <2>1. /\ UNCHANGED <<loginQ, online, joining, stuck>> /\ Moved(a) /\ sess[a] # None /\ sess'[a] # None
        /\ sess'[a].player = sess[a].player
    BY <1>7, <1>n DEF DidDisconnect, Stored, SameWorld
  <2> QED BY <1>d, <1>m, <1>k, <1>w, <2>1
<1>8. CASE DidLogout(a)
  <2>1. /\ UNCHANGED <<loginQ, online, joining, stuck>> /\ Moved(a) /\ sess'[a] # None
        /\ sess'[a].player = None
    BY <1>8, <1>n DEF DidLogout, Stored
  <2> QED BY <1>d, <1>m, <1>k, <1>w, <2>1
<1>9. CASE DidPlay(a) \/ DidSave(a) \/ \E g \in Guids : DidDrop(a, g)
  <2>1. UNCHANGED <<loginQ, online, joining, stuck, sess>>
    BY <1>9 DEF DidPlay, DidSave, DidDrop, Stored
  <2> QED BY <1>d, <1>1, <1>m, <1>k, <1>w, <2>1
<1>10. CASE DidAskEnum(a) \/ DidList(a)
  <2>1. /\ UNCHANGED <<loginQ, online, joining, stuck>> /\ Moved(a) /\ sess[a] # None /\ sess'[a] # None
        /\ sess'[a].player = sess[a].player
    BY <1>10, <1>n DEF DidAskEnum, DidList, Stored, SameWorld
  <2> QED BY <1>d, <1>m, <1>k, <1>w, <2>1
<1>11. ASSUME NEW n \in Names, DidAskName(a, n)
       PROVE  Marks(a) /\ Agrees(a)' /\ Moved(a) /\ UNCHANGED <<joining, stuck>>
  <2>1. /\ UNCHANGED <<online, joining, stuck>> /\ Moved(a) /\ sess[a] # None /\ sess'[a] # None
        /\ sess'[a].player = sess[a].player /\ Still(loginQ, loginQ', {<<a, "create">>})
    BY <1>11, <1>n DEF DidAskName, Stored, SameWorld
  <2> QED BY <1>d, <1>m, <1>k, <1>w, <2>1
<1>12. ASSUME DidReset(a)
       PROVE  /\ UNCHANGED <<online, joining, stuck>> /\ Moved(a) /\ sess[a] # None /\ sess'[a] # None
              /\ sess'[a].player = sess[a].player
  BY <1>12, <1>n DEF DidReset, Stored, SameWorld
<1>13. CASE DidRefuse(a)
  <2>1. DidReset(a) /\ UNCHANGED loginQ
    BY <1>13 DEF DidRefuse
  <2> QED BY <1>d, <1>m, <1>k, <1>w, <1>12, <2>1
<1>14. ASSUME NEW c \in Nat, DidCreate(a, c)
       PROVE  Marks(a) /\ Agrees(a)' /\ Moved(a) /\ UNCHANGED <<joining, stuck>>
  <2>1. DidReset(a) /\ Grows(loginQ, loginQ', {}, Op("numchars", a, None, c + 1, Nobody))
    BY <1>14 DEF DidCreate
  <2>2. NoMarks(a)
    BY <1>m, <1>12, <2>1
  <2> QED BY <1>d, <1>k, <1>w, <1>12, <2>1, <2>2
<1>15. ASSUME NEW i, NEW c, DidStage(a, i, c)
       PROVE  /\ UNCHANGED <<online, joining, stuck>> /\ Moved(a) /\ sess[a] # None /\ sess'[a] # None
              /\ sess'[a].player = sess[a].player
  BY <1>15, <1>n DEF DidStage, Stored, SameWorld
<1>16. CASE DidAskSum(a)
  <2>1. /\ DidStage(a, 1, 0)
        /\ Grows(loginQ, loginQ', {<<a, "create">>}, Op("sum", a, None, None, <<a, "create">>))
    BY <1>16 DEF DidAskSum
  <2>2. NoMarks(a)
    BY <1>m, <1>15, <2>1
  <2> QED BY <1>d, <1>k, <1>w, <1>15, <2>1, <2>2
<1>17. CASE DidAskCount(a) \/ \E c \in Nat : DidAskInfo(a, c)
  <2>1. UNCHANGED loginQ /\ \E i, c : DidStage(a, i, c)
    BY <1>17 DEF DidAskCount, DidAskInfo
  <2> QED BY <1>d, <1>m, <1>k, <1>w, <1>15, <2>1
<1>18. CASE DidKick(a) \/ \E g \in Guids : DidLoad(a, g)
  <2>1. /\ UNCHANGED <<loginQ, online, joining, stuck>> /\ Moved(a) /\ sess[a] # None /\ sess'[a] # None
        /\ sess'[a].player = sess[a].player
    BY <1>18, <1>n DEF DidKick, DidLoad, Stored
  <2> QED BY <1>d, <1>m, <1>k, <1>w, <2>1
<1>19. ASSUME DidAnswer(a)
       PROVE  UNCHANGED <<online, joining, stuck>> /\ Moved(a) /\ sess[a] # None /\ sess'[a] # None
  BY <1>19, <1>n DEF DidAnswer, Stored
<1>20. CASE DidEnter(a)
  <2>1. DidAnswer(a) /\ Grows(loginQ, loginQ', {}, Op("online", a, None, TRUE, Nobody))
    BY <1>20 DEF DidEnter
  <2>2. LastOnline(a)' = TRUE
    BY <1>0, <2>1, MarkAdded
  <2> QED BY <1>d, <1>m, <1>w, <1>19, <2>1, <2>2
<1>21. CASE DidFail(a)
  <2>1. DidAnswer(a) /\ UNCHANGED loginQ /\ sess'[a].player = sess[a].player
    BY <1>21 DEF DidFail
  <2> QED BY <1>d, <1>m, <1>k, <1>w, <1>19, <2>1
<1> QED BY <1>d, <1>2, <1>3, <1>4, <1>5, <1>6, <1>7, <1>8, <1>9, <1>10, <1>11, <1>13, <1>14, <1>16,
           <1>17, <1>18, <1>20, <1>21 DEF Did

(* account.online ends up as the account is: true with a character in the  *)
(* world, false without a session, for any number of accounts that         *)
(* connect, reconnect, are kicked and go (WorldSession.cpp 114 and 151).   *)
(* Two cases are excepted, and stuck records them: a session that was      *)
(* built and not handed over (WorldSocket.cpp 850), and an account that    *)
(* ClearOnlineAccounts misses when the process starts (Master.cpp 485).    *)
THEOREM OnlineIsRight == Spec => []OnlineAgrees
<1>1. Init => OnlineAgrees
  <2> SUFFICES ASSUME Init, NEW a \in Accounts PROVE Agrees(a)
    BY DEF OnlineAgrees, Agrees
  <2>1. sess[a] = [NewSession EXCEPT !.legit = {g \in Guids : Owner[g] = a}]
    BY DEF Init
  <2>2. ASSUME NEW s \in Sessions, NEW L \in SUBSET Guids
        PROVE  [s EXCEPT !.legit = L] \in Sessions /\ [s EXCEPT !.legit = L].player = s.player
    BY DEF Sessions
  <2>3. sess[a] \in Sessions /\ sess[a].player = None
    BY <2>1, <2>2, NewSessionFacts
  <2> QED BY <2>3, NullFacts DEF Agrees
<1>2. Base /\ OnlineAgrees /\ [Next]_vars => OnlineAgrees'
  <2> SUFFICES ASSUME Base, OnlineAgrees, [Next]_vars PROVE OnlineAgrees'
    OBVIOUS
  <2>0. TypeOK /\ Queued /\ Wired
    BY DEF Base
  <2>a. \A b \in Accounts : Agrees(b)
    BY DEF OnlineAgrees, Agrees
  <2>b. (\A b \in Accounts : Agrees(b)') => OnlineAgrees'
    BY DEF OnlineAgrees, Agrees
  <2>1. CASE UNCHANGED vars
    BY <2>1 DEF vars, OnlineAgrees, LastOnline
  <2>2. CASE Next
    <3>1. /\ Queued' /\ TypeOK'
          /\ \/ \E a \in Accounts : Did(a)
             \/ \E o \in CharOps : DidCharWork(o)
             \/ \E o \in LoginOps : DidLoginWork(o)
             \/ DidUpdateCount \/ DidRestart
      BY <2>2, NextDid
    <3>2. ASSUME NEW a \in Accounts, Did(a) PROVE OnlineAgrees'
      <4>1. /\ Marks(a) /\ Agrees(a)' /\ Moved(a)
            /\ \A b \in Accounts : b # a => (Due(b)' <=> Due(b))
        BY <3>1, <3>2, <2>a, DidAgrees
      <4>2. ASSUME NEW b \in Accounts PROVE Agrees(b)'
        <5>1. CASE b = a
          BY <4>1, <5>1
        <5>2. CASE b # a
          <6>1. LastOnline(b)' = LastOnline(b)
            BY <2>0, <3>1, <4>1, <5>2, MarksFacts
          <6>2. sess'[b] = sess[b] /\ (Due(b)' <=> Due(b))
            BY <4>1, <5>2 DEF Moved
          <6> QED BY <6>1, <6>2, <2>a, AgreesWays
        <5> QED BY <5>1, <5>2
      <4> QED BY <4>2, <2>b
    <3>d. UNCHANGED <<joining, stuck>> => \A b \in Accounts : Due(b)' <=> Due(b)
      BY DEF Due
    <3>3. ASSUME UNCHANGED <<joining, stuck>>, \A b \in Accounts : LastOnline(b)' = LastOnline(b),
                 NEW a \in Accounts, Moved(a), sess[a] # None, sess'[a] # None,
                 sess'[a].player = sess[a].player
          PROVE  OnlineAgrees'
      <4>1. ASSUME NEW b \in Accounts PROVE Agrees(b)'
        <5>1. CASE b = a
          BY <2>a, <3>3, <5>1, AgreesWays
        <5>2. CASE b # a
          BY <2>a, <3>3, <3>d, <5>2, AgreesWays DEF Moved
        <5> QED BY <5>1, <5>2
      <4> QED BY <4>1, <2>b
    <3>4. ASSUME UNCHANGED <<joining, stuck>>, \A b \in Accounts : LastOnline(b)' = LastOnline(b), UNCHANGED sess
          PROVE  OnlineAgrees'
      BY <3>4, <3>d, <2>a, <2>b, AgreesWays
    <3>n. \A s \in Sessions : s # None
      BY NullFacts
    <3>5. ASSUME NEW o \in CharOps, DidCharWork(o) PROVE OnlineAgrees'
      <4>1. Pops(o)
        BY <3>5 DEF DidCharWork, DidInsert, DidWrite, DidErase, DidMark, DidTellEnum, DidTellCreate, DidTellLoad
      <4>2. UNCHANGED <<joining, stuck, loginQ, online>>
        BY <4>1 DEF Pops
      <4>3. \A b \in Accounts : LastOnline(b)' = LastOnline(b)
        BY <4>2 DEF LastOnline
      <4>4. o.a \in Accounts
        BY DEF CharOps, OpSet
      <4>5. CASE UNCHANGED sess
        BY <3>4, <4>2, <4>3, <4>5
      <4>6. CASE DidTellEnum(o) \/ DidTellCreate(o) \/ DidTellLoad(o)
        <5>1. Moved(o.a) /\ sess[o.a] # None /\ sess'[o.a] # None /\ sess'[o.a].player = sess[o.a].player
          BY <3>n, <4>6 DEF DidTellEnum, DidTellCreate, DidTellLoad, TellsCreate, Tells, SameWorld
        <5> QED BY <3>3, <4>2, <4>3, <4>4, <5>1
      <4> QED BY <3>5, <4>5, <4>6 DEF DidCharWork, DidInsert, DidWrite, DidErase, DidMark
    <3>6. ASSUME NEW o \in LoginOps, DidLoginWork(o) PROVE OnlineAgrees'
      <4>1. PopsLogin(o)
        BY <3>6 DEF DidLoginWork, DidRecord, DidTellSum
      <4>2. \A b \in Accounts : LastOnline(b)' = LastOnline(b)
        BY <2>0, <3>1, <4>1, MarkServed
      <4>3. o.a \in Accounts /\ UNCHANGED <<joining, stuck>>
        BY <4>1 DEF LoginOps, OpSet, PopsLogin
      <4>4. CASE DidRecord(o)
        BY <3>4, <4>2, <4>3, <4>4 DEF DidRecord
      <4>5. CASE DidTellSum(o)
        <5>1. Moved(o.a) /\ sess[o.a] # None /\ sess'[o.a] # None /\ sess'[o.a].player = sess[o.a].player
          BY <3>n, <4>5 DEF DidTellSum, TellsCreate, Tells, SameWorld
        <5> QED BY <3>3, <4>2, <4>3, <5>1
      <4> QED BY <3>6, <4>4, <4>5 DEF DidLoginWork
    <3>7. CASE DidUpdateCount
      <4>1. UNCHANGED <<sess, joining, stuck, online>> /\ Keeps(loginQ, loginQ', {})
        BY <3>7 DEF DidUpdateCount, OnlyWrites, Stored
      <4>2. \A i \in DOMAIN loginQ' : i > Len(loginQ) => loginQ'[i].op # "online"
        BY <3>7 DEF DidUpdateCount, OnlyWrites
      <4>3. \A b \in Accounts : LastOnline(b)' = LastOnline(b)
        BY <2>0, <3>1, <4>1, <4>2, MarksKept
      <4> QED BY <3>4, <4>1, <4>3
    <3>8. CASE DidRestart
      <4>1. \A b \in Accounts : (LastOnline(b)' = FALSE \/ Due(b)') /\ sess'[b] = None
        <5>1. DOMAIN loginQ' = {}
          BY <3>8 DEF DidRestart
        <5>2. \A b \in Accounts : (online'[b] = FALSE \/ Due(b)') /\ sess'[b] = None
          BY <3>8 DEF DidRestart, Due
        <5>3. \A b \in Accounts : LastOnline(b)' = online'[b]
          BY <3>1, <5>1, LastOnlineAfter
        <5> QED BY <5>2, <5>3
      <4>2. \A b \in Accounts : sess'[b] = None /\ Due(b)' => Agrees(b)'
        BY DEF Agrees, Due
      <4> QED BY <4>1, <4>2, <2>a, <2>b, AgreesWays
    <3> QED BY <3>1, <3>2, <3>5, <3>6, <3>7, <3>8
  <2> QED BY <2>1, <2>2
<1> QED BY <1>1, <1>2, CharactersBase, PTL DEF Spec

-----------------------------------------------------------------------------
(* Who is in the world and who is found, from one state to the next        *)

SameOp(k, i) ==
    /\ charQ'[k].op = charQ[i].op /\ charQ'[k].a = charQ[i].a
    /\ charQ'[k].g = charQ[i].g /\ charQ'[k].n = charQ[i].n
    /\ charQ'[k].to = charQ[i].to \/ charQ'[k].to = Nobody

(* The operations after a step of a: those that were queued, and new ones  *)
(* at the end.                                                             *)
LEMMA AddedFacts ==
    ASSUME Queued, Queued', NEW a, Added(a)
    PROVE  /\ Len(charQ) \in Nat
           /\ \A i \in DOMAIN charQ : i \in DOMAIN charQ' /\ i \in Nat /\ i <= Len(charQ) /\ SameOp(i, i)
           /\ \A i \in DOMAIN charQ' :
                 /\ i \in Nat
                 /\ \/ i \in DOMAIN charQ /\ SameOp(i, i)
                    \/ i > Len(charQ) /\ i \notin DOMAIN charQ /\ NewOp(a, charQ'[i])
<1>0. /\ Len(charQ) \in Nat /\ DOMAIN charQ = 1..Len(charQ) /\ Len(charQ') \in Nat
      /\ DOMAIN charQ' = 1..Len(charQ')
  BY DEF Queued
<1>1. PICK D : Keeps(charQ, charQ', D)
  BY DEF Added
<1>2. \A i \in DOMAIN charQ : i \in DOMAIN charQ' /\ SameOp(i, i)
  BY <1>0, <1>1 DEF Keeps, SameOp
<1>3. \A i \in DOMAIN charQ' : i > Len(charQ) => NewOp(a, charQ'[i])
  BY DEF Added
<1> QED BY <1>0, <1>2, <1>3

(* A load that is awaited is the one its session holds on to, and nobody   *)
(* is in the world for that session.                                       *)
LEMMA LiveFacts ==
    ASSUME Base, NEW i \in DOMAIN charQ, NEW a \in Accounts, Live(i, a)
    PROVE  /\ sess[a] # None /\ sess[a].login = Waiting /\ sess[a].holder = charQ[i].g
           /\ sess[a].loading /\ sess[a].player = None /\ charQ[i].g \in Guids
<1>1. Serves(charQ[i], a, sess[a]) /\ Paired /\ Queued
  BY DEF Base, Wired
<1>2. sess[a] # None /\ sess[a].login = Waiting /\ sess[a].holder = charQ[i].g
  BY <1>1 DEF Serves, Live
<1>3. charQ[i].op = "load"
  <2>1. charQ[i] \in CharOps
    BY <1>1 DEF Queued
  <2>2. charQ[i].a \in Accounts /\ CharOp(charQ[i])
    BY <2>1 DEF CharOps, OpSet
  <2> QED BY <2>2, FutureFacts DEF CharOp, Live
<1>4. charQ[i].g \in Guids
  <2>1. charQ[i] \in CharOps
    BY <1>1 DEF Queued
  <2> QED BY <1>3, <2>1 DEF CharOps, CharOp
<1>5. sess[a].loading /\ sess[a].player = None
  BY <1>1, <1>2, NullFacts DEF Paired
<1> QED BY <1>2, <1>4, <1>5

(* A session with a load that found its character still waits to come in.  *)
LEMMA FoundFacts ==
    ASSUME Base, NEW a \in Accounts, Found(a)
    PROVE  /\ sess[a] # None /\ sess[a].loading /\ sess[a].player = None
           /\ sess[a].holder \in Guids /\ sess[a].login # None
<1>1. sess[a] # None /\ Ready(sess[a].login) /\ sess[a].login # None
  BY DEF Found, Ready
<1>2. sess[a].holder \in Guids
  BY <1>1, BaseFacts
<1>3. sess[a].loading /\ sess[a].player = None
  BY <1>1 DEF Base, Paired
<1> QED BY <1>1, <1>2, <1>3

(* The steps of an account.                                                *)
LEMMA DidWorld ==
    ASSUME Base, Queued', TypeOK', NEW a \in Accounts, DidFacts(a)
    PROVE  /\ \A b \in Accounts : Found(b)' =>
                 /\ Found(b) /\ sess'[b].holder = sess[b].holder /\ sess'[b].login = sess[b].login
                 /\ ~(DidEnter(a) /\ b = a)
           /\ \A g \in Guids : InWorld(g)' => InWorld(g) \/ (DidEnter(a) /\ g = sess[a].holder)
           /\ \A b \in Accounts : Claims(b)' \subseteq Claims(b)
<1>0. Moved(a) /\ (WorldFrame(a) \/ DidEnter(a)) /\ Claims(a)' \subseteq Claims(a)
  BY DEF DidFacts
<1>1. \A b \in Accounts : b # a => sess'[b] = sess[b]
  BY <1>0 DEF Moved
<1>n. /\ ~Ready(None) /\ \A s \in Sessions : s # None
  BY NullFacts DEF Ready
<1>2. DidEnter(a) => /\ sess'[a] # None /\ sess'[a].login = None /\ sess'[a].player = sess[a].holder
  BY <1>n DEF DidEnter, DidAnswer
<1>3. ASSUME NEW b \in Accounts, Found(b)'
      PROVE  /\ Found(b) /\ sess'[b].holder = sess[b].holder /\ sess'[b].login = sess[b].login
             /\ ~(DidEnter(a) /\ b = a)
  <2>1. sess'[b] # None /\ Ready(sess'[b].login) /\ sess'[b].login[1] # None
    BY <1>3 DEF Found
  <2>2. CASE b # a
    BY <1>1, <2>1, <2>2 DEF Found
  <2>3. CASE b = a
    <3>1. ~DidEnter(a)
      BY <1>2, <1>n, <2>1, <2>3
    <3> QED BY <1>0, <2>1, <2>3, <3>1 DEF WorldFrame, Found
  <2> QED BY <2>2, <2>3
<1>4. ASSUME NEW g \in Guids, InWorld(g)' PROVE InWorld(g) \/ (DidEnter(a) /\ g = sess[a].holder)
  <2>1. PICK b \in Accounts : sess'[b] # None /\ sess'[b].player = g
    BY <1>4 DEF InWorld
  <2>2. CASE b # a
    BY <1>1, <2>1, <2>2 DEF InWorld
  <2>3. CASE b = a /\ DidEnter(a)
    BY <1>2, <2>1, <2>3
  <2>4. CASE b = a /\ WorldFrame(a)
    <3>1. g # None
      BY NullFacts
    <3> QED BY <2>1, <2>4, <3>1 DEF WorldFrame, InWorld
  <2> QED BY <1>0, <2>2, <2>3, <2>4
<1>5. ASSUME NEW b \in Accounts PROVE Claims(b)' \subseteq Claims(b)
  <2>1. CASE b = a
    BY <1>0, <2>1
  <2>2. CASE b # a
    BY <1>1, <2>2 DEF Claims
  <2> QED BY <2>1, <2>2
<1> QED BY <1>3, <1>4, <1>5

(* The worker of the database of the characters.                           *)
WorkFacts(o) ==
    /\ Pops(o)
    /\ \A b \in Accounts : Found(b)' =>
          \/ Found(b) /\ sess'[b].holder = sess[b].holder /\ sess'[b].login = sess[b].login
          \/ /\ DidTellLoad(o) /\ b = o.a /\ sess'[b].holder = o.g /\ sess'[b].login = <<row[o.g]>>
             /\ row[o.g] # None
    /\ \A g : InWorld(g)' <=> InWorld(g)
    /\ \A b \in Accounts : sess'[b] # None => sess[b] # None /\ sess'[b].player = sess[b].player
    /\ \A b \in Accounts :
          \/ Claims(b)' \subseteq Claims(b)
          \/ b = o.a /\ Claims(b)' \subseteq Claims(b) \cup OfAccount(b) /\ UNCHANGED row

(* What serving an operation does to the worlds of the accounts and to the *)
(* queue.                                                                  *)
LEMMA WorkHasFacts ==
    ASSUME Base, Queued', TypeOK', NEW o \in CharOps, DidCharWork(o)
    PROVE  WorkFacts(o)
<1>0. TypeOK /\ Queued /\ Wired
  BY DEF Base
<1>n. /\ ~Ready(None) /\ ~Ready(Waiting) /\ \A s \in Sessions : s # None
  BY NullFacts DEF Ready
<1>1. Pops(o)
  BY DEF DidCharWork, DidInsert, DidWrite, DidErase, DidMark, DidTellEnum, DidTellCreate, DidTellLoad
<1>2. 1 \in DOMAIN charQ /\ o = charQ[1] /\ o.a \in Accounts
  BY <1>0, <1>1, PopFacts
<1>3. ASSUME UNCHANGED sess PROVE WorkFacts(o)
  BY <1>1, <1>3 DEF WorkFacts, Found, InWorld, Claims
<1>4. ASSUME Moved(o.a), sess[o.a] # None, sess'[o.a] # None, SameWorld(o.a),
             \/ SameList(o.a)
             \/ /\ sess'[o.a].legit = sess[o.a].legit /\ sess'[o.a].enum = OfAccount(o.a)
                /\ UNCHANGED row
      PROVE  WorkFacts(o)
  <2>1. \A b \in Accounts : b # o.a => sess'[b] = sess[b]
    BY <1>4 DEF Moved
  <2>2. \A b \in Accounts : Found(b)' =>
           Found(b) /\ sess'[b].holder = sess[b].holder /\ sess'[b].login = sess[b].login
    BY <1>4, <2>1 DEF Found, SameWorld
  <2>3. \A g : InWorld(g)' <=> InWorld(g)
    BY <1>2, <1>4, <2>1 DEF InWorld, SameWorld
  <2>4. \A b \in Accounts : b # o.a => Claims(b)' \subseteq Claims(b)
    BY <2>1 DEF Claims
  <2>5. \/ Claims(o.a)' \subseteq Claims(o.a)
        \/ Claims(o.a)' \subseteq Claims(o.a) \cup OfAccount(o.a) /\ UNCHANGED row
    <3>1. CASE SameList(o.a)
      BY <1>4, <3>1 DEF Claims, SameWorld, SameList
    <3>2. CASE /\ sess'[o.a].legit = sess[o.a].legit /\ sess'[o.a].enum = OfAccount(o.a)
               /\ UNCHANGED row
      BY <1>4, <3>2 DEF Claims, SameWorld
    <3> QED BY <1>4, <3>1, <3>2
  <2>6. \A b \in Accounts : sess'[b] # None => sess[b] # None /\ sess'[b].player = sess[b].player
    BY <1>4, <2>1 DEF SameWorld
  <2> QED BY <1>1, <2>2, <2>3, <2>4, <2>5, <2>6 DEF WorkFacts
<1>5. CASE DidTellEnum(o)
  BY <1>4, <1>5, <1>n DEF DidTellEnum, Tells
<1>6. CASE DidTellCreate(o)
  BY <1>4, <1>6, <1>n DEF DidTellCreate, TellsCreate, Tells
<1>7. CASE DidTellLoad(o)
  <2>1. /\ o.to = <<o.a, "login">> /\ Moved(o.a) /\ sess[o.a] # None /\ sess'[o.a] # None
        /\ SameList(o.a) /\ sess'[o.a].player = sess[o.a].player
        /\ sess'[o.a].holder = sess[o.a].holder /\ sess'[o.a].login = <<row[o.g]>>
    BY <1>7, <1>n DEF DidTellLoad, Tells
  <2>2. sess[o.a].holder = o.g
    <3>1. Live(1, o.a)
      BY <1>2, <2>1 DEF Live
    <3> QED BY <1>2, <3>1, LiveFacts
  <2>3. \A b \in Accounts : b # o.a => sess'[b] = sess[b]
    BY <2>1 DEF Moved
  <2>4. \A b \in Accounts : b # o.a /\ Found(b)' =>
           Found(b) /\ sess'[b].holder = sess[b].holder /\ sess'[b].login = sess[b].login
    BY <2>3 DEF Found
  <2>5. Found(o.a)' => row[o.g] # None
    BY <2>1 DEF Found
  <2>6. \A g : InWorld(g)' <=> InWorld(g)
    BY <1>2, <2>1, <2>3 DEF InWorld
  <2>7. \A b \in Accounts : Claims(b)' \subseteq Claims(b)
    <3> TAKE b \in Accounts
    <3>1. CASE b # o.a
      BY <2>3, <3>1 DEF Claims
    <3>2. CASE b = o.a
      BY <2>1, <3>2 DEF Claims, SameList
    <3> QED BY <3>1, <3>2
  <2>8. \A b \in Accounts : sess'[b] # None => sess[b] # None /\ sess'[b].player = sess[b].player
    BY <2>1, <2>3
  <2> QED BY <1>1, <1>7, <2>1, <2>2, <2>4, <2>5, <2>6, <2>7, <2>8 DEF WorkFacts
<1> QED BY <1>3, <1>5, <1>6, <1>7 DEF DidCharWork, DidInsert, DidWrite, DidErase, DidMark

(* The other steps leave the characters, their queue and the world alone.  *)
Elsewhere ==
    /\ UNCHANGED <<charQ, row, version, nextGuid, raced>>
    /\ \A b \in Accounts : Found(b)' =>
          Found(b) /\ sess'[b].holder = sess[b].holder /\ sess'[b].login = sess[b].login
    /\ \A g : InWorld(g)' <=> InWorld(g)
    /\ \A b \in Accounts : sess'[b] # None => sess[b] # None /\ sess'[b].player = sess[b].player
    /\ \A b \in Accounts : Claims(b)' = Claims(b)

(* LoginDatabase's worker and the count of a realm leave the characters    *)
(* alone.                                                                  *)
LEMMA OthersElsewhere ==
    ASSUME Base, (\E o \in LoginOps : DidLoginWork(o)) \/ DidUpdateCount
    PROVE  Elsewhere
<1>n. \A s \in Sessions : s # None
  BY NullFacts
<1>1. ASSUME UNCHANGED <<charQ, row, version, nextGuid, raced, sess>> PROVE Elsewhere
  BY <1>1 DEF Elsewhere, Found, InWorld, Claims
<1>2. CASE DidUpdateCount
  BY <1>1, <1>2 DEF DidUpdateCount, Stored, Traced
<1>3. ASSUME NEW o \in LoginOps, DidLoginWork(o) PROVE Elsewhere
  <2>1. CASE DidRecord(o)
    BY <1>1, <2>1 DEF DidRecord, PopsLogin, Traced
  <2>2. CASE DidTellSum(o)
    <3>1. /\ UNCHANGED <<charQ, row, version, nextGuid, raced>>
          /\ Moved(o.a) /\ sess[o.a] # None /\ sess'[o.a] # None /\ SameWorld(o.a) /\ SameList(o.a)
      BY <2>2, <1>n DEF DidTellSum, PopsLogin, TellsCreate, Tells, Traced
    <3>2. o.a \in Accounts
      BY DEF LoginOps, OpSet
    <3>3. \A b \in Accounts : b # o.a => sess'[b] = sess[b]
      BY <3>1 DEF Moved
    <3>4. \A b \in Accounts : Found(b)' =>
             Found(b) /\ sess'[b].holder = sess[b].holder /\ sess'[b].login = sess[b].login
      BY <3>1, <3>3 DEF Found, SameWorld
    <3>5. \A g : InWorld(g)' <=> InWorld(g)
      BY <3>1, <3>2, <3>3 DEF InWorld, SameWorld
    <3>6. \A b \in Accounts : Claims(b)' = Claims(b)
      <4> TAKE b \in Accounts
      <4>1. CASE b # o.a
        BY <3>3, <4>1 DEF Claims
      <4>2. CASE b = o.a
        BY <3>1, <4>2 DEF Claims, SameWorld, SameList
      <4> QED BY <4>1, <4>2
    <3>7. \A b \in Accounts : sess'[b] # None => sess[b] # None /\ sess'[b].player = sess[b].player
      BY <3>1, <3>3 DEF SameWorld
    <3> QED BY <3>1, <3>4, <3>5, <3>6, <3>7 DEF Elsewhere
  <2> QED BY <1>3, <2>1, <2>2 DEF DidLoginWork
<1> QED BY <1>2, <1>3

(* A restart leaves nobody.                                                *)
LEMMA RestartWorld ==
    ASSUME DidRestart
    PROVE  /\ DOMAIN charQ' = {}
           /\ \A b \in Accounts : ~Found(b)' /\ Claims(b)' = {}
           /\ \A g : ~InWorld(g)'
<1>1. charQ' = <<>> /\ \A b \in Accounts : sess'[b] = None
  BY DEF DidRestart
<1> QED BY <1>1 DEF Found, Claims, InWorld

-----------------------------------------------------------------------------
(* A character in the world is stored                                      *)

(* A step of an account keeps the stored characters stored.                *)
LEMMA StoredDid ==
    ASSUME Base, Queued', TypeOK', StoredInv, NEW a \in Accounts, DidFacts(a)
    PROVE  StoredInv'
<1>0. Queued /\ Added(a) /\ UNCHANGED row /\ (raced' = raced \/ \E g \in Guids : DidDrop(a, g))
  BY DEF Base, DidFacts
<1>1. /\ Len(charQ) \in Nat
      /\ \A i \in DOMAIN charQ : i \in DOMAIN charQ' /\ i \in Nat /\ i <= Len(charQ) /\ SameOp(i, i)
      /\ \A i \in DOMAIN charQ' :
            /\ i \in Nat
            /\ \/ i \in DOMAIN charQ /\ SameOp(i, i)
               \/ i > Len(charQ) /\ i \notin DOMAIN charQ /\ NewOp(a, charQ'[i])
  BY <1>0, AddedFacts
<1>2. /\ \A b \in Accounts : Found(b)' =>
            /\ Found(b) /\ sess'[b].holder = sess[b].holder /\ sess'[b].login = sess[b].login
            /\ ~(DidEnter(a) /\ b = a)
      /\ \A g \in Guids : InWorld(g)' => InWorld(g) \/ (DidEnter(a) /\ g = sess[a].holder)
  BY DidWorld
<1>3. \A g : DidDrop(a, g) =>
         raced \subseteq raced' /\ (InWorld(g) \/ BeingLoaded(g) => g \in raced') /\ UNCHANGED sess
  BY DEF DidDrop
<1>4. raced \subseteq raced'
  BY <1>0, <1>3
<1>5. ASSUME NEW j \in DOMAIN charQ', NEW g, IsDelete(j, g)'
      PROVE  (j \in DOMAIN charQ /\ IsDelete(j, g)) \/ (j > Len(charQ) /\ DidDrop(a, g))
  BY <1>1, <1>5 DEF IsDelete, SameOp, NewOp
<1>6. LoadThenDelete'
  <2> SUFFICES ASSUME NEW i \in DOMAIN charQ', NEW j \in DOMAIN charQ', NEW b \in Accounts,
                      i < j, charQ'[i].to = <<b, "login">>,
                      charQ'[j].op = "delete", charQ'[j].g = charQ'[i].g
               PROVE  charQ'[i].g \in raced'
    BY DEF LoadThenDelete, IsDelete, Live
  <2>p. PICK g : g = charQ'[i].g
    OBVIOUS
  <2>1. (j \in DOMAIN charQ /\ IsDelete(j, g)) \/ (j > Len(charQ) /\ DidDrop(a, g))
    BY <1>1, <2>p DEF IsDelete, SameOp, NewOp
  <2>2. CASE i \in DOMAIN charQ
    <3>1. SameOp(i, i)
      BY <1>1, <2>2
    <3>2. Live(i, b) /\ charQ[i].g = g
      BY <2>p, <3>1, FutureFacts DEF SameOp, Live
    <3>3. CASE j \in DOMAIN charQ /\ IsDelete(j, g)
      <4>1. charQ[i].g \in raced
        BY <2>2, <3>2, <3>3 DEF StoredInv, LoadThenDelete
      <4> QED BY <2>p, <3>2, <4>1, <1>4
    <3>4. CASE DidDrop(a, g)
      <4>1. sess[b] # None /\ sess[b].loading /\ sess[b].holder = charQ[i].g
        BY <2>2, <3>2, LiveFacts
      <4>2. BeingLoaded(g)
        BY <3>2, <4>1 DEF BeingLoaded
      <4> QED BY <2>p, <1>3, <3>4, <4>2
    <3> QED BY <2>1, <3>3, <3>4
  <2>3. CASE i \notin DOMAIN charQ
    <3>1. i > Len(charQ) /\ NewOp(a, charQ'[i])
      BY <1>1, <2>3
    <3>2. j \notin DOMAIN charQ
      BY <1>1, <3>1
    <3>3. DidDrop(a, g)
      BY <2>1, <3>2
    <3>4. DidLoad(a, g)
      BY <2>p, <3>1, FutureFacts DEF NewOp
    <3>5. FALSE
      BY <3>3, <3>4, <1>3 DEF DidLoad
    <3> QED BY <3>5
  <2> QED BY <2>2, <2>3
<1>7. ASSUME NEW g \in Guids, StoredAndKept(g), \A h : DidDrop(a, h) => h # g
      PROVE  row'[g] # None /\ \A j \in DOMAIN charQ' : ~(charQ'[j].op = "delete" /\ charQ'[j].g = g)
  BY <1>0, <1>5, <1>7 DEF StoredAndKept, IsDelete
<1>8. FoundIsKept'
  <2> SUFFICES ASSUME NEW b \in Accounts, Found(b)', sess'[b].holder \notin raced'
               PROVE  /\ row'[sess'[b].holder] # None
                      /\ \A j \in DOMAIN charQ' :
                            ~(charQ'[j].op = "delete" /\ charQ'[j].g = sess'[b].holder)
    BY DEF FoundIsKept, StoredAndKept, IsDelete
  <2>1. Found(b) /\ sess'[b].holder = sess[b].holder
    BY <1>2
  <2>2. sess[b] # None /\ sess[b].loading /\ sess[b].holder \in Guids
    BY <2>1, FoundFacts
  <2>3. StoredAndKept(sess[b].holder)
    BY <1>4, <2>1 DEF StoredInv, FoundIsKept
  <2>4. BeingLoaded(sess[b].holder)
    BY <2>2 DEF BeingLoaded
  <2>5. \A h : DidDrop(a, h) => h # sess[b].holder
    BY <1>3, <2>1, <2>4
  <2> QED BY <1>7, <2>1, <2>2, <2>3, <2>5
<1>9. InWorldIsStored'
  <2> SUFFICES ASSUME NEW g \in Guids, g \notin raced', InWorld(g)'
               PROVE  /\ row'[g] # None
                      /\ \A j \in DOMAIN charQ' : ~(charQ'[j].op = "delete" /\ charQ'[j].g = g)
    BY DEF InWorldIsStored
  <2>1. CASE InWorld(g)
    <3>1. StoredAndKept(g)
      BY <1>4, <2>1 DEF StoredInv, InWorldIsStored, StoredAndKept, IsDelete
    <3>2. \A h : DidDrop(a, h) => h # g
      BY <1>3, <2>1
    <3> QED BY <1>7, <3>1, <3>2
  <2>2. CASE DidEnter(a) /\ g = sess[a].holder
    <3>1. Found(a)
      BY <2>2 DEF DidEnter, DidAnswer, Found
    <3>2. StoredAndKept(g)
      BY <1>4, <2>2, <3>1 DEF StoredInv, FoundIsKept
    <3>3. BeingLoaded(g)
      BY <2>2, <3>1, FoundFacts DEF BeingLoaded
    <3>4. \A h : DidDrop(a, h) => h # g
      BY <1>3, <3>3
    <3> QED BY <1>7, <3>2, <3>4
  <2> QED BY <1>2, <2>1, <2>2
<1> QED BY <1>6, <1>8, <1>9 DEF StoredInv

(* Only a deletion removes a row.                                          *)
LEMMA WorkKeepsRows ==
    ASSUME Base, NEW o \in CharOps, DidCharWork(o)
    PROVE  \A g \in Guids : row[g] # None /\ ~(o.op = "delete" /\ o.g = g) => row'[g] # None
<1> SUFFICES ASSUME NEW g \in Guids, row[g] # None, ~(o.op = "delete" /\ o.g = g)
             PROVE  row'[g] # None
  OBVIOUS
<1>1. SameRow(g) => row'[g] # None
  BY DEF SameRow
<1>2. RowsBut(o.g) /\ g # o.g => row'[g] # None
  BY <1>1 DEF RowsBut
<1>3. CASE DidInsert(o)
  <2>1. o.op = "insert" /\ row'[o.g] = Row(o.a, o.n) /\ RowsBut(o.g)
    BY <1>3 DEF DidInsert
  <2>2. o.n \in Names /\ o.a \in Accounts
    BY <2>1 DEF CharOps, OpSet, CharOp
  <2>3. Row(o.a, o.n) \in Rows
    BY <2>2 DEF Row, Rows
  <2> QED BY <1>2, <2>1, <2>3, NullFacts
<1>4. CASE DidWrite(o)
  BY <1>2, <1>4 DEF DidWrite
<1>5. CASE DidErase(o)
  BY <1>2, <1>5 DEF DidErase
<1>6. CASE DidMark(o)
  BY <1>1, <1>6 DEF DidMark
<1>7. CASE UNCHANGED row
  BY <1>7
<1> QED BY <1>3, <1>4, <1>5, <1>6, <1>7 DEF DidCharWork, DidTellEnum, DidTellCreate, DidTellLoad

(* CharacterDatabase's worker: a deletion is behind every load that is     *)
(* awaited, so what a load found is still there.                           *)
LEMMA StoredWork ==
    ASSUME Base, Queued', TypeOK', StoredInv, NEW o \in CharOps, DidCharWork(o)
    PROVE  StoredInv'
<1>0. Queued /\ Wired
  BY DEF Base
<1>f. WorkFacts(o)
  BY WorkHasFacts
<1>1. /\ 1 \in DOMAIN charQ /\ o = charQ[1] /\ o.a \in Accounts
      /\ \A i \in DOMAIN charQ' : i \in Nat /\ i + 1 \in DOMAIN charQ /\ charQ'[i] = charQ[i + 1]
  BY <1>0, <1>f, PopFacts DEF WorkFacts
<1>2. UNCHANGED raced
  BY <1>f DEF WorkFacts, Pops, Traced
<1>3. \A g \in Guids : row[g] # None /\ ~(o.op = "delete" /\ o.g = g) => row'[g] # None
  BY WorkKeepsRows
<1>4. ASSUME NEW g \in Guids, StoredAndKept(g)
      PROVE  row'[g] # None /\ \A j \in DOMAIN charQ' : ~(charQ'[j].op = "delete" /\ charQ'[j].g = g)
  <2>1. row[g] # None /\ \A j \in DOMAIN charQ : ~(charQ[j].op = "delete" /\ charQ[j].g = g)
    BY <1>4 DEF StoredAndKept, IsDelete
  <2>2. row'[g] # None
    BY <1>1, <1>3, <2>1
  <2> QED BY <1>1, <2>1, <2>2
<1>5. LoadThenDelete'
  <2> SUFFICES ASSUME NEW i \in DOMAIN charQ', NEW j \in DOMAIN charQ', NEW b \in Accounts,
                      i < j, charQ'[i].to = <<b, "login">>,
                      charQ'[j].op = "delete", charQ'[j].g = charQ'[i].g
               PROVE  charQ'[i].g \in raced'
    BY DEF LoadThenDelete, IsDelete, Live
  <2>1. /\ i + 1 \in DOMAIN charQ /\ j + 1 \in DOMAIN charQ /\ i + 1 < j + 1
        /\ charQ'[i] = charQ[i + 1] /\ charQ'[j] = charQ[j + 1]
    BY <1>1
  <2>2. Live(i + 1, b) /\ IsDelete(j + 1, charQ[i + 1].g)
    BY <2>1 DEF Live, IsDelete
  <2>3. charQ[i + 1].g \in raced
    BY <2>1, <2>2 DEF StoredInv, LoadThenDelete
  <2> QED BY <1>2, <2>1, <2>3
<1>6. FoundIsKept'
  <2> SUFFICES ASSUME NEW b \in Accounts, Found(b)', sess'[b].holder \notin raced'
               PROVE  /\ row'[sess'[b].holder] # None
                      /\ \A j \in DOMAIN charQ' :
                            ~(charQ'[j].op = "delete" /\ charQ'[j].g = sess'[b].holder)
    BY DEF FoundIsKept, StoredAndKept, IsDelete
  <2>1. CASE Found(b) /\ sess'[b].holder = sess[b].holder
    <3>1. sess[b].holder \in Guids
      BY <2>1, FoundFacts
    <3>2. StoredAndKept(sess[b].holder)
      BY <1>2, <2>1 DEF StoredInv, FoundIsKept
    <3> QED BY <1>4, <2>1, <3>1, <3>2
  <2>2. CASE DidTellLoad(o) /\ b = o.a /\ sess'[b].holder = o.g /\ row[o.g] # None
    <3>1. o.op = "load" /\ o.to = <<o.a, "login">> /\ UNCHANGED row
      BY <2>2 DEF DidTellLoad
    <3>2. Live(1, b) /\ charQ[1].g = o.g
      BY <1>1, <2>2, <3>1 DEF Live
    <3>3. \A j \in DOMAIN charQ : 1 < j => ~IsDelete(j, o.g)
      <4>1. o.g \notin raced
        BY <1>2, <2>2
      <4> QED BY <1>1, <3>2, <4>1 DEF StoredInv, LoadThenDelete
    <3>4. \A j \in DOMAIN charQ' : ~(charQ'[j].op = "delete" /\ charQ'[j].g = o.g)
      <4> TAKE j \in DOMAIN charQ'
      <4>1. j \in Nat /\ j + 1 \in DOMAIN charQ /\ charQ'[j] = charQ[j + 1] /\ j # 0
        BY <1>1, <1>0 DEF Queued
      <4>2. 1 < j + 1
        BY <4>1
      <4> QED BY <3>3, <4>1, <4>2 DEF IsDelete
    <3> QED BY <2>2, <3>1, <3>4
  <2> QED BY <1>f, <2>1, <2>2 DEF WorkFacts
<1>7. InWorldIsStored'
  <2> SUFFICES ASSUME NEW g \in Guids, g \notin raced', InWorld(g)'
               PROVE  /\ row'[g] # None
                      /\ \A j \in DOMAIN charQ' : ~(charQ'[j].op = "delete" /\ charQ'[j].g = g)
    BY DEF InWorldIsStored
  <2>1. InWorld(g)
    BY <1>f DEF WorkFacts
  <2>2. StoredAndKept(g)
    BY <1>2, <2>1 DEF StoredInv, InWorldIsStored, StoredAndKept, IsDelete
  <2> QED BY <1>4, <2>2
<1> QED BY <1>5, <1>6, <1>7 DEF StoredInv

(* The worker, the other steps and a restart together.                     *)
LEMMA NextStored == Base /\ StoredInv /\ [Next]_vars => StoredInv'
<1> SUFFICES ASSUME Base, StoredInv, [Next]_vars PROVE StoredInv'
  OBVIOUS
<1>1. CASE UNCHANGED vars
  BY <1>1 DEF vars, database, history, StoredInv, LoadThenDelete, FoundIsKept, InWorldIsStored,
     Found, StoredAndKept, IsDelete, Live, InWorld
<1>2. CASE Next
  <2>1. /\ Queued' /\ TypeOK'
        /\ \/ \E a \in Accounts : Did(a)
           \/ \E o \in CharOps : DidCharWork(o)
           \/ \E o \in LoginOps : DidLoginWork(o)
           \/ DidUpdateCount \/ DidRestart
    BY <1>2, NextDid
  <2>2. ASSUME NEW a \in Accounts, Did(a) PROVE StoredInv'
    <3>1. DidFacts(a)
      BY <2>1, <2>2, DidHasFacts
    <3> QED BY <2>1, <3>1, StoredDid
  <2>3. ASSUME NEW o \in CharOps, DidCharWork(o) PROVE StoredInv'
    BY <2>1, <2>3, StoredWork
  <2>4. CASE (\E o \in LoginOps : DidLoginWork(o)) \/ DidUpdateCount
    <3>1. Elsewhere
      BY <2>4, OthersElsewhere
    <3>2. charQ' = charQ /\ row' = row /\ raced' = raced
      BY <3>1 DEF Elsewhere
    <3>3. LoadThenDelete'
      BY <3>2 DEF StoredInv, LoadThenDelete, Live, IsDelete
    <3>4. FoundIsKept'
      BY <3>1, <3>2 DEF Elsewhere, StoredInv, FoundIsKept, StoredAndKept, IsDelete
    <3>5. InWorldIsStored'
      BY <3>1, <3>2 DEF Elsewhere, StoredInv, InWorldIsStored
    <3> QED BY <3>3, <3>4, <3>5 DEF StoredInv
  <2>5. CASE DidRestart
    BY <2>5, RestartWorld DEF StoredInv, LoadThenDelete, FoundIsKept, InWorldIsStored
  <2> QED BY <2>1, <2>2, <2>3, <2>4, <2>5
<1> QED BY <1>1, <1>2

(* At the start nobody is in the world and nothing is queued or awaited.   *)
LEMMA InitWorld ==
    ASSUME Init
    PROVE  /\ DOMAIN charQ = {} /\ DOMAIN loginQ = {}
           /\ \A a \in Accounts :
                 /\ sess[a] # None /\ sess[a].player = None /\ sess[a].holder = None
                 /\ sess[a].login = None /\ sess[a].enum = None /\ sess[a].create = None
                 /\ sess[a].info = None /\ sess[a].stage = 0 /\ sess[a].count = 0
                 /\ sess[a].legit = {g \in Guids : Owner[g] = a}
                 /\ ~Found(a)
           /\ \A g \in Guids : ~InWorld(g)
<1>1. charQ = <<>> /\ loginQ = <<>>
      /\ sess = [a \in Accounts |-> [NewSession EXCEPT !.legit = {g \in Guids : Owner[g] = a}]]
  BY DEF Init
<1>2. \A a \in Accounts :
         /\ sess[a].player = None /\ sess[a].holder = None
         /\ sess[a].login = None /\ sess[a].enum = None /\ sess[a].create = None
         /\ sess[a].info = None /\ sess[a].stage = 0 /\ sess[a].count = 0
         /\ sess[a].legit = {g \in Guids : Owner[g] = a}
  BY <1>1 DEF NewSession
<1>3. \A a \in Accounts : sess[a] # None
  <2>1. Base
    BY InitBase
  <2> TAKE a \in Accounts
  <2>2. NewSession \in Sessions
    BY NewSessionFacts
  <2>3. [NewSession EXCEPT !.legit = {g \in Guids : Owner[g] = a}] \in Sessions
    BY <2>2 DEF Sessions
  <2> QED BY <1>1, <2>3, NullFacts
<1>4. \A a \in Accounts : ~Found(a)
  BY <1>2 DEF Found, Ready
<1>5. \A g \in Guids : ~InWorld(g)
  BY <1>2, NullFacts DEF InWorld
<1> QED BY <1>1, <1>2, <1>3, <1>4, <1>5

(* In every run a character that is in the world is stored and nobody has  *)
(* asked for its deletion, unless that was asked while the character was   *)
(* being loaded or its player was between two maps, which are the moments  *)
(* HandleCharDeleteOpcode does not see (CharacterHandler.cpp 754).         *)
THEOREM WorldIsStored == Spec => []InWorldIsStored
<1>1. Init => StoredInv
  BY InitWorld DEF StoredInv, LoadThenDelete, FoundIsKept, InWorldIsStored
<1>2. StoredInv => InWorldIsStored
  BY DEF StoredInv
<1> QED BY <1>1, <1>2, NextStored, CharactersBase, PTL DEF Spec

-----------------------------------------------------------------------------
(* Identifiers and owners                                                  *)

(* What an account plays, loads or was listed is among its claims.         *)
LEMMA ClaimsType ==
    ASSUME TypeOK, NEW a \in Accounts
    PROVE  /\ Claims(a) \subseteq Guids
           /\ sess[a] # None /\ sess[a].player # None => sess[a].player \in Claims(a)
           /\ sess[a] # None /\ sess[a].holder # None => sess[a].holder \in Claims(a)
<1>1. CASE sess[a] = None
  BY <1>1 DEF Claims
<1>2. CASE sess[a] # None
  <2>1. sess[a] \in Sessions
    BY <1>2, SessionType
  <2>2. /\ sess[a].legit \subseteq Guids /\ sess[a].enum \in {None, Waiting} \cup SUBSET Guids
        /\ sess[a].holder \in {None} \cup Guids /\ sess[a].player \in {None} \cup Guids
    BY <2>1 DEF Sessions
  <2>3. Ready(sess[a].enum) => sess[a].enum \subseteq Guids
    BY <2>2 DEF Ready
  <2> QED BY <1>2, <2>2, <2>3 DEF Claims
<1> QED BY <1>1, <1>2

(* A step of an account inserts the next identifier and changes only the   *)
(* characters it claims.                                                   *)
LEMMA DidPending ==
    ASSUME Base, Queued', TypeOK', NEW a \in Accounts, DidFacts(a), NEW g \in Guids
    PROVE  /\ Pending(g)' => Pending(g) \/ (g = nextGuid /\ nextGuid' = nextGuid + 1)
           /\ g \notin Claims(a) /\ Unsaved(g) => Unsaved(g)'
           /\ g \notin Claims(a) => version'[g] = version[g]
<1>0. TypeOK /\ Queued /\ Added(a) /\ Grown(g, a)
  BY DEF Base, DidFacts
<1>1. \A i \in DOMAIN charQ' : \/ i \in DOMAIN charQ /\ SameOp(i, i)
                               \/ NewOp(a, charQ'[i])
  BY <1>0, AddedFacts
<1>2. ASSUME Pending(g)' PROVE Pending(g) \/ (g = nextGuid /\ nextGuid' = nextGuid + 1)
  <2>1. PICK i \in DOMAIN charQ' : charQ'[i].op = "insert" /\ charQ'[i].g = g
    BY <1>2 DEF Pending, IsInsert
  <2>2. CASE i \in DOMAIN charQ /\ SameOp(i, i)
    BY <2>1, <2>2 DEF Pending, IsInsert, SameOp
  <2>3. CASE NewOp(a, charQ'[i])
    BY <2>1, <2>3 DEF NewOp, DidCreate
  <2> QED BY <1>1, <2>2, <2>3
<1>3. ASSUME g \notin Claims(a), Unsaved(g) PROVE Unsaved(g)'
  <2> SUFFICES ASSUME NEW i \in DOMAIN charQ', charQ'[i].op = "save", charQ'[i].g = g PROVE FALSE
    BY DEF Unsaved, IsSave
  <2>1. CASE i \in DOMAIN charQ /\ SameOp(i, i)
    BY <1>3, <2>1 DEF Unsaved, IsSave, SameOp
  <2>2. CASE NewOp(a, charQ'[i])
    <3>1. sess[a] # None /\ sess[a].player # None /\ g = sess[a].player
      BY <2>2 DEF NewOp
    <3> QED BY <1>0, <1>3, <3>1, ClaimsType
  <2> QED BY <1>1, <2>1, <2>2
<1>4. ASSUME g \notin Claims(a) PROVE version'[g] = version[g]
  <2>1. ~(DidPlay(a) /\ g = sess[a].player)
    BY <1>0, <1>4, ClaimsType DEF DidPlay
  <2>2. ~(DidEnter(a) /\ g = sess[a].holder)
    <3>1. DidEnter(a) => sess[a] # None /\ sess[a].holder # None
      BY NullFacts DEF DidEnter, DidAnswer
    <3> QED BY <1>0, <1>4, <3>1, ClaimsType
  <2> QED BY <1>0, <2>1, <2>2 DEF Grown
<1> QED BY <1>2, <1>3, <1>4

IdInv == FreshInv /\ OwnedInv

(* A step of an account keeps the identifiers fresh and the claims owned.  *)
LEMMA IdDid ==
    ASSUME Base, Queued', TypeOK', IdInv, NEW a \in Accounts, DidFacts(a)
    PROVE  IdInv'
<1>0. /\ TypeOK /\ Queued /\ Added(a) /\ UNCHANGED row /\ nextGuid' >= nextGuid
      /\ nextGuid \in Nat /\ nextGuid' \in Nat
  BY DEF Base, DidFacts, TypeOK
<1>1. /\ \A g \in Guids : g >= nextGuid => Blank(g) /\ ~Pending(g)
      /\ \A g \in Guids : Pending(g) => Blank(g)
      /\ \A i, j \in DOMAIN charQ : i # j /\ charQ[i].op = "insert" /\ charQ[j].op = "insert"
            => charQ[i].g # charQ[j].g
      /\ \A b \in Accounts : \A g \in Claims(b) : Known(b, g)
      /\ \A b, c \in Accounts : b # c => Claims(b) \cap Claims(c) = {}
  BY DEF IdInv, FreshInv, OwnedInv
<1>g. Guids \subseteq Nat
  BY DEF Guids
<1>2. \A g \in Guids : g >= nextGuid \/ Pending(g) => g \notin Claims(a)
  <2> TAKE g \in Guids
  <2>1. g \in Claims(a) => g < nextGuid /\ ~Pending(g)
    BY <1>1 DEF Known
  <2> QED BY <1>0, <1>g, <2>1
<1>3. \A g \in Guids :
         /\ Pending(g)' => Pending(g) \/ (g = nextGuid /\ nextGuid' = nextGuid + 1)
         /\ g \notin Claims(a) /\ Unsaved(g) => Unsaved(g)'
         /\ g \notin Claims(a) => version'[g] = version[g]
  BY DidPending
<1>4. \A g \in Guids : g \notin Claims(a) /\ Blank(g) => Blank(g)'
  BY <1>0, <1>3 DEF Blank
<1>5. \A g \in Guids : g >= nextGuid' => Blank(g)' /\ ~Pending(g)'
  <2> TAKE g \in Guids
  <2>1. g >= nextGuid' => g >= nextGuid /\ ~(g = nextGuid /\ nextGuid' = nextGuid + 1)
    BY <1>0, <1>g
  <2> QED BY <2>1, <1>1, <1>2, <1>3, <1>4
<1>6. \A g \in Guids : Pending(g)' => Blank(g)'
  <2> TAKE g \in Guids
  <2>1. g = nextGuid => g >= nextGuid
    BY <1>0
  <2> QED BY <2>1, <1>1, <1>2, <1>3, <1>4
<1>7. \A i, j \in DOMAIN charQ' : i # j /\ charQ'[i].op = "insert" /\ charQ'[j].op = "insert"
         => charQ'[i].g # charQ'[j].g
  <2>0. /\ \A i \in DOMAIN charQ' :
              /\ i \in Nat
              /\ \/ i \in DOMAIN charQ /\ SameOp(i, i)
                 \/ i > Len(charQ) /\ i \notin DOMAIN charQ /\ NewOp(a, charQ'[i])
    BY <1>0, AddedFacts
  <2>1. ASSUME NEW i \in DOMAIN charQ', charQ'[i].op = "insert", i \notin DOMAIN charQ
        PROVE  charQ'[i].g = nextGuid /\ nextGuid \in Guids /\ i = Len(charQ) + 1
    <3>1. NewOp(a, charQ'[i]) /\ i > Len(charQ)
      BY <2>0, <2>1
    <3>2. PICK c \in Nat : DidCreate(a, c)
      BY <2>1, <3>1 DEF NewOp
    <3>3. nextGuid \in Guids /\ Len(charQ') = Len(charQ) + 1
      BY <3>2 DEF DidCreate, Grows
    <3>4. i <= Len(charQ') /\ Len(charQ) \in Nat /\ i \in Nat
      BY <1>0, <2>0 DEF Queued
    <3>5. i = Len(charQ) + 1
      BY <3>1, <3>3, <3>4
    <3> QED BY <2>1, <3>1, <3>3, <3>5 DEF NewOp
  <2>2. ASSUME NEW i \in DOMAIN charQ', charQ'[i].op = "insert", i \in DOMAIN charQ,
               nextGuid \in Guids, charQ'[i].g = nextGuid
        PROVE  FALSE
    <3>1. SameOp(i, i)
      BY <2>0, <2>2
    <3>2. Pending(nextGuid)
      BY <2>2, <3>1 DEF Pending, IsInsert, SameOp
    <3>3. nextGuid >= nextGuid
      BY <1>0
    <3> QED BY <1>1, <2>2, <3>2, <3>3
  <2>3. ASSUME NEW i \in DOMAIN charQ', NEW j \in DOMAIN charQ', i # j,
               charQ'[i].op = "insert", charQ'[j].op = "insert", charQ'[i].g = charQ'[j].g
        PROVE  FALSE
    <3>1. CASE i \in DOMAIN charQ /\ j \in DOMAIN charQ
      <4>1. SameOp(i, i) /\ SameOp(j, j)
        BY <2>0, <3>1
      <4> QED BY <1>1, <2>3, <3>1, <4>1 DEF SameOp
    <3>2. CASE i \notin DOMAIN charQ /\ j \in DOMAIN charQ
      BY <2>1, <2>2, <2>3, <3>2
    <3>3. CASE i \in DOMAIN charQ /\ j \notin DOMAIN charQ
      BY <2>1, <2>2, <2>3, <3>3
    <3>4. CASE i \notin DOMAIN charQ /\ j \notin DOMAIN charQ
      BY <2>1, <2>3, <3>4
    <3> QED BY <3>1, <3>2, <3>3, <3>4
  <2> QED BY <2>3
<1>8. FreshInv'
  BY <1>5, <1>6, <1>7 DEF FreshInv
<1>9. \A b \in Accounts : Claims(b)' \subseteq Claims(b) /\ Claims(b) \subseteq Guids
  BY <1>0, DidWorld, ClaimsType
<1>10. \A b \in Accounts : \A g \in Claims(b)' : Known(b, g)'
  <2> SUFFICES ASSUME NEW b \in Accounts, NEW g \in Claims(b)' PROVE Known(b, g)'
    OBVIOUS
  <2>1. g \in Claims(b) /\ g \in Guids /\ g \in Nat
    BY <1>9, <1>g
  <2>2. g < nextGuid /\ ~Pending(g) /\ (row[g] # None => row[g].acct = b)
    BY <1>1, <2>1 DEF Known
  <2>3. g < nextGuid' /\ g # nextGuid
    BY <1>0, <2>1, <2>2
  <2>4. ~Pending(g)'
    BY <1>3, <2>1, <2>2, <2>3
  <2> QED BY <1>0, <2>2, <2>3, <2>4 DEF Known
<1>11. \A b, c \in Accounts : b # c => Claims(b)' \cap Claims(c)' = {}
  BY <1>1, <1>9
<1>12. OwnedInv'
  BY <1>10, <1>11 DEF OwnedInv
<1> QED BY <1>8, <1>12 DEF IdInv

(* What the worker does to one character: its row, and what is queued for  *)
(* it.                                                                     *)
Worked(o, g) ==
    /\ Pending(g)' => Pending(g) /\ ~(o.op = "insert" /\ o.g = g)
    /\ Unsaved(g) => Unsaved(g)' /\ ~(o.op = "save" /\ o.g = g)
    /\ o.op = "insert" /\ o.g = g => Pending(g) /\ row'[g] # None /\ row'[g].ver = 0
    /\ ~(o.op = "insert" /\ o.g = g) /\ row'[g] # None =>
          /\ row[g] # None /\ row'[g].acct = row[g].acct /\ row'[g].name = row[g].name
          /\ row'[g].ver = IF o.op = "save" /\ o.g = g THEN o.n ELSE row[g].ver

(* The row of one character after an operation.                            *)
LEMMA WorkRow ==
    ASSUME NEW o \in CharOps, DidCharWork(o), NEW g \in Guids
    PROVE  /\ o.op = "insert" /\ o.g = g => row'[g] = Row(o.a, o.n) /\ row'[g] # None
           /\ ~(o.op = "insert" /\ o.g = g) /\ row'[g] # None =>
                 /\ row[g] # None /\ row'[g].acct = row[g].acct /\ row'[g].name = row[g].name
                 /\ row'[g].ver = IF o.op = "save" /\ o.g = g THEN o.n ELSE row[g].ver
<1>1. CASE DidInsert(o)
  <2>1. o.op = "insert" /\ row'[o.g] = Row(o.a, o.n) /\ RowsBut(o.g)
    BY <1>1 DEF DidInsert
  <2>2. o.n \in Names /\ o.a \in Accounts
    BY <2>1 DEF CharOps, OpSet, CharOp
  <2>3. Row(o.a, o.n) \in Rows
    BY <2>2 DEF Row, Rows
  <2> QED BY <2>1, <2>3, NullFacts DEF RowsBut, SameRow
<1>2. CASE DidWrite(o)
  BY <1>2 DEF DidWrite, RowsBut, SameRow
<1>3. CASE DidErase(o)
  BY <1>3 DEF DidErase, RowsBut, SameRow
<1>4. CASE DidMark(o)
  BY <1>4 DEF DidMark, SameRow
<1>5. CASE UNCHANGED row /\ o.op \notin {"insert", "save"}
  BY <1>5
<1> QED BY <1>1, <1>2, <1>3, <1>4, <1>5 DEF DidCharWork, DidTellEnum, DidTellCreate, DidTellLoad

(* The row, the version and the queue of one character after an operation. *)
LEMMA WorkOne ==
    ASSUME Base, Queued', TypeOK', IdInv, NEW o \in CharOps, DidCharWork(o), NEW g \in Guids
    PROVE  Worked(o, g)
<1>0. /\ 1 \in DOMAIN charQ /\ o = charQ[1]
      /\ \A i \in DOMAIN charQ' : i \in Nat /\ i + 1 \in DOMAIN charQ /\ charQ'[i] = charQ[i + 1]
  <2>1. Queued /\ Wired /\ Pops(o)
    BY WorkHasFacts DEF Base, WorkFacts
  <2> QED BY <2>1, PopFacts
<1>1. /\ o.op = "insert" /\ o.g = g => row'[g] = Row(o.a, o.n) /\ row'[g] # None
      /\ ~(o.op = "insert" /\ o.g = g) /\ row'[g] # None =>
            /\ row[g] # None /\ row'[g].acct = row[g].acct /\ row'[g].name = row[g].name
            /\ row'[g].ver = IF o.op = "save" /\ o.g = g THEN o.n ELSE row[g].ver
  BY WorkRow
<1>2. Row(o.a, o.n).ver = 0
  BY DEF Row
<1>3. o.op = "insert" /\ o.g = g => Pending(g)
  BY <1>0 DEF Pending, IsInsert
<1>4. Unsaved(g) => Unsaved(g)' /\ ~(o.op = "save" /\ o.g = g)
  BY <1>0 DEF Unsaved, IsSave
<1>5. ASSUME Pending(g)' PROVE Pending(g) /\ ~(o.op = "insert" /\ o.g = g)
  <2>1. PICK i \in DOMAIN charQ' : charQ'[i].op = "insert" /\ charQ'[i].g = g
    BY <1>5 DEF Pending, IsInsert
  <2>2. i + 1 \in DOMAIN charQ /\ charQ[i + 1] = charQ'[i]
    BY <1>0
  <2>3. i + 1 # 1
    <3>1. i \in DOMAIN charQ' /\ charQ' \in Seq(CharOps)
      BY DEF Queued
    <3>2. i >= 1 /\ i \in Nat
      BY <3>1
    <3> QED BY <3>2
  <2>4. ~(o.op = "insert" /\ o.g = g)
    BY <1>0, <2>1, <2>2, <2>3 DEF IdInv, FreshInv
  <2> QED BY <2>1, <2>2, <2>4 DEF Pending, IsInsert
<1> QED BY <1>1, <1>2, <1>3, <1>4, <1>5 DEF Worked

(* The worker keeps the identifiers fresh and the claims owned: it inserts *)
(* under an identifier that had no row.                                    *)
LEMMA IdWork ==
    ASSUME Base, Queued', TypeOK', IdInv, NEW o \in CharOps, DidCharWork(o)
    PROVE  IdInv'
<1>0. TypeOK /\ Queued /\ Wired /\ WorkFacts(o)
  BY WorkHasFacts DEF Base
<1>1. /\ o.a \in Accounts /\ o = charQ[1] /\ 1 \in DOMAIN charQ
      /\ \A i \in DOMAIN charQ' : i \in Nat /\ i + 1 \in DOMAIN charQ /\ charQ'[i] = charQ[i + 1]
  BY <1>0, PopFacts DEF WorkFacts
<1>2. version' = version /\ nextGuid' = nextGuid /\ nextGuid \in Nat
  BY <1>0 DEF WorkFacts, Pops, TypeOK
<1>3. /\ \A g \in Guids : g >= nextGuid => Blank(g) /\ ~Pending(g)
      /\ \A g \in Guids : Pending(g) => Blank(g)
      /\ \A i, j \in DOMAIN charQ : i # j /\ charQ[i].op = "insert" /\ charQ[j].op = "insert"
            => charQ[i].g # charQ[j].g
      /\ \A b \in Accounts : \A g \in Claims(b) : Known(b, g)
      /\ \A b, c \in Accounts : b # c => Claims(b) \cap Claims(c) = {}
  BY DEF IdInv, FreshInv, OwnedInv
<1>4. \A g \in Guids : Worked(o, g)
  BY WorkOne
<1>5. \A g \in Guids : Blank(g) /\ ~(o.op = "insert" /\ o.g = g) => Blank(g)'
  BY <1>2, <1>4 DEF Blank, Worked
<1>6. \A g \in Guids : g >= nextGuid' => Blank(g)' /\ ~Pending(g)'
  BY <1>2, <1>3, <1>4, <1>5 DEF Worked
<1>7. \A g \in Guids : Pending(g)' => Blank(g)'
  BY <1>3, <1>4, <1>5 DEF Worked
<1>8. \A i, j \in DOMAIN charQ' : i # j /\ charQ'[i].op = "insert" /\ charQ'[j].op = "insert"
         => charQ'[i].g # charQ'[j].g
  <2> TAKE i, j \in DOMAIN charQ'
  <2>1. i # j => i + 1 # j + 1
    BY <1>1
  <2> QED BY <1>1, <1>3, <2>1
<1>9. FreshInv'
  BY <1>6, <1>7, <1>8 DEF FreshInv
<1>10. \A b \in Accounts : Claims(b) \subseteq Guids
  BY <1>0, ClaimsType
<1>11. ASSUME NEW b \in Accounts, NEW g \in Guids, Known(b, g) PROVE Known(b, g)'
  BY <1>2, <1>4, <1>11 DEF Known, Worked
<1>12. ASSUME NEW g \in OfAccount(o.a)
       PROVE  g \in Guids /\ Known(o.a, g) /\ \A c \in Accounts : c # o.a => g \notin Claims(c)
  <2>1. g \in Guids /\ row[g] # None /\ row[g].acct = o.a
    BY <1>12 DEF OfAccount
  <2>2. ~Blank(g)
    BY <2>1 DEF Blank
  <2>3. g \in Nat
    BY <2>1 DEF Guids
  <2>4. g < nextGuid /\ ~Pending(g)
    BY <1>2, <1>3, <2>1, <2>2, <2>3
  <2>5. \A c \in Accounts : c # o.a => g \notin Claims(c)
    BY <1>3, <2>1 DEF Known
  <2> QED BY <2>1, <2>4, <2>5 DEF Known
<1>13. \A b \in Accounts : Claims(b)' \subseteq Claims(b) \/
          (b = o.a /\ Claims(b)' \subseteq Claims(b) \cup OfAccount(b))
  BY <1>0 DEF WorkFacts
<1>14. \A b \in Accounts : \A g \in Claims(b)' : Known(b, g)'
  <2> SUFFICES ASSUME NEW b \in Accounts, NEW g \in Claims(b)' PROVE Known(b, g)'
    OBVIOUS
  <2>1. CASE g \in Claims(b)
    BY <1>3, <1>10, <1>11, <2>1
  <2>2. CASE b = o.a /\ g \in OfAccount(o.a)
    BY <1>11, <1>12, <2>2
  <2> QED BY <1>13, <2>1, <2>2
<1>15. \A b, c \in Accounts : b # c => Claims(b)' \cap Claims(c)' = {}
  <2> SUFFICES ASSUME NEW b \in Accounts, NEW c \in Accounts, b # c,
                      NEW g, g \in Claims(b)', g \in Claims(c)'
               PROVE  FALSE
    OBVIOUS
  <2>1. \/ g \in Claims(b) /\ g \in Claims(c)
        \/ b = o.a /\ g \in OfAccount(o.a) /\ g \in Claims(c)
        \/ c = o.a /\ g \in OfAccount(o.a) /\ g \in Claims(b)
    BY <1>13
  <2> QED BY <1>3, <1>12, <2>1
<1>16. OwnedInv'
  BY <1>14, <1>15 DEF OwnedInv
<1> QED BY <1>9, <1>16 DEF IdInv

(* Every step.                                                             *)
LEMMA NextIds == Base /\ IdInv /\ [Next]_vars => IdInv'
<1> SUFFICES ASSUME Base, IdInv, [Next]_vars PROVE IdInv'
  OBVIOUS
<1>0. ASSUME UNCHANGED <<charQ, row, version, nextGuid>>, \A b \in Accounts : Claims(b)' = Claims(b)
      PROVE  IdInv'
  <2>1. \A g : (Pending(g)' <=> Pending(g)) /\ (Blank(g)' <=> Blank(g))
    BY <1>0 DEF Pending, Blank, Unsaved, IsInsert, IsSave
  <2>2. \A a, g : Known(a, g) => Known(a, g)'
    BY <1>0, <2>1 DEF Known
  <2>3. FreshInv'
    BY <1>0, <2>1 DEF IdInv, FreshInv
  <2>4. OwnedInv'
    BY <1>0, <2>2 DEF IdInv, OwnedInv
  <2> QED BY <2>3, <2>4 DEF IdInv
<1>1. CASE UNCHANGED vars
  <2>1. UNCHANGED <<charQ, row, version, nextGuid, sess>>
    BY <1>1 DEF vars
  <2>2. \A b \in Accounts : Claims(b)' = Claims(b)
    BY <2>1 DEF Claims
  <2> QED BY <1>0, <2>1, <2>2
<1>2. CASE Next
  <2>1. /\ Queued' /\ TypeOK'
        /\ \/ \E a \in Accounts : Did(a)
           \/ \E o \in CharOps : DidCharWork(o)
           \/ \E o \in LoginOps : DidLoginWork(o)
           \/ DidUpdateCount \/ DidRestart
    BY <1>2, NextDid
  <2>2. ASSUME NEW a \in Accounts, Did(a) PROVE IdInv'
    <3>1. DidFacts(a)
      BY <2>1, <2>2, DidHasFacts
    <3> QED BY <2>1, <3>1, IdDid
  <2>3. ASSUME NEW o \in CharOps, DidCharWork(o) PROVE IdInv'
    BY <2>1, <2>3, IdWork
  <2>4. CASE (\E o \in LoginOps : DidLoginWork(o)) \/ DidUpdateCount
    <3>1. Elsewhere
      BY <2>4, OthersElsewhere
    <3> QED BY <1>0, <3>1 DEF Elsewhere
  <2>5. CASE DidRestart
    <3>1. /\ DOMAIN charQ' = {} /\ \A b \in Accounts : Claims(b)' = {}
      BY <2>5, RestartWorld
    <3>2. \A g \in Guids : /\ row'[g] = None <=> row[g] = None
                           /\ version'[g] = IF row[g] = None THEN 0 ELSE row[g].ver
                           /\ row[g] # None => g < nextGuid'
      BY <2>5 DEF DidRestart, SameRow
    <3>3. \A g \in Guids : ~Pending(g)' /\ Unsaved(g)'
      BY <3>1 DEF Pending, Unsaved
    <3>4. \A g \in Guids : g >= nextGuid' => Blank(g)'
      <4> TAKE g \in Guids
      <4>1. g >= nextGuid' => ~(g < nextGuid')
        BY <2>1 DEF Guids, TypeOK
      <4> QED BY <3>2, <3>3, <4>1 DEF Blank
    <3>5. FreshInv'
      BY <3>1, <3>3, <3>4 DEF FreshInv
    <3>6. OwnedInv'
      BY <3>1 DEF OwnedInv
    <3> QED BY <3>5, <3>6 DEF IdInv
  <2> QED BY <2>1, <2>2, <2>3, <2>4, <2>5
<1> QED BY <1>1, <1>2

(* The characters that are stored at the start.                            *)
LEMMA InitRows ==
    ASSUME Init
    PROVE  /\ \A g \in Guids : /\ version[g] = 0 /\ g \in Nat
                               /\ row[g] # None <=> Owner[g] # None
                               /\ row[g] # None =>
                                     /\ row[g].acct = Owner[g] /\ row[g].name = g /\ row[g].ver = 0
                                     /\ g < nextGuid
           /\ nextGuid \in Nat
<1>1. /\ row = [g \in Guids |-> IF Owner[g] = None THEN None ELSE Row(Owner[g], g)]
      /\ version = [g \in Guids |-> 0]
      /\ nextGuid = Max({0} \cup {g \in Guids : Owner[g] # None}) + 1
  BY DEF Init
<1>2. MaxGuid \in Nat /\ Owner \in [Guids -> Accounts \cup {None}]
  BY LimitsAssumption
<1> DEFINE S == {0} \cup {g \in Guids : Owner[g] # None}
<1>3. S \subseteq 0..MaxGuid /\ S # {}
  BY <1>2 DEF Guids
<1>4. Max(S) \in S /\ \A x \in S : x <= Max(S)
  <2> HIDE DEF S
  <2> QED BY <1>2, <1>3, MaxFacts
<1>5. Max(S) \in Nat /\ \A g \in Guids : Owner[g] # None => g <= Max(S)
  BY <1>4 DEF Guids
<1>6. nextGuid = Max(S) + 1
  BY <1>1
<1> HIDE DEF S
<1>7. \A g \in Guids : Owner[g] # None => g < nextGuid
  BY <1>5, <1>6 DEF Guids
<1>8. \A g \in Guids : Owner[g] # None => Row(Owner[g], g) # None
  <2> TAKE g \in Guids
  <2>1. Owner[g] # None => Row(Owner[g], g) \in Rows
    BY <1>2 DEF Row, Rows
  <2> QED BY <2>1, NullFacts
<1>9. \A a, n : Row(a, n).acct = a /\ Row(a, n).name = n /\ Row(a, n).ver = 0
  BY DEF Row
<1>10. Guids \subseteq Nat
  BY DEF Guids
<1> QED BY <1>1, <1>5, <1>6, <1>7, <1>8, <1>9, <1>10

(* Identifiers and owners hold in every run.                               *)
LEMMA CharactersIds == Spec => []IdInv
<1>1. ASSUME Init PROVE IdInv
  <2>1. /\ DOMAIN charQ = {}
        /\ \A a \in Accounts : /\ sess[a] # None /\ sess[a].player = None /\ sess[a].holder = None
                               /\ sess[a].enum = None /\ sess[a].legit = {g \in Guids : Owner[g] = a}
    BY <1>1, InitWorld
  <2>2. \A a \in Accounts : Claims(a) = {g \in Guids : Owner[g] = a}
    BY <2>1 DEF Claims, Ready
  <2>3. /\ \A g \in Guids : /\ version[g] = 0 /\ g \in Nat
                            /\ row[g] # None <=> Owner[g] # None
                            /\ row[g] # None => row[g].acct = Owner[g] /\ g < nextGuid
        /\ nextGuid \in Nat
    BY <1>1, InitRows
  <2>4. \A g : ~Pending(g) /\ Unsaved(g)
    BY <2>1 DEF Pending, Unsaved
  <2>5. \A g \in Guids : g >= nextGuid => Blank(g)
    BY <2>3, <2>4 DEF Blank
  <2>6. FreshInv
    BY <2>1, <2>4, <2>5 DEF FreshInv
  <2>7. \A a \in Accounts : a # None
    BY NullFacts
  <2>8. OwnedInv
    BY <2>2, <2>3, <2>4, <2>7 DEF OwnedInv, Known
  <2> QED BY <2>6, <2>8 DEF IdInv
<1> QED BY <1>1, NextIds, CharactersBase, PTL DEF Spec

-----------------------------------------------------------------------------
(* A character comes into the world as it last was there                   *)

(* What one account claims, no other one plays or loads.                   *)
LEMMA OnePlayer ==
    ASSUME Base, IdInv, NEW a \in Accounts, NEW b \in Accounts, sess[a] # None, sess[b] # None,
           sess[a].player # None, sess[b].loading, sess[b].holder \in Guids
    PROVE  sess[a].player # sess[b].holder
<1>0. TypeOK /\ Paired
  BY DEF Base
<1>1. sess[a].player \in Claims(a) /\ sess[b].holder \in Claims(b)
  BY <1>0, ClaimsType, NullFacts
<1>2. a # b
  BY <1>0 DEF Paired
<1> QED BY <1>1, <1>2 DEF IdInv, OwnedInv

(* A step of an account: a player that leaves is saved at the end of the   *)
(* queue, so the last save is the latest version.                          *)
LEMMA LatestDid ==
    ASSUME Base, Queued', TypeOK', IdInv, LatestInv, NEW a \in Accounts, DidFacts(a)
    PROVE  LatestInv'
<1>0. /\ TypeOK /\ Queued /\ Paired /\ Added(a) /\ UNCHANGED row /\ Moved(a) /\ Leaves(a)
      /\ \A g \in Guids : Grown(g, a)
  BY DEF Base, DidFacts
<1>1. /\ Len(charQ) \in Nat
      /\ \A i \in DOMAIN charQ : i \in DOMAIN charQ' /\ i \in Nat /\ i <= Len(charQ) /\ SameOp(i, i)
      /\ \A i \in DOMAIN charQ' :
            /\ i \in Nat
            /\ \/ i \in DOMAIN charQ /\ SameOp(i, i)
               \/ i > Len(charQ) /\ i \notin DOMAIN charQ /\ NewOp(a, charQ'[i])
  BY <1>0, AddedFacts
<1>2. /\ \A b \in Accounts : Found(b)' =>
            /\ Found(b) /\ sess'[b].holder = sess[b].holder /\ sess'[b].login = sess[b].login
            /\ ~(DidEnter(a) /\ b = a)
      /\ \A g \in Guids : InWorld(g)' => InWorld(g) \/ (DidEnter(a) /\ g = sess[a].holder)
  BY DidWorld
<1>3. ASSUME NEW j \in DOMAIN charQ', NEW g, charQ'[j].op = "save", charQ'[j].g = g
      PROVE  \/ j \in DOMAIN charQ /\ IsSave(j, g)
             \/ /\ j > Len(charQ) /\ sess[a] # None /\ sess[a].player # None
                /\ sess[a].player = g
  BY <1>1, <1>3 DEF IsSave, SameOp, NewOp
<1>4. \A g : \A j \in DOMAIN charQ : IsSave(j, g) =>
         charQ'[j].op = "save" /\ charQ'[j].g = g /\ charQ'[j].n = charQ[j].n
  BY <1>1 DEF IsSave, SameOp
<1>5. ASSUME NEW g \in Guids, ~InWorld(g)', ~InWorld(g)
      PROVE  /\ \A k \in DOMAIN charQ' : LastSave(k, g)' => charQ'[k].n = version'[g]
             /\ Unsaved(g)' /\ row'[g] # None => row'[g].ver = version'[g]
  <2>1. version'[g] = version[g]
    <3>1. ~(DidPlay(a) /\ g = sess[a].player)
      BY <1>5 DEF DidPlay, InWorld
    <3>2. DidEnter(a) /\ g = sess[a].holder => InWorld(g)'
      <4>1. DidEnter(a) => sess'[a] # None /\ sess'[a].player = sess[a].holder
        BY NullFacts DEF DidEnter, DidAnswer
      <4> QED BY <4>1 DEF InWorld
    <3> QED BY <1>0, <1>5, <3>1, <3>2 DEF Grown
  <2>2. \A j \in DOMAIN charQ' : charQ'[j].op = "save" /\ charQ'[j].g = g =>
           j \in DOMAIN charQ /\ IsSave(j, g)
    <3>1. ~(sess[a] # None /\ sess[a].player = g)
      BY <1>5 DEF InWorld
    <3> QED BY <1>3, <3>1
  <2>3. ASSUME NEW k \in DOMAIN charQ', LastSave(k, g)' PROVE charQ'[k].n = version'[g]
    <3>1. /\ charQ'[k].op = "save" /\ charQ'[k].g = g
          /\ \A j \in DOMAIN charQ' : j > k => ~(charQ'[j].op = "save" /\ charQ'[j].g = g)
      BY <2>3 DEF LastSave, IsSave
    <3>2. k \in DOMAIN charQ /\ IsSave(k, g)
      BY <2>2, <3>1
    <3>3. \A j \in DOMAIN charQ : j > k => ~IsSave(j, g)
      BY <1>1, <1>4, <3>1
    <3>4. charQ[k].n = version[g]
      BY <1>5, <3>2, <3>3 DEF LatestInv, CurrentInv, LastSave
    <3> QED BY <1>4, <2>1, <3>2, <3>4
  <2>4. ASSUME Unsaved(g)', row'[g] # None PROVE row'[g].ver = version'[g]
    <3>1. \A j \in DOMAIN charQ' : ~(charQ'[j].op = "save" /\ charQ'[j].g = g)
      BY <2>4 DEF Unsaved, IsSave
    <3>2. Unsaved(g)
      BY <1>1, <1>4, <3>1 DEF Unsaved
    <3> QED BY <1>0, <1>5, <2>1, <2>4, <3>2 DEF LatestInv, CurrentInv
  <2> QED BY <2>3, <2>4
<1>6. ASSUME NEW g \in Guids, ~InWorld(g)', InWorld(g)
      PROVE  /\ \A k \in DOMAIN charQ' : LastSave(k, g)' => charQ'[k].n = version'[g]
             /\ ~Unsaved(g)'
  <2>1. sess[a] # None /\ sess[a].player = g
    <3>1. PICK b \in Accounts : sess[b] # None /\ sess[b].player = g
      BY <1>6 DEF InWorld
    <3>2. ~(sess'[b] # None /\ sess'[b].player = g)
      BY <1>6 DEF InWorld
    <3> QED BY <1>0, <3>1, <3>2 DEF Moved
  <2>2. PICK D : LogsOut(a, D)
    <3>1. ~(sess'[a] # None /\ sess'[a].player = g)
      BY <1>6 DEF InWorld
    <3> QED BY <1>0, <2>1, <3>1, NullFacts DEF Leaves
  <2>3. sess[a].player # None
    BY <2>1, NullFacts
  <2>o. PICK o : o = Op("save", a, sess[a].player, version[sess[a].player], Nobody)
    OBVIOUS
  <2>p. PICK p : p = Op("offline", a, None, None, Nobody)
    OBVIOUS
  <2>4. Grows2(charQ, charQ', D, o, p)
    BY <2>2, <2>3, <2>o, <2>p DEF LogsOut
  <2>5. o.op = "save" /\ o.g = g /\ o.n = version[g] /\ p.op = "offline"
    BY <2>1, <2>o, <2>p, OpFields
  <2>6. /\ Len(charQ') = Len(charQ) + 2 /\ DOMAIN charQ' = 1..Len(charQ')
        /\ charQ'[Len(charQ) + 1] = o /\ charQ'[Len(charQ) + 2] = p
    BY <1>0, <2>4 DEF Grows2, Queued
  <2>7. Len(charQ) + 1 \in DOMAIN charQ'
    BY <1>1, <2>6
  <2>8. version'[g] = version[g]
    <3>1. ~DidPlay(a)
      <4>1. charQ' # charQ
        BY <1>1, <2>6
      <4> QED BY <4>1 DEF DidPlay
    <3>2. ~DidEnter(a)
      <4>1. Len(charQ') # Len(charQ) + 1
        BY <1>1, <2>6
      <4> QED BY <4>1 DEF DidEnter, Grows
    <3> QED BY <1>0, <3>1, <3>2 DEF Grown
  <2>9. ASSUME NEW k \in DOMAIN charQ', LastSave(k, g)' PROVE charQ'[k].n = version'[g]
    <3>1. /\ charQ'[k].op = "save"
          /\ \A j \in DOMAIN charQ' : j > k => ~(charQ'[j].op = "save" /\ charQ'[j].g = g)
      BY <2>9 DEF LastSave, IsSave
    <3>2. ~(Len(charQ) + 1 > k)
      BY <2>5, <2>6, <2>7, <3>1
    <3>3. k = Len(charQ) + 1 \/ k = Len(charQ) + 2
      BY <1>1, <2>6, <3>2
    <3>4. k # Len(charQ) + 2
      BY <2>5, <2>6, <3>1
    <3> QED BY <2>5, <2>6, <2>8, <3>3, <3>4
  <2>10. ~Unsaved(g)'
    BY <2>5, <2>6, <2>7 DEF Unsaved, IsSave
  <2> QED BY <2>9, <2>10
<1>7. CurrentInv'
  BY <1>5, <1>6 DEF CurrentInv
<1>8. SaveThenLoad'
  <2> SUFFICES ASSUME NEW i \in DOMAIN charQ', NEW j \in DOMAIN charQ', NEW b \in Accounts,
                      charQ'[i].to = <<b, "login">>,
                      charQ'[j].op = "save", charQ'[j].g = charQ'[i].g
               PROVE  j < i
    BY DEF SaveThenLoad, IsSave, Live
  <2>p. PICK g : g = charQ'[i].g
    OBVIOUS
  <2>1. \/ j \in DOMAIN charQ /\ IsSave(j, g)
        \/ j > Len(charQ) /\ sess[a] # None /\ sess[a].player # None /\ sess[a].player = g
    BY <1>3, <2>p
  <2>2. CASE i \in DOMAIN charQ
    <3>1. SameOp(i, i)
      BY <1>1, <2>2
    <3>2. Live(i, b) /\ charQ[i].g = g
      BY <2>p, <3>1, FutureFacts DEF SameOp, Live
    <3>3. sess[b] # None /\ sess[b].loading /\ sess[b].holder = g /\ g \in Guids
      BY <2>2, <3>2, LiveFacts
    <3>4. ~(sess[a] # None /\ sess[a].player # None /\ sess[a].player = g)
      BY <3>3, OnePlayer
    <3>5. j \in DOMAIN charQ /\ IsSave(j, g)
      BY <2>1, <3>4
    <3> QED BY <2>2, <3>2, <3>5 DEF LatestInv, SaveThenLoad
  <2>3. CASE i \notin DOMAIN charQ
    <3>1. i > Len(charQ) /\ NewOp(a, charQ'[i])
      BY <1>1, <2>3
    <3>2. DidLoad(a, g)
      BY <2>p, <3>1, FutureFacts DEF NewOp
    <3>3. sess[a].player = None
      BY <3>2 DEF DidLoad
    <3>4. j \in DOMAIN charQ
      BY <2>1, <3>3
    <3>5. j \in Nat /\ i \in Nat /\ j <= Len(charQ)
      BY <1>1, <3>4
    <3> QED BY <1>1, <3>1, <3>5
  <2> QED BY <2>2, <2>3
<1>9. FoundIsLatest'
  <2> SUFFICES ASSUME NEW b \in Accounts, Found(b)'
               PROVE  /\ \A j \in DOMAIN charQ' : ~(charQ'[j].op = "save" /\ charQ'[j].g = sess'[b].holder)
                      /\ sess'[b].login[1].ver = version'[sess'[b].holder]
    BY DEF FoundIsLatest, Unsaved, IsSave
  <2>1. /\ Found(b) /\ sess'[b].holder = sess[b].holder /\ sess'[b].login = sess[b].login
        /\ ~(DidEnter(a) /\ b = a)
    BY <1>2
  <2>p. PICK g : g = sess[b].holder
    OBVIOUS
  <2>2. sess[b] # None /\ sess[b].loading /\ g \in Guids
    BY <2>1, <2>p, FoundFacts
  <2>3. Unsaved(g) /\ sess[b].login[1].ver = version[g]
    BY <2>1, <2>p DEF LatestInv, FoundIsLatest
  <2>4. ~(sess[a] # None /\ sess[a].player # None /\ sess[a].player = g)
    BY <2>2, <2>p, OnePlayer
  <2>5. \A j \in DOMAIN charQ' : ~(charQ'[j].op = "save" /\ charQ'[j].g = g)
    BY <1>3, <2>3, <2>4 DEF Unsaved
  <2>6. version'[g] = version[g]
    <3>1. ~(DidPlay(a) /\ g = sess[a].player)
      BY <2>4 DEF DidPlay
    <3>2. ~(DidEnter(a) /\ g = sess[a].holder)
      <4>1. ASSUME DidEnter(a), g = sess[a].holder PROVE a = b
        <5>1. sess[a] # None /\ sess[a].holder # None /\ sess[b].holder # None
          BY <2>2, <2>p, <4>1, NullFacts DEF DidEnter, DidAnswer
        <5>2. g \in Claims(a) /\ g \in Claims(b)
          BY <1>0, <2>2, <2>p, <4>1, <5>1, ClaimsType
        <5> QED BY <5>2 DEF IdInv, OwnedInv
      <4> QED BY <2>1, <4>1
    <3> QED BY <1>0, <2>2, <3>1, <3>2 DEF Grown
  <2> QED BY <2>1, <2>p, <2>3, <2>5, <2>6
<1> QED BY <1>7, <1>8, <1>9 DEF LatestInv

(* The worker: the last save of a character is the one its row ends up     *)
(* with, and a load is behind it.                                          *)
LEMMA LatestWork ==
    ASSUME Base, Queued', TypeOK', IdInv, LatestInv, NEW o \in CharOps, DidCharWork(o)
    PROVE  LatestInv'
<1>0. TypeOK /\ Queued /\ Wired /\ WorkFacts(o)
  BY WorkHasFacts DEF Base
<1>1. /\ 1 \in DOMAIN charQ /\ o = charQ[1] /\ o.a \in Accounts
      /\ \A i \in DOMAIN charQ' : i \in Nat /\ i + 1 \in DOMAIN charQ /\ charQ'[i] = charQ[i + 1]
      /\ \A i \in DOMAIN charQ : i = 1 \/ (i - 1 \in DOMAIN charQ' /\ charQ'[i - 1] = charQ[i])
  BY <1>0, PopFacts DEF WorkFacts
<1>d. \A i \in DOMAIN charQ : i \in Nat /\ i >= 1
  BY <1>0 DEF Queued
<1>2. version' = version
  BY <1>0 DEF WorkFacts, Pops
<1>3. \A g \in Guids : Worked(o, g)
  BY WorkOne
<1>4. CurrentInv'
  <2> SUFFICES ASSUME NEW g \in Guids, ~InWorld(g)'
               PROVE  /\ \A k \in DOMAIN charQ' : LastSave(k, g)' => charQ'[k].n = version'[g]
                      /\ Unsaved(g)' /\ row'[g] # None => row'[g].ver = version'[g]
    BY DEF CurrentInv
  <2>1. /\ \A k \in DOMAIN charQ : LastSave(k, g) => charQ[k].n = version[g]
        /\ Unsaved(g) /\ row[g] # None => row[g].ver = version[g]
    <3>1. ~InWorld(g)
      BY <1>0 DEF WorkFacts
    <3> QED BY <3>1 DEF LatestInv, CurrentInv
  <2>2. ASSUME NEW k \in DOMAIN charQ', LastSave(k, g)' PROVE charQ'[k].n = version'[g]
    <3>1. /\ charQ'[k].op = "save" /\ charQ'[k].g = g
          /\ \A j \in DOMAIN charQ' : j > k => ~(charQ'[j].op = "save" /\ charQ'[j].g = g)
      BY <2>2 DEF LastSave, IsSave
    <3>2. k \in Nat /\ k + 1 \in DOMAIN charQ /\ charQ[k + 1] = charQ'[k]
      BY <1>1
    <3>3. ASSUME NEW j \in DOMAIN charQ, j > k + 1 PROVE ~IsSave(j, g)
      <4>1. j - 1 \in DOMAIN charQ' /\ charQ'[j - 1] = charQ[j] /\ j - 1 > k
        BY <1>1, <1>d, <3>2, <3>3
      <4> QED BY <3>1, <4>1 DEF IsSave
    <3>4. LastSave(k + 1, g)
      BY <3>1, <3>2, <3>3 DEF LastSave, IsSave
    <3> QED BY <1>2, <2>1, <3>2, <3>4
  <2>3. ASSUME Unsaved(g)', row'[g] # None PROVE row'[g].ver = version'[g]
    <3>1. \A j \in DOMAIN charQ : j # 1 => ~IsSave(j, g)
      BY <1>1, <2>3 DEF Unsaved, IsSave
    <3>2. CASE o.op = "insert" /\ o.g = g
      <4>1. Pending(g) /\ row'[g].ver = 0
        BY <1>3, <3>2 DEF Worked
      <4>2. version[g] = 0
        BY <4>1 DEF IdInv, FreshInv, Blank
      <4> QED BY <1>2, <4>1, <4>2
    <3>3. CASE o.op = "save" /\ o.g = g
      <4>1. row'[g].ver = o.n
        BY <1>3, <2>3, <3>3 DEF Worked
      <4>2. LastSave(1, g)
        BY <1>1, <1>d, <3>1, <3>3 DEF LastSave, IsSave
      <4>3. o.n = version[g]
        BY <1>1, <2>1, <4>2
      <4> QED BY <1>2, <4>1, <4>3
    <3>4. CASE ~(o.op = "insert" /\ o.g = g) /\ ~(o.op = "save" /\ o.g = g)
      <4>1. row[g] # None /\ row'[g].ver = row[g].ver
        BY <1>3, <2>3, <3>4 DEF Worked
      <4>2. Unsaved(g)
        BY <1>1, <3>1, <3>4 DEF Unsaved, IsSave
      <4> QED BY <1>2, <2>1, <4>1, <4>2
    <3> QED BY <3>2, <3>3, <3>4
  <2> QED BY <2>2, <2>3
<1>5. SaveThenLoad'
  <2> SUFFICES ASSUME NEW i \in DOMAIN charQ', NEW j \in DOMAIN charQ', NEW b \in Accounts,
                      charQ'[i].to = <<b, "login">>,
                      charQ'[j].op = "save", charQ'[j].g = charQ'[i].g
               PROVE  j < i
    BY DEF SaveThenLoad, IsSave, Live
  <2>1. /\ i + 1 \in DOMAIN charQ /\ j + 1 \in DOMAIN charQ
        /\ charQ'[i] = charQ[i + 1] /\ charQ'[j] = charQ[j + 1] /\ i \in Nat /\ j \in Nat
    BY <1>1
  <2>2. Live(i + 1, b) /\ IsSave(j + 1, charQ[i + 1].g)
    BY <2>1 DEF Live, IsSave
  <2>3. j + 1 < i + 1
    BY <2>1, <2>2 DEF LatestInv, SaveThenLoad
  <2> QED BY <2>1, <2>3
<1>6. FoundIsLatest'
  <2> SUFFICES ASSUME NEW b \in Accounts, Found(b)'
               PROVE  /\ \A j \in DOMAIN charQ' : ~(charQ'[j].op = "save" /\ charQ'[j].g = sess'[b].holder)
                      /\ sess'[b].login[1].ver = version'[sess'[b].holder]
    BY DEF FoundIsLatest, Unsaved, IsSave
  <2>1. CASE Found(b) /\ sess'[b].holder = sess[b].holder /\ sess'[b].login = sess[b].login
    <3>1. Unsaved(sess[b].holder) /\ sess[b].login[1].ver = version[sess[b].holder]
      BY <2>1 DEF LatestInv, FoundIsLatest
    <3> QED BY <1>1, <1>2, <2>1, <3>1 DEF Unsaved, IsSave
  <2>2. CASE /\ DidTellLoad(o) /\ b = o.a /\ sess'[b].holder = o.g /\ sess'[b].login = <<row[o.g]>>
             /\ row[o.g] # None
    <3>1. o.to = <<o.a, "login">>
      BY <2>2 DEF DidTellLoad
    <3>2. Live(1, b) /\ charQ[1].g = o.g
      BY <1>1, <2>2, <3>1 DEF Live
    <3>3. /\ sess[b] # None /\ sess[b].loading /\ sess[b].holder = o.g /\ o.g \in Guids
          /\ sess[b].player = None
      BY <1>1, <3>2, LiveFacts
    <3>4. Unsaved(o.g)
      <4> SUFFICES ASSUME NEW j \in DOMAIN charQ, IsSave(j, o.g) PROVE FALSE
        BY DEF Unsaved
      <4>1. j < 1
        BY <1>1, <3>2 DEF LatestInv, SaveThenLoad
      <4> QED BY <1>d, <4>1
    <3>5. ~InWorld(o.g)
      <4> SUFFICES ASSUME NEW c \in Accounts, sess[c] # None, sess[c].player = o.g PROVE FALSE
        BY DEF InWorld
      <4>1. sess[c].player # None
        BY <3>3, NullFacts
      <4> QED BY <3>3, <4>1, OnePlayer
    <3>6. row[o.g].ver = version[o.g]
      BY <2>2, <3>3, <3>4, <3>5 DEF LatestInv, CurrentInv
    <3>7. \A j \in DOMAIN charQ' : ~(charQ'[j].op = "save" /\ charQ'[j].g = o.g)
      BY <1>1, <3>4 DEF Unsaved, IsSave
    <3> QED BY <1>2, <2>2, <3>6, <3>7
  <2> QED BY <1>0, <2>1, <2>2 DEF WorkFacts
<1> QED BY <1>4, <1>5, <1>6 DEF LatestInv

(* Every step.                                                             *)
LEMMA NextLatest == Base /\ IdInv /\ LatestInv /\ [Next]_vars => LatestInv'
<1> SUFFICES ASSUME Base, IdInv, LatestInv, [Next]_vars PROVE LatestInv'
  OBVIOUS
<1>0. ASSUME UNCHANGED <<charQ, row, version>>,
             \A b \in Accounts : Found(b)' =>
                Found(b) /\ sess'[b].holder = sess[b].holder /\ sess'[b].login = sess[b].login,
             \A g \in Guids : InWorld(g)' <=> InWorld(g)
      PROVE  LatestInv'
  <2>1. /\ \A g : Unsaved(g)' <=> Unsaved(g)
        /\ \A k, g : LastSave(k, g)' <=> LastSave(k, g)
    BY <1>0 DEF Unsaved, LastSave, IsSave
  <2>2. CurrentInv'
    BY <1>0, <2>1 DEF LatestInv, CurrentInv
  <2>3. SaveThenLoad'
    BY <1>0 DEF LatestInv, SaveThenLoad, Live, IsSave
  <2>4. FoundIsLatest'
    BY <1>0, <2>1 DEF LatestInv, FoundIsLatest, Unsaved, IsSave
  <2> QED BY <2>2, <2>3, <2>4 DEF LatestInv
<1>1. CASE UNCHANGED vars
  <2>1. UNCHANGED <<charQ, row, version, sess>>
    BY <1>1 DEF vars
  <2> QED BY <1>0, <2>1 DEF Found, InWorld
<1>2. CASE Next
  <2>1. /\ Queued' /\ TypeOK'
        /\ \/ \E a \in Accounts : Did(a)
           \/ \E o \in CharOps : DidCharWork(o)
           \/ \E o \in LoginOps : DidLoginWork(o)
           \/ DidUpdateCount \/ DidRestart
    BY <1>2, NextDid
  <2>2. ASSUME NEW a \in Accounts, Did(a) PROVE LatestInv'
    <3>1. DidFacts(a)
      BY <2>1, <2>2, DidHasFacts
    <3> QED BY <2>1, <3>1, LatestDid
  <2>3. ASSUME NEW o \in CharOps, DidCharWork(o) PROVE LatestInv'
    BY <2>1, <2>3, LatestWork
  <2>4. CASE (\E o \in LoginOps : DidLoginWork(o)) \/ DidUpdateCount
    <3>1. Elsewhere
      BY <2>4, OthersElsewhere
    <3> QED BY <1>0, <3>1 DEF Elsewhere
  <2>5. CASE DidRestart
    <3>1. DOMAIN charQ' = {} /\ \A b \in Accounts : ~Found(b)'
      BY <2>5, RestartWorld
    <3>2. \A g \in Guids : row'[g] # None => row'[g].ver = version'[g]
      BY <2>5 DEF DidRestart, SameRow
    <3> QED BY <3>1, <3>2 DEF LatestInv, CurrentInv, SaveThenLoad, FoundIsLatest
  <2> QED BY <2>1, <2>2, <2>3, <2>4, <2>5
<1> QED BY <1>1, <1>2

(* What the step of a player coming in is, and what it reads.              *)
EntersAsSaved ==
    \A a \in Accounts :
        /\ sess'[a] # None /\ sess'[a].player # None
        /\ sess[a] = None \/ sess[a].player = None
        => version'[sess'[a].player] = version[sess'[a].player]

(* A player that comes in has the version it left with.                    *)
LEMMA StepLatest == Base /\ LatestInv /\ [Next]_vars => [EntersAsSaved]_vars
<1> SUFFICES ASSUME Base, LatestInv, Next,
                    NEW a \in Accounts, sess'[a] # None, sess'[a].player # None,
                    sess[a] = None \/ sess[a].player = None
             PROVE  version'[sess'[a].player] = version[sess'[a].player]
  BY DEF EntersAsSaved
<1>1. /\ Queued' /\ TypeOK'
      /\ \/ \E b \in Accounts : Did(b)
         \/ \E o \in CharOps : DidCharWork(o)
         \/ \E o \in LoginOps : DidLoginWork(o)
         \/ DidUpdateCount \/ DidRestart
  BY NextDid
<1>2. ASSUME NEW b \in Accounts, Did(b) PROVE version'[sess'[a].player] = version[sess'[a].player]
  <2>1. DidFacts(b)
    BY <1>1, <1>2, DidHasFacts
  <2>2. b = a
    BY <2>1 DEF DidFacts, Moved
  <2>3. ~WorldFrame(a)
    BY DEF WorldFrame
  <2>4. DidEnter(a)
    BY <2>1, <2>2, <2>3 DEF DidFacts
  <2>5. /\ sess'[a].player = sess[a].holder /\ sess[a].holder \in Guids /\ Found(a)
        /\ version' = [version EXCEPT ![sess[a].holder] = sess[a].login[1].ver]
    BY <2>4 DEF DidEnter, DidAnswer, Found
  <2>6. sess[a].login[1].ver = version[sess[a].holder]
    BY <2>5 DEF LatestInv, FoundIsLatest
  <2>7. version \in [Guids -> Nat]
    BY DEF Base, TypeOK
  <2> QED BY <2>5, <2>6, <2>7
<1>3. ASSUME NEW o \in CharOps, DidCharWork(o) PROVE FALSE
  BY <1>1, <1>3, WorkHasFacts DEF WorkFacts
<1>4. CASE (\E o \in LoginOps : DidLoginWork(o)) \/ DidUpdateCount
  BY <1>4, OthersElsewhere DEF Elsewhere
<1>5. CASE DidRestart
  BY <1>5 DEF DidRestart
<1> QED BY <1>1, <1>2, <1>3, <1>4, <1>5

(* In every run a character comes into the world as it last was there.     *)
THEOREM ComesAsItLeft == Spec => LoadedIsLatest
<1>1. ASSUME Init PROVE LatestInv
  <2>1. DOMAIN charQ = {} /\ \A a \in Accounts : ~Found(a)
    BY <1>1, InitWorld
  <2>2. \A g \in Guids : version[g] = 0 /\ (row[g] # None => row[g].ver = 0)
    BY <1>1, InitRows
  <2> QED BY <2>1, <2>2 DEF LatestInv, CurrentInv, SaveThenLoad, FoundIsLatest
<1>2. Spec => []LatestInv
  BY <1>1, NextLatest, CharactersBase, CharactersIds, PTL DEF Spec
<1>3. Spec => [][EntersAsSaved]_vars
  BY <1>2, StepLatest, CharactersBase, PTL DEF Spec
<1> QED BY <1>3 DEF LoadedIsLatest, EntersAsSaved

-----------------------------------------------------------------------------
(* The chain of a creation                                                 *)

(* What a step of a does to the creation of a.                             *)
EndsCreation(a) ==
    /\ sess'[a] # None => /\ sess'[a].info = None /\ sess'[a].create = None /\ sess'[a].stage = 0
    /\ UNCHANGED <<hasty, contended>>
KeepsCreation(a) ==
    sess[a] # None /\ sess'[a] # None /\ SameCreate(a) /\ UNCHANGED <<hasty, contended>>
Advances(a) == DidAskSum(a) \/ DidAskCount(a) \/ \E c \in Nat : DidAskInfo(a, c)
Creates(a) ==
    \/ KeepsCreation(a) \/ EndsCreation(a) \/ Advances(a)
    \/ \E n \in Names : DidAskName(a, n)

(* Every step of an account goes on with its creation in one of these      *)
(* ways.                                                                   *)
LEMMA DidCreates ==
    ASSUME Base, NEW a \in Accounts, Did(a)
    PROVE  Creates(a)
<1>n. \A s \in Sessions : s # None
  BY NullFacts
<1>1. ASSUME UNCHANGED <<sess, hasty, contended>> PROVE Creates(a)
  BY <1>1 DEF Creates, KeepsCreation, EndsCreation, SameCreate
<1>2. ASSUME sess[a] # None, sess'[a] \in Sessions, SameCreate(a), UNCHANGED <<hasty, contended>>
      PROVE  Creates(a)
  BY <1>2, <1>n DEF Creates, KeepsCreation
<1>3. ASSUME sess'[a] = NewSession \/ sess'[a] = None, UNCHANGED <<hasty, contended>> PROVE Creates(a)
  BY <1>3, NewSessionFacts DEF Creates, EndsCreation
<1>4. ASSUME DidReset(a) PROVE Creates(a)
  BY <1>4 DEF Creates, EndsCreation, DidReset, Traced
<1>5. CASE DidConnect(a) \/ DidKeep(a) \/ DidPlay(a) \/ DidSave(a)
  BY <1>1, <1>5 DEF DidConnect, DidKeep, DidPlay, DidSave, Traced
<1>6. CASE DidAdd(a)
  BY <1>3, <1>6 DEF DidAdd, Traced
<1>7. CASE DidReplace(a) \/ DidRemove(a)
  BY <1>3, <1>7 DEF DidReplace, DidRemove, DidDelete, Traced
<1>8. CASE DidDisconnect(a)
  BY <1>2, <1>8 DEF DidDisconnect, Traced
<1>9. CASE DidLogout(a)
  BY <1>2, <1>9 DEF DidLogout, Traced
<1>10. CASE DidAskEnum(a) \/ DidList(a)
  BY <1>2, <1>10 DEF DidAskEnum, DidList, Traced
<1>11. CASE DidKick(a)
  BY <1>2, <1>11 DEF DidKick, Traced
<1>12. CASE DidEnter(a) \/ DidFail(a)
  BY <1>2, <1>12 DEF DidEnter, DidFail, DidAnswer, Traced
<1>13. CASE DidRefuse(a) \/ \E c \in Nat : DidCreate(a, c)
  BY <1>4, <1>13 DEF DidRefuse, DidCreate
<1>14. CASE DidAskSum(a) \/ DidAskCount(a) \/ \E c \in Nat : DidAskInfo(a, c)
  BY <1>14 DEF Creates, Advances
<1>15. CASE \E n \in Names : DidAskName(a, n)
  BY <1>15 DEF Creates
<1>16. CASE \E g \in Guids : DidDrop(a, g)
  BY <1>1, <1>16 DEF DidDrop
<1>17. CASE \E g \in Guids : DidLoad(a, g)
  BY <1>2, <1>17 DEF DidLoad, Traced
<1> QED BY <1>5, <1>6, <1>7, <1>8, <1>9, <1>10, <1>11, <1>12, <1>13, <1>14, <1>15, <1>16, <1>17
        DEF Did

(* What a step of a adds to the queue of LoginDatabase.                    *)
LoginAdded(a) ==
    /\ \E D : Keeps(loginQ, loginQ', D)
    /\ \A i \in DOMAIN loginQ' : i > Len(loginQ) =>
          \/ loginQ'[i].to = Nobody
          \/ loginQ'[i].to = <<a, "create">> /\ DidAskSum(a)

(* The ways the queue of LoginDatabase grows.                              *)
LEMMA LoginWays ==
    ASSUME Queued, Queued', NEW a
    PROVE  /\ UNCHANGED loginQ => LoginAdded(a)
           /\ \A D : Still(loginQ, loginQ', D) => LoginAdded(a)
           /\ \A D, k, b, g, n : Grows(loginQ, loginQ', D, Op(k, b, g, n, Nobody)) => LoginAdded(a)
           /\ DidAskSum(a) => LoginAdded(a)
<1>0. loginQ \in Seq(LoginOps) /\ loginQ' \in Seq(LoginOps)
  BY DEF Queued
<1>1. ASSUME NEW D, Still(loginQ, loginQ', D) PROVE LoginAdded(a)
  <2>1. \A i \in DOMAIN loginQ' : ~(i > Len(loginQ))
    BY <1>0, <1>1, AddedOps
  <2>2. Keeps(loginQ, loginQ', D)
    BY <1>1 DEF Still
  <2> QED BY <2>1, <2>2 DEF LoginAdded
<1>2. UNCHANGED loginQ => LoginAdded(a)
  <2>1. UNCHANGED loginQ => Still(loginQ, loginQ', {})
    BY <1>0, SameFacts DEF Still
  <2> QED BY <1>1, <2>1
<1>3. ASSUME NEW D, NEW o, Grows(loginQ, loginQ', D, o),
             o.to = Nobody \/ (o.to = <<a, "create">> /\ DidAskSum(a))
      PROVE  LoginAdded(a)
  <2>1. \A i \in DOMAIN loginQ' : i > Len(loginQ) => loginQ'[i] = o
    BY <1>0, <1>3, AddedOps
  <2>2. Keeps(loginQ, loginQ', D)
    BY <1>3 DEF Grows
  <2> QED BY <2>1, <2>2, <1>3 DEF LoginAdded
<1>4. ASSUME NEW D, NEW k, NEW b, NEW g, NEW n, Grows(loginQ, loginQ', D, Op(k, b, g, n, Nobody))
      PROVE  LoginAdded(a)
  <2>1. PICK o : o = Op(k, b, g, n, Nobody)
    OBVIOUS
  <2>2. o.to = Nobody
    BY <2>1, OpFields
  <2> QED BY <1>3, <1>4, <2>1, <2>2
<1>5. ASSUME DidAskSum(a) PROVE LoginAdded(a)
  <2>1. PICK o : o = Op("sum", a, None, None, <<a, "create">>)
    OBVIOUS
  <2>2. o.to = <<a, "create">>
    BY <2>1, OpFields
  <2>3. Grows(loginQ, loginQ', {<<a, "create">>}, o)
    BY <1>5, <2>1 DEF DidAskSum
  <2> QED BY <1>3, <1>5, <2>2, <2>3
<1> QED BY <1>1, <1>2, <1>4, <1>5

(* Every step of an account adds to that queue in one of these ways.       *)
LEMMA DidLoginAdded ==
    ASSUME Base, Queued', NEW a \in Accounts, Did(a)
    PROVE  LoginAdded(a)
<1>0. /\ UNCHANGED loginQ => LoginAdded(a)
      /\ \A D : Still(loginQ, loginQ', D) => LoginAdded(a)
      /\ \A D, k, b, g, n : Grows(loginQ, loginQ', D, Op(k, b, g, n, Nobody)) => LoginAdded(a)
      /\ DidAskSum(a) => LoginAdded(a)
  BY LoginWays DEF Base
<1>1. CASE DidConnect(a) \/ DidKeep(a)
  BY <1>0, <1>1 DEF DidConnect, DidKeep
<1>2. CASE DidReplace(a) \/ DidRemove(a)
  BY <1>0, <1>2 DEF DidReplace, DidRemove, DidDelete
<1>3. CASE DidAdd(a) \/ DidDisconnect(a) \/ DidLogout(a) \/ DidPlay(a) \/ DidSave(a) \/ DidKick(a)
  BY <1>0, <1>3 DEF DidAdd, DidDisconnect, DidLogout, DidPlay, DidSave, DidKick
<1>4. CASE DidAskEnum(a) \/ DidList(a) \/ DidRefuse(a) \/ DidAskCount(a) \/ DidFail(a)
  BY <1>0, <1>4 DEF DidAskEnum, DidList, DidRefuse, DidAskCount, DidFail
<1>5. CASE DidEnter(a)
  BY <1>0, <1>5 DEF DidEnter
<1>6. CASE \E n \in Names : DidAskName(a, n)
  BY <1>0, <1>6 DEF DidAskName
<1>7. CASE \E c \in Nat : DidAskInfo(a, c)
  BY <1>0, <1>7 DEF DidAskInfo
<1>8. CASE \E c \in Nat : DidCreate(a, c)
  BY <1>0, <1>8 DEF DidCreate
<1>9. CASE \E g \in Guids : DidDrop(a, g) \/ DidLoad(a, g)
  BY <1>0, <1>9 DEF DidDrop, DidLoad
<1> QED BY <1>0, <1>1, <1>2, <1>3, <1>4, <1>5, <1>6, <1>7, <1>8, <1>9 DEF Did

(* A session that is asked by a query that was queued before.              *)
SameAsked(b) ==
    /\ sess[b] # None /\ sess[b].create = Waiting
    /\ sess'[b] # None /\ sess'[b].info = sess[b].info
    /\ sess'[b].stage = sess[b].stage /\ sess'[b].count = sess[b].count

(* An answer awaited before and after the step is the same one, or the     *)
(* request is new.                                                         *)
LEMMA AskedBefore ==
    ASSUME Base, Base', NEW a \in Accounts, Moved(a), Creates(a), NEW b \in Accounts,
           sess[b] # None, sess[b].create = Waiting, sess'[b] # None, sess'[b].create = Waiting
    PROVE  SameAsked(b) \/ (b = a /\ \E n \in Names : DidAskName(a, n))
<1>n. ~Ready(Waiting) /\ None # Waiting
  BY NullFacts DEF Ready
<1>1. CASE b # a
  BY <1>1 DEF SameAsked, Moved
<1>2. CASE b = a
  <2>1. CASE KeepsCreation(a)
    BY <1>2, <2>1 DEF SameAsked, KeepsCreation, SameCreate
  <2>2. ~EndsCreation(a)
    BY <1>2, <1>n DEF EndsCreation
  <2>3. ~Advances(a)
    BY <1>2, <1>n DEF Advances, DidAskSum, DidAskCount, DidAskInfo, DidStage
  <2> QED BY <1>2, <2>1, <2>2, <2>3 DEF Creates
<1> QED BY <1>1, <1>2

(* A query that is awaited in a creation: it was queued before, or the     *)
(* step asks it.                                                           *)
LEMMA AwaitedChar ==
    ASSUME Base, Base', NEW a \in Accounts, DidFacts(a), Creates(a),
           NEW i \in DOMAIN charQ', NEW b \in Accounts, charQ'[i].to = <<b, "create">>
    PROVE  \/ i \in DOMAIN charQ /\ SameOp(i, i) /\ Awaits(i, b) /\ SameAsked(b)
           \/ /\ b = a /\ i > Len(charQ) /\ i \notin DOMAIN charQ
              /\ \/ charQ'[i].op = "name" /\ DidAskName(a, charQ'[i].n)
                 \/ charQ'[i].op = "count" /\ DidAskCount(a)
                 \/ charQ'[i].op = "info" /\ \E c \in Nat : DidAskInfo(a, c)
<1>0. Queued /\ Queued' /\ Wired /\ Wired' /\ Added(a) /\ Moved(a)
  BY DEF Base, DidFacts
<1>1. /\ i \in Nat
      /\ \/ i \in DOMAIN charQ /\ SameOp(i, i)
         \/ i > Len(charQ) /\ i \notin DOMAIN charQ /\ NewOp(a, charQ'[i])
  BY <1>0, AddedFacts
<1>2. CASE i \in DOMAIN charQ /\ SameOp(i, i)
  <2>1. charQ[i].to = <<b, "create">>
    BY <1>2, FutureFacts DEF SameOp
  <2>2. sess[b] # None /\ sess[b].create = Waiting
    BY <1>0, <1>2, <2>1 DEF Wired, Serves
  <2>3. sess'[b] # None /\ sess'[b].create = Waiting
    BY <1>0 DEF Wired, Serves
  <2>4. ~(b = a /\ \E n \in Names : DidAskName(a, n))
    <3>1. ASSUME b = a, NEW n \in Names, DidAskName(a, n) PROVE FALSE
      <4>1. PICK o : o = Op("name", a, None, n, <<a, "create">>)
        OBVIOUS
      <4>2. Grows(charQ, charQ', {<<a, "create">>}, o)
        BY <3>1, <4>1 DEF DidAskName
      <4>3. charQ'[i].to = Nobody
        BY <1>2, <2>1, <3>1, <4>2 DEF Grows, Keeps
      <4> QED BY <4>3, FutureFacts
    <3> QED BY <3>1
  <2>5. SameAsked(b)
    BY <1>0, <2>2, <2>3, <2>4, AskedBefore
  <2> QED BY <1>2, <2>1, <2>5 DEF Awaits
<1>3. CASE i > Len(charQ) /\ i \notin DOMAIN charQ /\ NewOp(a, charQ'[i])
  <2>1. /\ charQ'[i].to = <<a, "create">>
        /\ \/ charQ'[i].op = "name" /\ DidAskName(a, charQ'[i].n)
           \/ charQ'[i].op = "count" /\ DidAskCount(a)
           \/ charQ'[i].op = "info" /\ \E c \in Nat : DidAskInfo(a, c)
    BY <1>3, FutureFacts DEF NewOp
  <2>2. b = a
    BY <2>1, FutureFacts
  <2> QED BY <1>3, <2>1, <2>2
<1> QED BY <1>1, <1>2, <1>3

(* The same for LoginDatabase.                                             *)
LEMMA AwaitedLogin ==
    ASSUME Base, Base', NEW a \in Accounts, DidFacts(a), Creates(a), LoginAdded(a),
           NEW i \in DOMAIN loginQ', NEW b \in Accounts, loginQ'[i].to = <<b, "create">>
    PROVE  \/ i \in DOMAIN loginQ /\ loginQ[i].to = <<b, "create">> /\ SameAsked(b)
           \/ b = a /\ DidAskSum(a)
<1>0. /\ Queued /\ Queued' /\ Wired /\ Wired' /\ Moved(a)
      /\ loginQ \in Seq(LoginOps) /\ loginQ' \in Seq(LoginOps)
  BY DEF Base, DidFacts, Queued
<1>1. PICK D : Keeps(loginQ, loginQ', D)
  BY DEF LoginAdded
<1>2. i \in DOMAIN loginQ \/ i > Len(loginQ)
  BY <1>0
<1>3. CASE i \in DOMAIN loginQ
  <2>1. loginQ[i].to = <<b, "create">>
    BY <1>1, <1>3, FutureFacts DEF Keeps
  <2>2. sess[b] # None /\ sess[b].create = Waiting
    BY <1>0, <1>3, <2>1 DEF Wired, Serves
  <2>3. sess'[b] # None /\ sess'[b].create = Waiting
    BY <1>0 DEF Wired, Serves
  <2>4. ~(b = a /\ \E n \in Names : DidAskName(a, n))
    <3>1. ASSUME b = a, NEW n \in Names, DidAskName(a, n) PROVE FALSE
      <4>2. Still(loginQ, loginQ', {<<a, "create">>})
        BY <3>1 DEF DidAskName
      <4>3. loginQ'[i].to = Nobody
        BY <1>3, <2>1, <3>1, <4>2 DEF Still, Keeps
      <4> QED BY <4>3, FutureFacts
    <3> QED BY <3>1
  <2>5. SameAsked(b)
    BY <1>0, <2>2, <2>3, <2>4, AskedBefore
  <2> QED BY <1>3, <2>1, <2>5
<1>4. CASE i > Len(loginQ)
  <2>1. loginQ'[i].to = Nobody \/ (loginQ'[i].to = <<a, "create">> /\ DidAskSum(a))
    BY <1>4 DEF LoginAdded
  <2> QED BY <2>1, FutureFacts
<1> QED BY <1>2, <1>3, <1>4

(* A step of an account keeps the query that is awaited the one of its     *)
(* stage.                                                                  *)
LEMMA ChainDid ==
    ASSUME Base, Base', Chain, NEW a \in Accounts, DidFacts(a), Creates(a), LoginAdded(a)
    PROVE  Chain'
<1>h. hasty \subseteq hasty'
  BY DEF Creates, KeepsCreation, EndsCreation, Advances, DidAskSum, DidAskCount, DidAskInfo,
     DidStage, DidAskName, Traced
<1>1. ASSUME NEW i \in DOMAIN charQ', NEW b \in Accounts, charQ'[i].to = <<b, "create">>,
             charQ'[i].op = "name"
      PROVE  charQ'[i].n = sess'[b].info
  <2>1. CASE i \in DOMAIN charQ /\ SameOp(i, i) /\ Awaits(i, b) /\ SameAsked(b)
    <3>1. charQ[i].op = "name" /\ charQ'[i].n = charQ[i].n
      BY <1>1, <2>1 DEF SameOp
    <3>2. charQ[i].n = sess[b].info
      BY <2>1, <3>1 DEF Chain
    <3> QED BY <2>1, <3>1, <3>2 DEF SameAsked
  <2>2. CASE b = a /\ DidAskName(a, charQ'[i].n)
    BY <2>2 DEF DidAskName
  <2> QED BY <1>1, <2>1, <2>2, AwaitedChar
<1>2. ASSUME NEW i \in DOMAIN charQ', NEW b \in Accounts \ hasty', charQ'[i].to = <<b, "create">>
      PROVE  /\ charQ'[i].op = "name" => sess'[b].stage = 0
             /\ charQ'[i].op = "count" => sess'[b].stage = 2
             /\ charQ'[i].op = "info" => sess'[b].stage = 3
  <2>0. b \in Accounts /\ b \notin hasty
    BY <1>h
  <2>1. CASE i \in DOMAIN charQ /\ SameOp(i, i) /\ Awaits(i, b) /\ SameAsked(b)
    <3>1. charQ'[i].op = charQ[i].op
      BY <2>1 DEF SameOp
    <3>2. /\ charQ[i].op = "name" => sess[b].stage = 0
          /\ charQ[i].op = "count" => sess[b].stage = 2
          /\ charQ[i].op = "info" => sess[b].stage = 3
      BY <2>0, <2>1 DEF Chain
    <3> QED BY <2>1, <3>1, <3>2 DEF SameAsked
  <2>2. CASE b = a /\ charQ'[i].op = "name" /\ DidAskName(a, charQ'[i].n)
    BY <1>2, <2>2 DEF DidAskName
  <2>3. CASE b = a /\ charQ'[i].op = "count" /\ DidAskCount(a)
    BY <2>3 DEF DidAskCount, DidStage
  <2>4. CASE b = a /\ charQ'[i].op = "info" /\ \E c \in Nat : DidAskInfo(a, c)
    BY <2>4 DEF DidAskInfo, DidStage
  <2> QED BY <1>2, <2>0, <2>1, <2>2, <2>3, <2>4, AwaitedChar
<1>3. ASSUME NEW i \in DOMAIN loginQ', NEW b \in Accounts \ hasty', loginQ'[i].to = <<b, "create">>
      PROVE  sess'[b].stage = 1
  <2>0. b \in Accounts /\ b \notin hasty
    BY <1>h
  <2>1. CASE i \in DOMAIN loginQ /\ loginQ[i].to = <<b, "create">> /\ SameAsked(b)
    BY <2>0, <2>1 DEF Chain, SameAsked
  <2>2. CASE b = a /\ DidAskSum(a)
    BY <2>2 DEF DidAskSum, DidStage
  <2> QED BY <1>3, <2>0, <2>1, <2>2, AwaitedLogin
<1> QED BY <1>1, <1>2, <1>3 DEF Chain, Awaits

(* The workers: an answer changes nothing else of a creation.              *)
Answered(b, told) ==
    sess'[b] # None =>
        /\ sess[b] # None /\ sess'[b].info = sess[b].info
        /\ sess'[b].stage = sess[b].stage /\ sess'[b].count = sess[b].count
        /\ sess'[b].create = sess[b].create \/ told

(* An answer fills the future of the creation and changes nothing else of  *)
(* it.                                                                     *)
LEMMA WorkAnswers ==
    ASSUME Base, NEW b \in Accounts
    PROVE  /\ \A o \in CharOps : DidCharWork(o) => Answered(b, DidTellCreate(o) /\ b = o.a)
           /\ \A o \in LoginOps : DidLoginWork(o) => Answered(b, DidTellSum(o) /\ b = o.a)
           /\ DidUpdateCount => Answered(b, FALSE)
<1>1. ASSUME UNCHANGED sess, NEW t PROVE Answered(b, t)
  BY <1>1 DEF Answered
<1>2. ASSUME NEW a, Moved(a), sess[a] # None, SameCreate(a), NEW t PROVE Answered(b, t)
  BY <1>2 DEF Answered, Moved, SameCreate
<1>4. ASSUME NEW o \in CharOps, DidCharWork(o) PROVE Answered(b, DidTellCreate(o) /\ b = o.a)
  <2>1. CASE DidInsert(o) \/ DidWrite(o) \/ DidErase(o) \/ DidMark(o)
    BY <1>1, <2>1 DEF DidInsert, DidWrite, DidErase, DidMark
  <2>2. CASE DidTellEnum(o)
    BY <1>2, <2>2 DEF DidTellEnum, Tells
  <2>3. CASE DidTellLoad(o)
    BY <1>2, <2>3 DEF DidTellLoad, Tells
  <2>4. CASE DidTellCreate(o)
    <3>1. TellsCreate(o)
      BY <2>4 DEF DidTellCreate
    <3> QED BY <2>4, <3>1 DEF Answered, TellsCreate, Tells, Moved
  <2> QED BY <1>4, <2>1, <2>2, <2>3, <2>4 DEF DidCharWork
<1>5. ASSUME NEW o \in LoginOps, DidLoginWork(o) PROVE Answered(b, DidTellSum(o) /\ b = o.a)
  <2>1. CASE DidRecord(o)
    BY <1>1, <2>1 DEF DidRecord
  <2>2. CASE DidTellSum(o)
    <3>1. TellsCreate(o)
      BY <2>2 DEF DidTellSum
    <3> QED BY <2>2, <3>1 DEF Answered, TellsCreate, Tells, Moved
  <2> QED BY <1>5, <2>1, <2>2 DEF DidLoginWork
<1>6. DidUpdateCount => UNCHANGED sess
  BY DEF DidUpdateCount
<1>7. DidUpdateCount => Answered(b, FALSE)
  BY <1>6 DEF Answered
<1> QED BY <1>4, <1>5, <1>7

(* Every query that is awaited after such a step was awaited before.       *)
LEMMA ChainWork ==
    ASSUME Base, Base', Chain, UNCHANGED hasty,
           \A b \in Accounts : \E t : Answered(b, t),
           \A k \in DOMAIN charQ' : \E i \in DOMAIN charQ : charQ'[k] = charQ[i],
           \A k \in DOMAIN loginQ' : loginQ'[k].to = Nobody \/
                                     \E i \in DOMAIN loginQ : loginQ'[k] = loginQ[i]
    PROVE  Chain'
<1>0. Wired'
  BY DEF Base
<1>1. ASSUME NEW b \in Accounts, sess'[b] # None
      PROVE  sess'[b].info = sess[b].info /\ sess'[b].stage = sess[b].stage
  BY <1>1 DEF Answered
<1>2. ASSUME NEW k \in DOMAIN charQ', NEW b \in Accounts, charQ'[k].to = <<b, "create">>
      PROVE  /\ charQ'[k].op = "name" => charQ'[k].n = sess'[b].info
             /\ b \notin hasty => /\ charQ'[k].op = "name" => sess'[b].stage = 0
                                  /\ charQ'[k].op = "count" => sess'[b].stage = 2
                                  /\ charQ'[k].op = "info" => sess'[b].stage = 3
  <2>1. sess'[b] # None
    BY <1>0, <1>2 DEF Wired, Serves
  <2>2. PICK i \in DOMAIN charQ : charQ'[k] = charQ[i]
    OBVIOUS
  <2>3. Awaits(i, b)
    BY <1>2, <2>2 DEF Awaits
  <2> QED BY <1>1, <2>1, <2>2, <2>3 DEF Chain
<1>3. ASSUME NEW k \in DOMAIN loginQ', NEW b \in Accounts \ hasty, loginQ'[k].to = <<b, "create">>
      PROVE  sess'[b].stage = 1
  <2>1. sess'[b] # None
    BY <1>0, <1>3 DEF Wired, Serves
  <2>2. PICK i \in DOMAIN loginQ : loginQ'[k] = loginQ[i]
    BY <1>3, FutureFacts
  <2> QED BY <1>1, <1>3, <2>1, <2>2 DEF Chain
<1> QED BY <1>2, <1>3 DEF Chain, Awaits

(* Every step.                                                             *)
LEMMA NextChain == Base /\ Chain /\ [Next]_vars => Chain'
<1> SUFFICES ASSUME Base, Chain, [Next]_vars PROVE Chain'
  OBVIOUS
<1>b. Base'
  BY NextBase
<1>1. CASE UNCHANGED vars
  <2>1. UNCHANGED <<charQ, loginQ, sess, hasty>>
    BY <1>1 DEF vars, history
  <2> QED BY <2>1 DEF Chain, Awaits
<1>2. CASE Next
  <2>0. Queued /\ Queued' /\ TypeOK' /\ Wired
    BY <1>b DEF Base
  <2>1. \/ \E a \in Accounts : Did(a)
        \/ \E o \in CharOps : DidCharWork(o)
        \/ \E o \in LoginOps : DidLoginWork(o)
        \/ DidUpdateCount \/ DidRestart
    BY <1>2, NextDid
  <2>2. ASSUME NEW a \in Accounts, Did(a) PROVE Chain'
    <3>1. DidFacts(a) /\ Creates(a) /\ LoginAdded(a)
      BY <2>0, <2>2, DidHasFacts, DidCreates, DidLoginAdded
    <3> QED BY <1>b, <3>1, ChainDid
  <2>3. ASSUME NEW o \in CharOps, DidCharWork(o) PROVE Chain'
    <3>1. \A b \in Accounts : \E t : Answered(b, t)
      BY <2>3, WorkAnswers
    <3>2. Pops(o)
      BY <2>0, <2>3, WorkHasFacts DEF WorkFacts
    <3>3. UNCHANGED <<loginQ, hasty>>
      BY <3>2 DEF Pops, Traced
    <3>4. \A k \in DOMAIN charQ' : \E i \in DOMAIN charQ : charQ'[k] = charQ[i]
      BY <2>0, <3>2, PopFacts
    <3> QED BY <1>b, <3>1, <3>3, <3>4, ChainWork
  <2>4. ASSUME NEW o \in LoginOps, DidLoginWork(o) PROVE Chain'
    <3>1. \A b \in Accounts : \E t : Answered(b, t)
      BY <2>4, WorkAnswers
    <3>2. PopsLogin(o)
      BY <2>4 DEF DidLoginWork, DidRecord, DidTellSum
    <3>3. UNCHANGED <<charQ, hasty>>
      BY <3>2 DEF PopsLogin, Traced
    <3>4. \A k \in DOMAIN loginQ' : \E i \in DOMAIN loginQ : loginQ'[k] = loginQ[i]
      BY <2>0, <3>2, PopLoginFacts
    <3> QED BY <1>b, <3>1, <3>3, <3>4, ChainWork
  <2>5. CASE DidUpdateCount
    <3>1. \A b \in Accounts : \E t : Answered(b, t)
      BY <2>5, WorkAnswers
    <3>2. UNCHANGED <<charQ, hasty>>
      BY <2>5 DEF DidUpdateCount, Traced
    <3>3. \A k \in DOMAIN loginQ' : loginQ'[k].to = Nobody \/ \E i \in DOMAIN loginQ : loginQ'[k] = loginQ[i]
      <4>1. Keeps(loginQ, loginQ', {}) /\ \A i \in DOMAIN loginQ' : i > Len(loginQ) => loginQ'[i].to = Nobody
        BY <2>5 DEF DidUpdateCount, OnlyWrites
      <4>2. loginQ \in Seq(LoginOps) /\ loginQ' \in Seq(LoginOps)
        BY <2>0 DEF Queued
      <4>3. ASSUME NEW k \in DOMAIN loginQ, k \in DOMAIN loginQ' PROVE loginQ'[k] = loginQ[k]
        <5>1. loginQ[k] \in OpSet /\ loginQ'[k] \in OpSet
          BY <4>2, <4>3 DEF LoginOps
        <5>2. /\ loginQ'[k].op = loginQ[k].op /\ loginQ'[k].a = loginQ[k].a
              /\ loginQ'[k].g = loginQ[k].g /\ loginQ'[k].n = loginQ[k].n
              /\ loginQ'[k].to = loginQ[k].to
          BY <4>1, <4>3 DEF Keeps
        <5> QED BY <5>1, <5>2 DEF OpSet
      <4>4. \A k \in DOMAIN loginQ' : k \in DOMAIN loginQ \/ k > Len(loginQ)
        BY <4>2
      <4> QED BY <4>1, <4>3, <4>4
    <3>4. \A k \in DOMAIN charQ' : \E i \in DOMAIN charQ : charQ'[k] = charQ[i]
      BY <3>2
    <3> QED BY <1>b, <3>1, <3>2, <3>3, <3>4, ChainWork
  <2>6. CASE DidRestart
    <3>1. DOMAIN charQ' = {} /\ DOMAIN loginQ' = {}
      BY <2>6 DEF DidRestart
    <3> QED BY <3>1 DEF Chain
  <2> QED BY <2>1, <2>2, <2>3, <2>4, <2>5, <2>6
<1> QED BY <1>1, <1>2

(* The chain of a creation holds in every run.                             *)
LEMMA CharactersChain == Spec => []Chain
<1>1. Init => Chain
  BY InitWorld DEF Chain
<1> QED BY <1>1, NextChain, CharactersBase, PTL DEF Spec

-----------------------------------------------------------------------------
(* The number of characters of an account                                  *)

(* The characters of an account are finitely many identifiers.             *)
LEMMA CharactersFacts ==
    ASSUME Queued, NEW a
    PROVE  /\ Characters(a) \subseteq Guids /\ IsFiniteSet(Characters(a))
           /\ Cardinality(Characters(a)) \in Nat
<1>1. \A i \in DOMAIN charQ : charQ[i].op = "insert" => charQ[i].g \in Guids
  <2> TAKE i \in DOMAIN charQ
  <2>1. charQ[i] \in CharOps
    BY DEF Queued
  <2> QED BY <2>1 DEF CharOps, CharOp
<1>2. Characters(a) \subseteq Guids
  BY <1>1, OfAccountFacts DEF Characters
<1>3. IsFiniteSet(Guids)
  BY LimitsAssumption, FS_Interval DEF Guids
<1>4. IsFiniteSet(Characters(a))
  BY <1>2, <1>3, FS_Subset
<1> QED BY <1>2, <1>4, FS_CardinalityType

(* How the number of characters changes with the set.                      *)
LEMMA FewerCharacters ==
    ASSUME Queued, Queued', NEW a
    PROVE  /\ Cardinality(Characters(a)) \in Nat /\ Cardinality(Characters(a)') \in Nat
           /\ Characters(a)' \subseteq Characters(a) =>
                 Cardinality(Characters(a)') <= Cardinality(Characters(a))
           /\ \A g : Characters(a)' \subseteq Characters(a) \cup {g} =>
                 Cardinality(Characters(a)') <= Cardinality(Characters(a)) + 1
<1>p. PICK S : S = Characters(a)
  OBVIOUS
<1>q. PICK T : T = Characters(a)'
  OBVIOUS
<1>1. IsFiniteSet(S) /\ Cardinality(S) \in Nat
  BY <1>p, CharactersFacts
<1>2. T \subseteq Guids
  <2>1. \A i \in DOMAIN charQ' : charQ'[i].op = "insert" => charQ'[i].g \in Guids
    <3> TAKE i \in DOMAIN charQ'
    <3>1. charQ'[i] \in CharOps
      BY DEF Queued
    <3> QED BY <3>1 DEF CharOps, CharOp
  <2> QED BY <1>q, <2>1 DEF Characters, OfAccount
<1>3. IsFiniteSet(T)
  <2>1. IsFiniteSet(Guids)
    BY LimitsAssumption, FS_Interval DEF Guids
  <2> QED BY <1>2, <2>1, FS_Subset
<1>4. Cardinality(T) \in Nat
  BY <1>3, FS_CardinalityType
<1>5. T \subseteq S => Cardinality(T) <= Cardinality(S)
  BY <1>1, FS_Subset
<1>6. ASSUME NEW g, T \subseteq S \cup {g} PROVE Cardinality(T) <= Cardinality(S) + 1
  <2>1. /\ IsFiniteSet(S \cup {g})
        /\ Cardinality(S \cup {g}) = IF g \in S THEN Cardinality(S) ELSE Cardinality(S) + 1
    BY <1>1, FS_AddElement
  <2>2. Cardinality(T) <= Cardinality(S \cup {g})
    BY <1>6, <2>1, FS_Subset
  <2> QED BY <1>1, <1>4, <2>1, <2>2
<1> QED BY <1>p, <1>q, <1>1, <1>4, <1>5, <1>6

(* A step of a adds a character to a only when it stores one.              *)
LEMMA DidCharacters ==
    ASSUME Base, Queued', NEW a \in Accounts, DidFacts(a), NEW b \in Accounts
    PROVE  \/ Characters(b)' \subseteq Characters(b)
           \/ /\ b = a /\ \E c \in Nat : DidCreate(a, c)
              /\ Characters(b)' \subseteq Characters(b) \cup {nextGuid}
<1>0. Queued /\ Added(a) /\ row' = row
  BY DEF Base, DidFacts
<1>1. \A i \in DOMAIN charQ' : \/ i \in DOMAIN charQ /\ SameOp(i, i)
                               \/ NewOp(a, charQ'[i])
  BY <1>0, AddedFacts
<1>2. \A g \in Characters(b)' :
         g \in OfAccount(b) \/ \E i \in DOMAIN charQ' : charQ'[i].op = "insert" /\ charQ'[i].a = b /\ charQ'[i].g = g
  BY <1>0 DEF Characters, OfAccount
<1>3. \A i \in DOMAIN charQ : charQ[i].op = "insert" /\ charQ[i].a = b => charQ[i].g \in Characters(b)
  BY DEF Characters
<1>4. OfAccount(b) \subseteq Characters(b)
  BY DEF Characters
<1>5. \A g \in Characters(b)' : \/ g \in Characters(b)
                                \/ b = a /\ g = nextGuid /\ \E c \in Nat : DidCreate(a, c)
  <2> TAKE g \in Characters(b)'
  <2>1. ASSUME NEW i \in DOMAIN charQ', charQ'[i].op = "insert", charQ'[i].a = b, charQ'[i].g = g
        PROVE  \/ g \in Characters(b)
               \/ b = a /\ g = nextGuid /\ \E c \in Nat : DidCreate(a, c)
    <3>1. CASE i \in DOMAIN charQ /\ SameOp(i, i)
      BY <1>3, <2>1, <3>1 DEF SameOp
    <3>2. CASE NewOp(a, charQ'[i])
      BY <2>1, <3>2 DEF NewOp
    <3> QED BY <1>1, <3>1, <3>2
  <2> QED BY <1>2, <1>4, <2>1
<1> QED BY <1>5

(* A step of an account: a character is added after a count that was below *)
(* the limit and is still right.                                           *)
LEMMA LimitDid ==
    ASSUME Base, Base', LimitInv, NEW a \in Accounts, DidFacts(a), Creates(a)
    PROVE  LimitInv'
<1>0. Queued /\ Queued' /\ Added(a) /\ Moved(a) /\ PerRealm \in Nat
  BY LimitsAssumption DEF Base, DidFacts
<1>n. ~Ready(Waiting)
  BY DEF Ready
<1>h. hasty \subseteq hasty'
  BY DEF Creates, KeepsCreation, EndsCreation, Advances, DidAskSum, DidAskCount, DidAskInfo,
     DidStage, DidAskName, Traced
<1>1. /\ Len(charQ) \in Nat
      /\ \A i \in DOMAIN charQ : i \in Nat /\ i <= Len(charQ)
      /\ \A i \in DOMAIN charQ' :
            /\ i \in Nat
            /\ \/ i \in DOMAIN charQ /\ SameOp(i, i)
               \/ i > Len(charQ) /\ i \notin DOMAIN charQ /\ NewOp(a, charQ'[i])
  BY <1>0, AddedFacts
<1>2. \A c : DidCreate(a, c) => /\ sess[a] # None /\ Ready(sess[a].create)
                                /\ sess'[a].stage = 0
  BY DEF DidCreate, DidReset
<1>3. ASSUME NEW b \in Accounts, b \notin hasty', NEW i \in DOMAIN charQ', NEW j \in DOMAIN charQ',
             charQ'[i].to = <<b, "create">>, charQ'[i].op = "count",
             charQ'[j].op = "insert", charQ'[j].a = b
      PROVE  j < i
  <2>0. b \notin hasty
    BY <1>3, <1>h
  <2>1. CASE j \in DOMAIN charQ /\ SameOp(j, j)
    <3>1. InsertBy(j, b) /\ j \in Nat /\ j <= Len(charQ)
      BY <1>1, <1>3, <2>1 DEF SameOp, InsertBy
    <3>2. CASE i \in DOMAIN charQ /\ SameOp(i, i) /\ Awaits(i, b)
      <4>1. charQ[i].op = "count"
        BY <1>3, <3>2 DEF SameOp
      <4> QED BY <2>0, <2>1, <3>1, <3>2, <4>1 DEF LimitInv
    <3>3. CASE i > Len(charQ)
      BY <1>1, <3>1, <3>3
    <3> QED BY <1>3, <3>2, <3>3, AwaitedChar
  <2>2. CASE NewOp(a, charQ'[j])
    <3>1. b = a /\ \E c \in Nat : DidCreate(a, c)
      BY <1>3, <2>2 DEF NewOp
    <3>2. sess[a] # None /\ Ready(sess[a].create) /\ sess'[a].stage = 0
      BY <1>2, <3>1
    <3>3. ~SameAsked(b)
      BY <1>n, <3>1, <3>2 DEF SameAsked
    <3>4. ~DidAskCount(a)
      BY <3>2 DEF DidAskCount, DidStage
    <3> QED BY <1>3, <3>3, <3>4, AwaitedChar
  <2> QED BY <1>1, <2>1, <2>2
<1>4. ASSUME NEW b \in Accounts, b \notin hasty', sess'[b] # None
      PROVE  /\ sess'[b].stage = 2 /\ Ready(sess'[b].create) =>
                   sess'[b].create.rows /\ Cardinality(Characters(b)') <= sess'[b].create.num
             /\ sess'[b].stage = 3 =>
                   sess'[b].count < PerRealm /\ Cardinality(Characters(b)') <= sess'[b].count
  <2>0. b \notin hasty
    BY <1>4, <1>h
  <2>1. CASE b = a /\ \E c \in Nat : DidCreate(a, c)
    BY <1>2, <2>1
  <2>2. CASE ~(b = a /\ \E c \in Nat : DidCreate(a, c))
    <3>1. Characters(b)' \subseteq Characters(b)
      BY <1>0, <2>2, DidCharacters
    <3>2. /\ Cardinality(Characters(b)) \in Nat /\ Cardinality(Characters(b)') \in Nat
          /\ Cardinality(Characters(b)') <= Cardinality(Characters(b))
      BY <1>0, <3>1, FewerCharacters
    <3>3. sess[b] # None =>
             /\ sess[b].stage = 2 /\ Ready(sess[b].create) =>
                   sess[b].create.rows /\ Cardinality(Characters(b)) <= sess[b].create.num
             /\ sess[b].stage = 3 =>
                   sess[b].count < PerRealm /\ Cardinality(Characters(b)) <= sess[b].count
      BY <2>0 DEF LimitInv
    <3>4. sess[b] # None => sess[b].count \in Nat /\ (Ready(sess[b].create) => sess[b].create.num \in Nat)
      BY BaseFacts DEF Answers
    <3>5. CASE /\ sess[b] # None /\ sess'[b].stage = sess[b].stage
               /\ sess'[b].create = sess[b].create /\ sess'[b].count = sess[b].count
      BY <3>2, <3>3, <3>4, <3>5
    <3>6. CASE b # a
      BY <1>0, <1>4, <3>5, <3>6 DEF Moved
    <3>7. CASE b = a
      <4>1. CASE KeepsCreation(a)
        BY <3>5, <3>7, <4>1 DEF KeepsCreation, SameCreate
      <4>2. CASE EndsCreation(a)
        BY <1>4, <3>7, <4>2 DEF EndsCreation
      <4>3. CASE DidAskSum(a) \/ DidAskCount(a)
        BY <1>n, <3>7, <4>3 DEF DidAskSum, DidAskCount, DidStage
      <4>4. ASSUME NEW c \in Nat, DidAskInfo(a, c)
            PROVE  sess'[b].stage = 3 /\ sess'[b].count < PerRealm
                   /\ Cardinality(Characters(b)') <= sess'[b].count
        <5>1. /\ sess[a] # None /\ Ready(sess[a].create) /\ sess[a].stage = 3 - 1
              /\ sess'[a].stage = 3 /\ sess'[a].count = c /\ c < PerRealm /\ Counted(a, c)
          BY <4>4 DEF DidAskInfo, DidStage
        <5>2. sess[a].create.rows /\ Cardinality(Characters(b)) <= sess[a].create.num
          BY <3>3, <3>7, <5>1
        <5>3. c = sess[a].create.num
          BY <5>1, <5>2 DEF Counted
        <5> QED BY <3>2, <3>7, <5>1, <5>2, <5>3
      <4>5. CASE \E n \in Names : DidAskName(a, n)
        BY <1>4, <3>7, <4>5 DEF DidAskName
      <4> QED BY <4>1, <4>2, <4>3, <4>4, <4>5 DEF Creates, Advances
    <3> QED BY <3>6, <3>7
  <2> QED BY <2>1, <2>2
<1>5. ASSUME NEW b \in Accounts, b \notin hasty' PROVE Cardinality(Characters(b)') <= PerRealm
  <2>0. b \notin hasty
    BY <1>5, <1>h
  <2>1. Cardinality(Characters(b)) <= PerRealm
    BY <2>0 DEF LimitInv, RealmLimit
  <2>2. /\ Cardinality(Characters(b)) \in Nat /\ Cardinality(Characters(b)') \in Nat
        /\ Characters(b)' \subseteq Characters(b) =>
              Cardinality(Characters(b)') <= Cardinality(Characters(b))
        /\ \A g : Characters(b)' \subseteq Characters(b) \cup {g} =>
              Cardinality(Characters(b)') <= Cardinality(Characters(b)) + 1
    BY <1>0, FewerCharacters
  <2>3. CASE Characters(b)' \subseteq Characters(b)
    BY <1>0, <2>1, <2>2, <2>3
  <2>4. ASSUME b = a, NEW c \in Nat, DidCreate(a, c),
               Characters(b)' \subseteq Characters(b) \cup {nextGuid}
        PROVE  Cardinality(Characters(b)') <= PerRealm
    <3>1. sess[a] # None /\ Ready(sess[a].create)
      BY <1>2, <2>4
    <3>2. /\ sess[a].stage = 2 /\ Ready(sess[a].create) =>
                sess[a].create.rows /\ Cardinality(Characters(a)) <= sess[a].create.num
          /\ sess[a].stage = 3 =>
                sess[a].count < PerRealm /\ Cardinality(Characters(a)) <= sess[a].count
      BY <2>0, <2>4, <3>1 DEF LimitInv
    <3>3. Cardinality(Characters(a)) <= c /\ c < PerRealm
      <4>1. CASE sess[a].stage = 2 /\ Counted(a, c) /\ c < PerRealm
        BY <3>1, <3>2, <4>1 DEF Counted
      <4>2. CASE sess[a].stage = 3 /\ c = sess[a].count
        BY <3>2, <4>2
      <4> QED BY <2>4, <4>1, <4>2 DEF DidCreate
    <3>4. Cardinality(Characters(b)') <= Cardinality(Characters(b)) + 1
      BY <2>2, <2>4
    <3> QED BY <1>0, <2>2, <2>4, <3>3, <3>4
  <2> QED BY <1>0, <2>3, <2>4, DidCharacters
<1> QED BY <1>3, <1>4, <1>5 DEF LimitInv, RealmLimit, Awaits, InsertBy

(* The worker stores what was queued; it adds nothing.                     *)
LEMMA WorkCharacters ==
    ASSUME Base, Queued', TypeOK', NEW o \in CharOps, DidCharWork(o), NEW b \in Accounts
    PROVE  Characters(b)' \subseteq Characters(b)
<1>0. /\ 1 \in DOMAIN charQ /\ o = charQ[1]
      /\ \A i \in DOMAIN charQ' : i + 1 \in DOMAIN charQ /\ charQ'[i] = charQ[i + 1]
  <2>1. Queued /\ Wired /\ Pops(o)
    BY WorkHasFacts DEF Base, WorkFacts
  <2> QED BY <2>1, PopFacts
<1>1. \A i \in DOMAIN charQ : charQ[i].op = "insert" /\ charQ[i].a = b => charQ[i].g \in Characters(b)
  BY DEF Characters
<1>2. ASSUME NEW g \in Guids, row'[g] # None, row'[g].acct = b PROVE g \in Characters(b)
  <2>1. CASE o.op = "insert" /\ o.g = g
    <3>1. row'[g] = Row(o.a, o.n)
      BY <2>1, WorkRow
    <3>2. o.a = b
      BY <1>2, <3>1 DEF Row
    <3> QED BY <1>0, <1>1, <2>1, <3>2
  <2>2. CASE ~(o.op = "insert" /\ o.g = g)
    <3>1. row[g] # None /\ row'[g].acct = row[g].acct
      BY <1>2, <2>2, WorkRow
    <3> QED BY <1>2, <3>1 DEF Characters, OfAccount
  <2> QED BY <2>1, <2>2
<1>3. \A i \in DOMAIN charQ' : charQ'[i].op = "insert" /\ charQ'[i].a = b => charQ'[i].g \in Characters(b)
  BY <1>0, <1>1
<1> QED BY <1>2, <1>3 DEF Characters, OfAccount

(* The worker: the count it answers is the number stored, and nothing of   *)
(* that account is about to be.                                            *)
LEMMA LimitWork ==
    ASSUME Base, Base', Chain, LimitInv, NEW o \in CharOps, DidCharWork(o)
    PROVE  LimitInv'
<1>0. TypeOK' /\ Queued /\ Queued' /\ Wired /\ PerRealm \in Nat
  BY LimitsAssumption DEF Base
<1>p. Pops(o)
  BY <1>0, WorkHasFacts DEF WorkFacts
<1>1. /\ 1 \in DOMAIN charQ /\ o = charQ[1] /\ o.a \in Accounts
      /\ \A i \in DOMAIN charQ' : i \in Nat /\ i + 1 \in DOMAIN charQ /\ charQ'[i] = charQ[i + 1]
  BY <1>0, <1>p, PopFacts
<1>d. \A i \in DOMAIN charQ : i \in Nat /\ i >= 1
  BY <1>0 DEF Queued
<1>h. hasty' = hasty
  BY <1>p DEF Pops, Traced
<1>2. \A b \in Accounts : /\ Cardinality(Characters(b)) \in Nat /\ Cardinality(Characters(b)') \in Nat
                          /\ Cardinality(Characters(b)') <= Cardinality(Characters(b))
  BY <1>0, WorkCharacters, FewerCharacters
<1>3. ASSUME NEW b \in Accounts, b \notin hasty', NEW i \in DOMAIN charQ', NEW j \in DOMAIN charQ',
             charQ'[i].to = <<b, "create">>, charQ'[i].op = "count",
             charQ'[j].op = "insert", charQ'[j].a = b
      PROVE  j < i
  <2>1. /\ i + 1 \in DOMAIN charQ /\ j + 1 \in DOMAIN charQ
        /\ charQ'[i] = charQ[i + 1] /\ charQ'[j] = charQ[j + 1] /\ i \in Nat /\ j \in Nat
    BY <1>1
  <2>2. Awaits(i + 1, b) /\ InsertBy(j + 1, b) /\ charQ[i + 1].op = "count"
    BY <1>3, <2>1 DEF Awaits, InsertBy
  <2>3. j + 1 < i + 1
    BY <1>h, <1>3, <2>1, <2>2 DEF LimitInv
  <2> QED BY <2>1, <2>3
<1>4. ASSUME NEW b \in Accounts, b \notin hasty', sess'[b] # None
      PROVE  /\ sess'[b].stage = 2 /\ Ready(sess'[b].create) =>
                   sess'[b].create.rows /\ Cardinality(Characters(b)') <= sess'[b].create.num
             /\ sess'[b].stage = 3 =>
                   sess'[b].count < PerRealm /\ Cardinality(Characters(b)') <= sess'[b].count
  <2>1. /\ sess[b] # None /\ sess'[b].stage = sess[b].stage /\ sess'[b].count = sess[b].count
        /\ sess'[b].create = sess[b].create \/ (DidTellCreate(o) /\ b = o.a)
    <3>1. Answered(b, DidTellCreate(o) /\ b = o.a)
      BY WorkAnswers
    <3> QED BY <1>4, <3>1 DEF Answered
  <2>2. /\ sess[b].stage = 2 /\ Ready(sess[b].create) =>
              sess[b].create.rows /\ Cardinality(Characters(b)) <= sess[b].create.num
        /\ sess[b].stage = 3 =>
              sess[b].count < PerRealm /\ Cardinality(Characters(b)) <= sess[b].count
    BY <1>h, <1>4, <2>1 DEF LimitInv
  <2>3. sess[b].count \in Nat /\ (Ready(sess[b].create) => sess[b].create.num \in Nat)
    BY <2>1, BaseFacts DEF Answers
  <2>4. sess'[b].stage = 3 =>
           sess'[b].count < PerRealm /\ Cardinality(Characters(b)') <= sess'[b].count
    BY <1>2, <2>1, <2>2, <2>3
  <2>5. CASE sess'[b].create = sess[b].create
    BY <1>2, <2>1, <2>2, <2>3, <2>4, <2>5
  <2>6. CASE DidTellCreate(o) /\ b = o.a
    <3>1. ASSUME sess'[b].stage = 2
          PROVE  sess'[b].create.rows /\ Cardinality(Characters(b)') <= sess'[b].create.num
      <4>1. /\ o.to = <<b, "create">> /\ o.op \in {"name", "count", "info"}
            /\ sess'[b].create = CharAnswer(o)
        BY <2>6 DEF DidTellCreate, TellsCreate
      <4>2. Awaits(1, b)
        BY <1>1, <4>1 DEF Awaits
      <4>3. o.op = "count"
        <5>1. /\ o.op = "name" => sess[b].stage = 0
              /\ o.op = "info" => sess[b].stage = 3
          BY <1>1, <1>h, <1>4, <4>2 DEF Chain
        <5> QED BY <2>1, <3>1, <4>1, <5>1
      <4>4. sess'[b].create = Answer(TRUE, Cardinality(OfAccount(b)), 0)
        BY <2>6, <4>1, <4>3 DEF CharAnswer
      <4>5. sess'[b].create.rows /\ sess'[b].create.num = Cardinality(OfAccount(b))
        BY <4>4 DEF Answer
      <4>6. \A j \in DOMAIN charQ : ~InsertBy(j, b)
        <5> SUFFICES ASSUME NEW j \in DOMAIN charQ, InsertBy(j, b) PROVE FALSE
          OBVIOUS
        <5>1. j < 1
          BY <1>1, <1>h, <1>4, <4>2, <4>3 DEF LimitInv
        <5> QED BY <1>d, <5>1
      <4>7. Characters(b) = OfAccount(b)
        BY <4>6 DEF Characters, InsertBy
      <4> QED BY <1>2, <4>5, <4>7
    <3> QED BY <2>4, <3>1
  <2> QED BY <2>1, <2>5, <2>6
<1>5. ASSUME NEW b \in Accounts, b \notin hasty' PROVE Cardinality(Characters(b)') <= PerRealm
  <2>1. Cardinality(Characters(b)) <= PerRealm
    BY <1>h, <1>5 DEF LimitInv, RealmLimit
  <2> QED BY <1>0, <1>2, <2>1
<1> QED BY <1>3, <1>4, <1>5 DEF LimitInv, RealmLimit, Awaits, InsertBy

(* Every step.                                                             *)
LEMMA NextLimit == Base /\ Chain /\ LimitInv /\ [Next]_vars => LimitInv'
<1> SUFFICES ASSUME Base, Chain, LimitInv, [Next]_vars PROVE LimitInv'
  OBVIOUS
<1>b. Base'
  BY NextBase
<1>0. ASSUME UNCHANGED <<charQ, row, hasty>>,
             \A b \in Accounts : b \notin hasty /\ sess'[b] # None =>
                /\ sess[b] # None /\ sess'[b].stage = sess[b].stage /\ sess'[b].count = sess[b].count
                /\ sess[b].stage = 2 => sess'[b].create = sess[b].create
      PROVE  LimitInv'
  <2>1. \A b : Characters(b)' = Characters(b)
    BY <1>0 DEF Characters, OfAccount
  <2>2. RealmLimit'
    BY <1>0, <2>1 DEF LimitInv, RealmLimit
  <2>3. \A b \in Accounts \ hasty', i, j \in DOMAIN charQ' :
           Awaits(i, b)' /\ charQ'[i].op = "count" /\ InsertBy(j, b)' => j < i
    BY <1>0 DEF LimitInv, Awaits, InsertBy
  <2>4. \A b \in Accounts \ hasty' : sess'[b] # None =>
           /\ sess'[b].stage = 2 /\ Ready(sess'[b].create) =>
                 sess'[b].create.rows /\ Cardinality(Characters(b)') <= sess'[b].create.num
           /\ sess'[b].stage = 3 =>
                 sess'[b].count < PerRealm /\ Cardinality(Characters(b)') <= sess'[b].count
    BY <1>0, <2>1 DEF LimitInv
  <2> QED BY <2>2, <2>3, <2>4 DEF LimitInv
<1>1. CASE UNCHANGED vars
  <2>1. UNCHANGED <<charQ, row, hasty, sess>>
    BY <1>1 DEF vars, history, database
  <2> QED BY <1>0, <2>1
<1>2. CASE Next
  <2>0. Queued /\ Queued' /\ TypeOK' /\ Wired
    BY <1>b DEF Base
  <2>1. \/ \E a \in Accounts : Did(a)
        \/ \E o \in CharOps : DidCharWork(o)
        \/ \E o \in LoginOps : DidLoginWork(o)
        \/ DidUpdateCount \/ DidRestart
    BY <1>2, NextDid
  <2>2. ASSUME NEW a \in Accounts, Did(a) PROVE LimitInv'
    <3>1. DidFacts(a) /\ Creates(a)
      BY <2>0, <2>2, DidHasFacts, DidCreates
    <3> QED BY <1>b, <3>1, LimitDid
  <2>3. ASSUME NEW o \in CharOps, DidCharWork(o) PROVE LimitInv'
    BY <1>b, <2>3, LimitWork
  <2>4. ASSUME NEW o \in LoginOps, DidLoginWork(o) PROVE LimitInv'
    <3>1. \A b \in Accounts : Answered(b, DidTellSum(o) /\ b = o.a)
      BY <2>4, WorkAnswers
    <3>2. PopsLogin(o)
      BY <2>4 DEF DidLoginWork, DidRecord, DidTellSum
    <3>3. UNCHANGED <<charQ, row, hasty>>
      BY <3>2 DEF PopsLogin, Traced
    <3>4. 1 \in DOMAIN loginQ /\ o = loginQ[1]
      BY <2>0, <3>2, PopLoginFacts
    <3>5. \A b \in Accounts : b \notin hasty /\ DidTellSum(o) /\ b = o.a => sess[b].stage = 1
      <4>1. DidTellSum(o) => o.to = <<o.a, "create">>
        BY DEF DidTellSum, TellsCreate
      <4> QED BY <3>4, <4>1 DEF Chain
    <3>6. \A b \in Accounts : b \notin hasty /\ sess'[b] # None =>
             /\ sess[b] # None /\ sess'[b].stage = sess[b].stage /\ sess'[b].count = sess[b].count
             /\ sess[b].stage = 2 => sess'[b].create = sess[b].create
      BY <3>1, <3>5 DEF Answered
    <3> QED BY <1>0, <3>3, <3>6
  <2>5. CASE DidUpdateCount
    <3>1. UNCHANGED <<charQ, row, hasty, sess>>
      BY <2>5 DEF DidUpdateCount, Stored, Traced
    <3> QED BY <1>0, <3>1
  <2>6. CASE DidRestart
    <3>1. DOMAIN charQ' = {} /\ \A b \in Accounts : sess'[b] = None
      BY <2>6 DEF DidRestart
    <3>2. hasty' = hasty /\ \A g \in Guids : SameRow(g)
      BY <2>6 DEF DidRestart, Traced
    <3>3. \A b : Characters(b)' \subseteq Characters(b)
      BY <3>1, <3>2 DEF Characters, OfAccount, SameRow
    <3>4. RealmLimit'
      <4> SUFFICES ASSUME NEW b \in Accounts, b \notin hasty PROVE Cardinality(Characters(b)') <= PerRealm
        BY <3>2 DEF RealmLimit
      <4>1. Cardinality(Characters(b)) <= PerRealm /\ PerRealm \in Nat
        BY LimitsAssumption DEF LimitInv, RealmLimit
      <4>2. /\ Cardinality(Characters(b)) \in Nat /\ Cardinality(Characters(b)') \in Nat
            /\ Cardinality(Characters(b)') <= Cardinality(Characters(b))
        BY <2>0, <3>3, FewerCharacters
      <4> QED BY <4>1, <4>2
    <3> QED BY <3>1, <3>4 DEF LimitInv
  <2> QED BY <2>1, <2>2, <2>3, <2>4, <2>5, <2>6
<1> QED BY <1>1, <1>2

(* In every run an account that does not ask for a creation in the middle  *)
(* of another has at most CharactersPerRealm characters, the ones about to *)
(* be stored included.                                                     *)
THEOREM LimitHolds == Spec => []RealmLimit
<1>1. ASSUME Init PROVE LimitInv
  <2>1. DOMAIN charQ = {} /\ \A a \in Accounts : sess[a].stage = 0
    BY <1>1, InitWorld
  <2>2. \A g \in Guids : (row[g] # None <=> Owner[g] # None) /\ (row[g] # None => row[g].acct = Owner[g])
    BY <1>1, InitRows
  <2>3. \A a \in Accounts : Characters(a) = {g \in Guids : Owner[g] = a}
    BY <2>1, <2>2, NullFacts DEF Characters, OfAccount
  <2>4. RealmLimit
    BY <2>3, LimitsAssumption DEF RealmLimit
  <2> QED BY <2>1, <2>4 DEF LimitInv
<1>2. LimitInv => RealmLimit
  BY DEF LimitInv
<1> QED BY <1>1, <1>2, NextLimit, CharactersBase, CharactersChain, PTL DEF Spec

-----------------------------------------------------------------------------
(* Names                                                                   *)

(* Who asks for a name after a step of a: who did before, or a just now.   *)
LEMMA DidAsks ==
    ASSUME Base, Base', NEW a \in Accounts, DidFacts(a), Creates(a), NEW n \in Names, NEW b \in Accounts,
           Asks(b, n)'
    PROVE  \/ Asks(b, n) /\ ~(b = a /\ \E c \in Nat : DidCreate(a, c))
           \/ b = a /\ DidAskName(a, n)
<1>1. sess'[b] # None /\ sess'[b].info = n /\ n # None
  BY NullFacts DEF Asks
<1>2. CASE b # a
  BY <1>1, <1>2 DEF DidFacts, Moved, Asks
<1>3. CASE b = a
  <2>1. ~(\E c \in Nat : DidCreate(a, c))
    BY <1>1, <1>3 DEF DidCreate, DidReset
  <2>2. CASE KeepsCreation(a)
    BY <1>1, <1>3, <2>1, <2>2 DEF KeepsCreation, SameCreate, Asks
  <2>3. CASE EndsCreation(a)
    BY <1>1, <1>3, <2>3 DEF EndsCreation
  <2>4. CASE Advances(a)
    BY <1>1, <1>3, <2>1, <2>4 DEF Advances, DidAskSum, DidAskCount, DidAskInfo, DidStage, Asks
  <2>5. CASE \E m \in Names : DidAskName(a, m)
    BY <1>1, <1>3, <2>5 DEF DidAskName
  <2> QED BY <2>2, <2>3, <2>4, <2>5 DEF Creates
<1> QED BY <1>2, <1>3

(* A named row in the queue after a step of a: it was there, or a has just *)
(* created it.                                                             *)
LEMMA DidInserts ==
    ASSUME Base, Base', NEW a \in Accounts, DidFacts(a), NEW i \in DOMAIN charQ', NEW n \in Names,
           charQ'[i].op = "insert", charQ'[i].n = n
    PROVE  \/ i \in DOMAIN charQ /\ SameOp(i, i) /\ NamedInsert(i, n)
           \/ /\ i = Len(charQ) + 1 /\ charQ'[i].a = a /\ Asks(a, n)
              /\ \E c \in Nat : DidCreate(a, c)
<1>0. Queued /\ Queued' /\ Added(a)
  BY DEF Base, DidFacts
<1>1. /\ Len(charQ) \in Nat /\ i \in Nat
      /\ \/ i \in DOMAIN charQ /\ SameOp(i, i)
         \/ i > Len(charQ) /\ NewOp(a, charQ'[i])
  BY <1>0, AddedFacts
<1>2. CASE i \in DOMAIN charQ /\ SameOp(i, i)
  BY <1>2 DEF NamedInsert, SameOp
<1>3. CASE i > Len(charQ) /\ NewOp(a, charQ'[i])
  <2>1. PICK c \in Nat : DidCreate(a, c) /\ charQ'[i].a = a /\ n = sess[a].info
    BY <1>3 DEF NewOp
  <2>2. sess[a] # None /\ Len(charQ') = Len(charQ) + 1
    BY <2>1 DEF DidCreate, DidReset, Grows
  <2>3. i <= Len(charQ')
    BY <1>0 DEF Queued
  <2>4. i = Len(charQ) + 1
    BY <1>1, <1>3, <2>2, <2>3
  <2> QED BY <2>1, <2>2, <2>4 DEF Asks
<1> QED BY <1>1, <1>2, <1>3

(* A step of an account keeps the names that were answered free unused.    *)
LEMMA NamesDid ==
    ASSUME Base, Base', NameInv, NEW a \in Accounts, DidFacts(a), Creates(a)
    PROVE  NameInv'
<1>0. UNCHANGED row /\ Moved(a)
  BY DEF DidFacts
<1>h. hasty \subseteq hasty' /\ contended \subseteq contended'
  BY DEF Creates, KeepsCreation, EndsCreation, Advances, DidAskSum, DidAskCount, DidAskInfo,
     DidStage, DidAskName, Traced
<1>n. ~Ready(Waiting)
  BY DEF Ready
<1>1. ASSUME NEW n \in Names, n \notin contended', DidAskName(a, n)
      PROVE  /\ \A b \in Accounts : ~Asks(b, n)
             /\ \A i \in DOMAIN charQ : ~NamedInsert(i, n)
             /\ \A c : ~DidCreate(a, c)
  <2>1. ~BeingCreated(n)
    BY <1>1 DEF DidAskName
  <2>2. \A c : ~DidCreate(a, c)
    BY <1>1, NullFacts DEF DidAskName, DidCreate, DidReset
  <2> QED BY <2>1, <2>2 DEF BeingCreated, Asks, NamedInsert
<1>2. ASSUME NEW n \in Names, n \notin contended'
      PROVE  /\ \A b, c \in Accounts : Asks(b, n)' /\ Asks(c, n)' => b = c
             /\ \A b \in Accounts, i \in DOMAIN charQ' :
                   Asks(b, n)' => ~(charQ'[i].op = "insert" /\ charQ'[i].n = n)
             /\ \A i, j \in DOMAIN charQ' :
                   charQ'[i].op = "insert" /\ charQ'[i].n = n /\ charQ'[j].op = "insert" /\ charQ'[j].n = n
                      => i = j
  <2>0. n \notin contended
    BY <1>h, <1>2
  <2>1. /\ \A b, c \in Accounts : Asks(b, n) /\ Asks(c, n) => b = c
        /\ \A b \in Accounts, i \in DOMAIN charQ : Asks(b, n) => ~NamedInsert(i, n)
        /\ \A i, j \in DOMAIN charQ : NamedInsert(i, n) /\ NamedInsert(j, n) => i = j
    BY <2>0 DEF NameInv, OneCreation
  <2>2. \A b \in Accounts : Asks(b, n)' =>
           \/ Asks(b, n) /\ ~(b = a /\ \E c \in Nat : DidCreate(a, c))
           \/ b = a /\ DidAskName(a, n)
    BY DidAsks
  <2>3. \A i \in DOMAIN charQ' : charQ'[i].op = "insert" /\ charQ'[i].n = n =>
           \/ i \in DOMAIN charQ /\ NamedInsert(i, n)
           \/ /\ i = Len(charQ) + 1 /\ Asks(a, n)
              /\ \E c \in Nat : DidCreate(a, c)
    BY DidInserts
  <2>4. DidAskName(a, n) => /\ \A b \in Accounts : ~Asks(b, n)
                            /\ \A i \in DOMAIN charQ : ~NamedInsert(i, n)
                            /\ \A c : ~DidCreate(a, c)
    BY <1>1, <1>2
  <2>5. \A b, c \in Accounts : Asks(b, n)' /\ Asks(c, n)' => b = c
    BY <2>1, <2>2, <2>4
  <2>6. \A b \in Accounts, i \in DOMAIN charQ' :
           Asks(b, n)' => ~(charQ'[i].op = "insert" /\ charQ'[i].n = n)
    BY <2>1, <2>2, <2>3, <2>4
  <2>7. \A i, j \in DOMAIN charQ' :
           charQ'[i].op = "insert" /\ charQ'[i].n = n /\ charQ'[j].op = "insert" /\ charQ'[j].n = n
              => i = j
    <3> SUFFICES ASSUME NEW i \in DOMAIN charQ', NEW j \in DOMAIN charQ',
                        charQ'[i].op = "insert", charQ'[i].n = n,
                        charQ'[j].op = "insert", charQ'[j].n = n
                 PROVE  i = j
      OBVIOUS
    <3>1. \/ i \in DOMAIN charQ /\ NamedInsert(i, n)
          \/ i = Len(charQ) + 1 /\ Asks(a, n)
      BY <2>3
    <3>2. \/ j \in DOMAIN charQ /\ NamedInsert(j, n)
          \/ j = Len(charQ) + 1 /\ Asks(a, n)
      BY <2>3
    <3>3. Asks(a, n) => \A k \in DOMAIN charQ : ~NamedInsert(k, n)
      BY <2>1
    <3> QED BY <2>1, <3>1, <3>2, <3>3
  <2> QED BY <2>5, <2>6, <2>7
<1>3. ASSUME NEW n \in Names, n \notin contended', NEW b \in Accounts, b \notin hasty',
             Asks(b, n)', Passed(b)'
      PROVE  Unused(n)
  <2>0. n \notin contended /\ b \notin hasty
    BY <1>h, <1>3
  <2>1. SUFFICES Asks(b, n) /\ Passed(b)
    BY <2>0 DEF NameInv
  <2>2. /\ sess'[b] # None
        /\ sess'[b].stage # 0 \/ (Ready(sess'[b].create) /\ ~sess'[b].create.rows)
    BY <1>3 DEF Asks, Passed
  <2>3. ~(b = a /\ DidAskName(a, n))
    BY <1>3, <1>n, <2>2 DEF DidAskName
  <2>4. Asks(b, n)
    BY <1>3, <2>3, DidAsks
  <2>5. Passed(b)
    <3>1. CASE b # a
      BY <1>0, <2>2, <3>1 DEF Moved, Passed
    <3>2. CASE b = a /\ KeepsCreation(a)
      BY <2>2, <3>2 DEF KeepsCreation, SameCreate, Passed
    <3>3. CASE b = a /\ EndsCreation(a)
      BY <1>3, <3>3, NullFacts DEF EndsCreation, Asks
    <3>4. CASE b = a /\ DidAskSum(a)
      BY <3>4 DEF DidAskSum, DidStage, Passed
    <3>5. CASE b = a /\ (DidAskCount(a) \/ \E c \in Nat : DidAskInfo(a, c))
      BY <3>5 DEF DidAskCount, DidAskInfo, DidStage, Passed
    <3>6. CASE b = a /\ \E m \in Names : DidAskName(a, m)
      BY <1>3, <1>n, <2>2, <3>6 DEF DidAskName
    <3> QED BY <3>1, <3>2, <3>3, <3>4, <3>5, <3>6 DEF Creates, Advances
  <2> QED BY <2>4, <2>5
<1>4. ASSUME NEW n \in Names, n \notin contended', NEW i \in DOMAIN charQ', charQ'[i].op = "insert",
             charQ'[i].n = n, charQ'[i].a \notin hasty'
      PROVE  Unused(n)
  <2>0. n \notin contended /\ charQ'[i].a \notin hasty
    BY <1>h, <1>4
  <2>1. CASE i \in DOMAIN charQ /\ SameOp(i, i) /\ NamedInsert(i, n)
    BY <2>0, <2>1 DEF NameInv, SameOp
  <2>2. ASSUME charQ'[i].a = a, Asks(a, n), NEW c \in Nat, DidCreate(a, c) PROVE Unused(n)
    <3>1. Passed(a)
      BY <2>2 DEF DidCreate, Passed
    <3> QED BY <2>0, <2>2, <3>1 DEF NameInv
  <2> QED BY <1>4, <2>1, <2>2, DidInserts
<1>5. \A n : Unused(n)' <=> Unused(n)
  BY <1>0 DEF Unused
<1>6. NamesUnique'
  BY <1>0, <1>h DEF NameInv, NamesUnique
<1>7. OneCreation'
  BY <1>2 DEF OneCreation, NamedInsert
<1>8. \A n \in Names \ contended' :
         /\ \A b \in Accounts \ hasty' : Asks(b, n)' /\ Passed(b)' => Unused(n)'
         /\ \A i \in DOMAIN charQ' :
               charQ'[i].op = "insert" /\ charQ'[i].n = n /\ charQ'[i].a \notin hasty' => Unused(n)'
  BY <1>3, <1>4, <1>5
<1> QED BY <1>6, <1>7, <1>8 DEF NameInv, NamedInsert

(* The worker.                                                             *)
LEMMA NamesWork ==
    ASSUME Base, Base', Chain, NameInv, NEW o \in CharOps, DidCharWork(o)
    PROVE  NameInv'
<1>0. TypeOK' /\ Queued /\ Queued' /\ Wired
  BY DEF Base
<1>p. Pops(o)
  BY <1>0, WorkHasFacts DEF WorkFacts
<1>1. /\ 1 \in DOMAIN charQ /\ o = charQ[1] /\ o.a \in Accounts
      /\ \A i \in DOMAIN charQ' : i \in Nat /\ i + 1 \in DOMAIN charQ /\ charQ'[i] = charQ[i + 1]
  BY <1>0, <1>p, PopFacts
<1>d. \A i \in DOMAIN charQ' : i + 1 # 1
  BY <1>0 DEF Queued
<1>h. hasty' = hasty /\ contended' = contended
  BY <1>p DEF Pops, Traced
<1>2. \A b \in Accounts : Answered(b, DidTellCreate(o) /\ b = o.a)
  BY WorkAnswers
<1>3. \A n : \A b \in Accounts : Asks(b, n)' => Asks(b, n)
  BY <1>2 DEF Asks, Answered
<1>4. ASSUME NEW n, Unused(n), ~NamedInsert(1, n) PROVE Unused(n)'
  <2> SUFFICES ASSUME NEW g \in Guids, row'[g] # None PROVE row'[g].name # n
    BY DEF Unused
  <2>1. CASE o.op = "insert" /\ o.g = g
    <3>1. row'[g] = Row(o.a, o.n)
      BY <2>1, WorkRow
    <3>2. row'[g].name = o.n
      BY <3>1 DEF Row
    <3> QED BY <1>1, <1>4, <2>1, <3>2 DEF NamedInsert
  <2>2. CASE ~(o.op = "insert" /\ o.g = g)
    <3>1. row[g] # None /\ row'[g].name = row[g].name
      BY <2>2, WorkRow
    <3> QED BY <1>4, <3>1 DEF Unused
  <2> QED BY <2>1, <2>2
<1>5. OneCreation'
  <2> SUFFICES ASSUME NEW n \in Names, n \notin contended
               PROVE  /\ \A b, c \in Accounts : Asks(b, n)' /\ Asks(c, n)' => b = c
                      /\ \A b \in Accounts, i \in DOMAIN charQ' :
                            Asks(b, n)' => ~(charQ'[i].op = "insert" /\ charQ'[i].n = n)
                      /\ \A i, j \in DOMAIN charQ' :
                            charQ'[i].op = "insert" /\ charQ'[i].n = n /\ charQ'[j].op = "insert" /\ charQ'[j].n = n
                               => i = j
    BY <1>h DEF OneCreation, NamedInsert
  <2>1. /\ \A b, c \in Accounts : Asks(b, n) /\ Asks(c, n) => b = c
        /\ \A b \in Accounts, i \in DOMAIN charQ : Asks(b, n) => ~NamedInsert(i, n)
        /\ \A i, j \in DOMAIN charQ : NamedInsert(i, n) /\ NamedInsert(j, n) => i = j
    BY DEF NameInv, OneCreation
  <2>2. \A i \in DOMAIN charQ' : charQ'[i].op = "insert" /\ charQ'[i].n = n => NamedInsert(i + 1, n)
    BY <1>1 DEF NamedInsert
  <2>3. \A i, j \in DOMAIN charQ' : i + 1 = j + 1 => i = j
    BY <1>1
  <2>4. \A b, c \in Accounts : Asks(b, n)' /\ Asks(c, n)' => b = c
    BY <1>3, <2>1
  <2>5. \A b \in Accounts, i \in DOMAIN charQ' :
           Asks(b, n)' => ~(charQ'[i].op = "insert" /\ charQ'[i].n = n)
    BY <1>1, <1>3, <2>1, <2>2
  <2>6. \A i, j \in DOMAIN charQ' :
           charQ'[i].op = "insert" /\ charQ'[i].n = n /\ charQ'[j].op = "insert" /\ charQ'[j].n = n
              => i = j
    <3> SUFFICES ASSUME NEW i \in DOMAIN charQ', NEW j \in DOMAIN charQ',
                        charQ'[i].op = "insert", charQ'[i].n = n,
                        charQ'[j].op = "insert", charQ'[j].n = n
                 PROVE  i = j
      OBVIOUS
    <3>1. /\ i + 1 \in DOMAIN charQ /\ NamedInsert(i + 1, n)
          /\ j + 1 \in DOMAIN charQ /\ NamedInsert(j + 1, n)
      BY <1>1, <2>2
    <3>2. i + 1 = j + 1
      BY <2>1, <3>1
    <3> QED BY <2>3, <3>2
  <2> QED BY <2>4, <2>5, <2>6
<1>6. ASSUME NEW n \in Names, n \notin contended, NEW b \in Accounts, b \notin hasty,
             Asks(b, n)', Passed(b)'
      PROVE  Unused(n)'
  <2>1. Asks(b, n)
    BY <1>3, <1>6
  <2>2. ~NamedInsert(1, n)
    BY <1>1, <1>6, <2>1 DEF NameInv, OneCreation
  <2>3. SUFFICES Unused(n)
    BY <1>4, <2>2
  <2>4. /\ sess'[b] # None
        /\ sess'[b].stage # 0 \/ (Ready(sess'[b].create) /\ ~sess'[b].create.rows)
    BY <1>6 DEF Asks, Passed
  <2>5. /\ sess[b] # None /\ sess'[b].info = sess[b].info /\ sess'[b].stage = sess[b].stage
        /\ sess'[b].create = sess[b].create \/ (DidTellCreate(o) /\ b = o.a)
    BY <1>2, <2>4 DEF Answered
  <2>6. CASE Passed(b)
    BY <1>6, <2>1, <2>6 DEF NameInv
  <2>7. CASE ~Passed(b)
    <3>1. sess[b].stage = 0 /\ DidTellCreate(o) /\ b = o.a /\ ~sess'[b].create.rows
      BY <2>4, <2>5, <2>7 DEF Passed
    <3>2. /\ o.to = <<b, "create">> /\ o.op \in {"name", "count", "info"}
          /\ sess'[b].create = CharAnswer(o)
      BY <3>1 DEF DidTellCreate, TellsCreate
    <3>3. Awaits(1, b)
      BY <1>1, <3>2 DEF Awaits
    <3>4. o.op = "name"
      <4>1. /\ o.op = "count" => sess[b].stage = 2
            /\ o.op = "info" => sess[b].stage = 3
        BY <1>1, <1>6, <3>3 DEF Chain
      <4> QED BY <3>1, <3>2, <4>1
    <3>5. o.n = n
      <4>1. o.n = sess[b].info
        BY <1>1, <3>3, <3>4 DEF Chain
      <4> QED BY <2>1, <4>1 DEF Asks
    <3>6. sess'[b].create = Answer(\E g \in Guids : row[g] # None /\ row[g].name = o.n, 1, 0)
      BY <3>2, <3>4 DEF CharAnswer
    <3>7. \A v : Answer(v, 1, 0).rows = v
      BY DEF Answer
    <3>8. ~(\E g \in Guids : row[g] # None /\ row[g].name = o.n)
      BY <3>1, <3>6, <3>7
    <3> QED BY <3>5, <3>8 DEF Unused
  <2> QED BY <2>6, <2>7
<1>7. ASSUME NEW n \in Names, n \notin contended, NEW i \in DOMAIN charQ', charQ'[i].op = "insert",
             charQ'[i].n = n, charQ'[i].a \notin hasty
      PROVE  Unused(n)'
  <2>1. i + 1 \in DOMAIN charQ /\ NamedInsert(i + 1, n) /\ charQ[i + 1].a \notin hasty /\ i + 1 # 1
    BY <1>1, <1>d, <1>7 DEF NamedInsert
  <2>2. Unused(n)
    BY <1>7, <2>1 DEF NameInv
  <2>3. ~NamedInsert(1, n)
    BY <1>1, <1>7, <2>1 DEF NameInv, OneCreation
  <2> QED BY <1>4, <2>2, <2>3
<1>8. NamesUnique'
  <2>1. ASSUME NEW g \in Guids, NEW h \in Guids, g # h, row'[g] # None, row'[h] # None,
               row'[g].name = row'[h].name, o.op = "insert", o.g = g
        PROVE  row'[g].name \in contended \/ row'[g].acct \in hasty
    <3>1. row'[g] = Row(o.a, o.n) /\ o.n \in Names
      BY <2>1, WorkRow DEF CharOps, CharOp
    <3>2. row'[g].name = o.n /\ row'[g].acct = o.a
      BY <3>1 DEF Row
    <3>3. row[h] # None /\ row[h].name = o.n
      BY <2>1, <3>2, WorkRow
    <3>4. ~Unused(o.n)
      BY <3>3 DEF Unused
    <3>5. NamedInsert(1, o.n) /\ charQ[1].a = o.a
      BY <1>1, <2>1 DEF NamedInsert
    <3> QED BY <1>1, <3>1, <3>2, <3>4, <3>5 DEF NameInv
  <2>2. ASSUME NEW g \in Guids, NEW h \in Guids, g # h, row'[g] # None, row'[h] # None,
               row'[g].name = row'[h].name,
               ~(o.op = "insert" /\ o.g = g), ~(o.op = "insert" /\ o.g = h)
        PROVE  row'[g].name \in contended \/ row'[g].acct \in hasty \/ row'[h].acct \in hasty
    <3>1. /\ row[g] # None /\ row'[g].acct = row[g].acct /\ row'[g].name = row[g].name
          /\ row[h] # None /\ row'[h].acct = row[h].acct /\ row'[h].name = row[h].name
      BY <2>2, WorkRow
    <3> QED BY <2>2, <3>1 DEF NameInv, NamesUnique
  <2> QED BY <1>h, <2>1, <2>2 DEF NamesUnique
<1> QED BY <1>h, <1>5, <1>6, <1>7, <1>8 DEF NameInv, NamedInsert

(* Every step.                                                             *)
LEMMA NextNames == Base /\ Chain /\ NameInv /\ [Next]_vars => NameInv'
<1> SUFFICES ASSUME Base, Chain, NameInv, [Next]_vars PROVE NameInv'
  OBVIOUS
<1>b. Base'
  BY NextBase
<1>0. ASSUME UNCHANGED <<charQ, row, hasty, contended>>,
             \A b \in Accounts : sess'[b] # None => sess[b] # None /\ sess'[b].info = sess[b].info,
             \A b \in Accounts : b \notin hasty /\ sess'[b] # None /\ Passed(b)' => Passed(b)
      PROVE  NameInv'
  <2>1. \A n : \A b \in Accounts : Asks(b, n)' => Asks(b, n) /\ sess'[b] # None
    BY <1>0 DEF Asks
  <2>2. OneCreation'
    BY <1>0, <2>1 DEF NameInv, OneCreation, NamedInsert
  <2>3. NamesUnique'
    BY <1>0 DEF NameInv, NamesUnique
  <2>4. \A n : Unused(n)' <=> Unused(n)
    BY <1>0 DEF Unused
  <2>5. \A n \in Names \ contended' :
           /\ \A b \in Accounts \ hasty' : Asks(b, n)' /\ Passed(b)' => Unused(n)'
           /\ \A i \in DOMAIN charQ' :
                 charQ'[i].op = "insert" /\ charQ'[i].n = n /\ charQ'[i].a \notin hasty' => Unused(n)'
    BY <1>0, <2>1, <2>4 DEF NameInv, NamedInsert
  <2> QED BY <2>2, <2>3, <2>5 DEF NameInv, NamedInsert
<1>1. ASSUME UNCHANGED <<charQ, row, hasty, contended, sess>> PROVE NameInv'
  BY <1>0, <1>1 DEF Passed
<1>2. CASE UNCHANGED vars
  BY <1>1, <1>2 DEF vars
<1>3. CASE Next
  <2>0. Queued /\ Queued' /\ TypeOK' /\ Wired
    BY <1>b DEF Base
  <2>1. \/ \E a \in Accounts : Did(a)
        \/ \E o \in CharOps : DidCharWork(o)
        \/ \E o \in LoginOps : DidLoginWork(o)
        \/ DidUpdateCount \/ DidRestart
    BY <1>3, NextDid
  <2>2. ASSUME NEW a \in Accounts, Did(a) PROVE NameInv'
    <3>1. DidFacts(a) /\ Creates(a)
      BY <2>0, <2>2, DidHasFacts, DidCreates
    <3> QED BY <1>b, <3>1, NamesDid
  <2>3. ASSUME NEW o \in CharOps, DidCharWork(o) PROVE NameInv'
    BY <1>b, <2>3, NamesWork
  <2>4. ASSUME NEW o \in LoginOps, DidLoginWork(o) PROVE NameInv'
    <3>1. \A b \in Accounts : Answered(b, DidTellSum(o) /\ b = o.a)
      BY <2>4, WorkAnswers
    <3>2. PopsLogin(o)
      BY <2>4 DEF DidLoginWork, DidRecord, DidTellSum
    <3>3. UNCHANGED <<charQ, row, hasty, contended>>
      BY <3>2 DEF PopsLogin, Traced
    <3>4. 1 \in DOMAIN loginQ /\ o = loginQ[1]
      BY <2>0, <3>2, PopLoginFacts
    <3>5. \A b \in Accounts : b \notin hasty /\ DidTellSum(o) /\ b = o.a => sess[b].stage = 1
      <4>1. DidTellSum(o) => o.to = <<o.a, "create">>
        BY DEF DidTellSum, TellsCreate
      <4> QED BY <3>4, <4>1 DEF Chain
    <3>6. \A b \in Accounts : sess'[b] # None => sess[b] # None /\ sess'[b].info = sess[b].info
      BY <3>1 DEF Answered
    <3>7. \A b \in Accounts : b \notin hasty /\ sess'[b] # None /\ Passed(b)' => Passed(b)
      BY <3>1, <3>5 DEF Answered, Passed
    <3> QED BY <1>0, <3>3, <3>6, <3>7
  <2>5. CASE DidUpdateCount
    BY <1>1, <2>5 DEF DidUpdateCount, Stored, Traced
  <2>6. CASE DidRestart
    <3>1. DOMAIN charQ' = {} /\ \A b \in Accounts : sess'[b] = None
      BY <2>6 DEF DidRestart
    <3>2. hasty' = hasty /\ contended' = contended /\ \A g \in Guids : SameRow(g)
      BY <2>6 DEF DidRestart, Traced
    <3>3. NamesUnique'
      BY <3>2 DEF NameInv, NamesUnique, SameRow
    <3>4. \A n : \A b \in Accounts : ~Asks(b, n)'
      BY <3>1 DEF Asks
    <3> QED BY <3>1, <3>3, <3>4 DEF NameInv, OneCreation
  <2> QED BY <2>1, <2>2, <2>3, <2>4, <2>5, <2>6
<1> QED BY <1>2, <1>3

(* In every run two characters of one name were created by requests that   *)
(* overlapped, or by an account that asked in the middle of another        *)
(* creation.                                                               *)
THEOREM NamesAreUnique == Spec => []NamesUnique
<1>1. ASSUME Init PROVE NameInv
  <2>1. DOMAIN charQ = {} /\ \A a \in Accounts : sess[a].info = None
    BY <1>1, InitWorld
  <2>2. \A g \in Guids : row[g] # None => row[g].name = g
    BY <1>1, InitRows
  <2>3. NamesUnique
    BY <2>2 DEF NamesUnique
  <2>4. \A a \in Accounts, n \in Names : ~Asks(a, n)
    BY <2>1, NullFacts DEF Asks
  <2> QED BY <2>1, <2>3, <2>4 DEF NameInv, OneCreation
<1>2. NameInv => NamesUnique
  BY DEF NameInv
<1> QED BY <1>1, <1>2, NextNames, CharactersBase, CharactersChain, PTL DEF Spec
=============================================================================
