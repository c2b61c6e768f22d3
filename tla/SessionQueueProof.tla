------------------------- MODULE SessionQueueProof -------------------------
(***************************************************************************)
(* Proofs about SessionQueue, for every set of accounts and sessions and   *)
(* every limit.                                                            *)
(***************************************************************************)
EXTENDS SessionQueue, SequenceTheorems, FiniteSetTheorems, TLAPS

Distinct(q) == \A j, k \in DOMAIN q : q[j] = q[k] => j = k

-----------------------------------------------------------------------------
(* Lemmas about the login queue as a sequence.                             *)

(* The elements of the sequence that remains after one is erased.          *)
LEMMA RemoveAtElements ==
    ASSUME NEW S, NEW q \in Seq(S), NEW k \in 1 .. Len(q)
    PROVE  /\ RemoveAt(q, k) \in Seq(S)
           /\ Len(RemoveAt(q, k)) = Len(q) - 1
           /\ \A i \in 1 .. (Len(q) - 1) :
                 RemoveAt(q, k)[i] = IF i < k THEN q[i] ELSE q[i + 1]
<1> DEFINE l == SubSeq(q, 1, k - 1)
           r == SubSeq(q, k + 1, Len(q))
<1>1. /\ l \in Seq(S) /\ Len(l) = k - 1
      /\ \A i \in 1 .. (k - 1) : l[i] = q[i]
  OBVIOUS
<1>2. /\ r \in Seq(S) /\ Len(r) = Len(q) - k
      /\ \A i \in 1 .. (Len(q) - k) : r[i] = q[k + i]
  OBVIOUS
<1> HIDE DEF l, r
<1>3. RemoveAt(q, k) = l \o r
  BY DEF RemoveAt, l, r
<1>4. l \o r \in Seq(S) /\ Len(l \o r) = Len(q) - 1
  <2>1. l \o r \in Seq(S) /\ Len(l \o r) = Len(l) + Len(r)
    BY <1>1, <1>2, ConcatProperties
  <2>2. Len(q) \in Nat /\ k \in Int
    OBVIOUS
  <2> QED BY <1>1, <1>2, <2>1, <2>2
<1>5. ASSUME NEW i \in 1 .. (Len(q) - 1)
      PROVE  (l \o r)[i] = IF i < k THEN q[i] ELSE q[i + 1]
  <2>1. CASE i < k BY <1>1, <1>2, <2>1
  <2>2. CASE ~(i < k)
    <3>1. /\ Len(q) \in Nat /\ k \in Int /\ i \in Int
          /\ i - (k - 1) \in 1 .. (Len(q) - k)
      BY <2>2
    <3>2. (l \o r)[i] = r[i - (k - 1)]
      BY <1>1, <1>2, <2>2, <3>1, SMTT(30)
    <3>3. r[i - (k - 1)] = q[k + (i - (k - 1))] /\ k + (i - (k - 1)) = i + 1
      BY <1>2, <3>1
    <3> QED BY <2>2, <3>2, <3>3
  <2> QED BY <2>1, <2>2
<1> QED BY <1>3, <1>4, <1>5

(* Erasing an element of a queue without repetitions removes just it.      *)
LEMMA RemoveAtSet ==
    ASSUME NEW S, NEW q \in Seq(S), NEW k \in 1 .. Len(q), Distinct(q)
    PROVE  /\ Distinct(RemoveAt(q, k))
           /\ ToSet(RemoveAt(q, k)) = ToSet(q) \ {q[k]}
<1> DEFINE p == RemoveAt(q, k)
<1>1. /\ p \in Seq(S) /\ Len(p) = Len(q) - 1
      /\ DOMAIN p = 1 .. (Len(q) - 1) /\ DOMAIN q = 1 .. Len(q)
      /\ \A i \in 1 .. (Len(q) - 1) : p[i] = IF i < k THEN q[i] ELSE q[i + 1]
  BY RemoveAtElements
<1> HIDE DEF p
<1>2. Distinct(p)
  <2> SUFFICES ASSUME NEW i \in DOMAIN p, NEW j \in DOMAIN p, p[i] = p[j]
               PROVE  i = j
    BY DEF Distinct
  <2> DEFINE from(n) == IF n < k THEN n ELSE n + 1
  <2>1. /\ p[i] = q[from(i)] /\ from(i) \in DOMAIN q
        /\ p[j] = q[from(j)] /\ from(j) \in DOMAIN q
    BY <1>1
  <2>2. from(i) = from(j)
    BY <2>1 DEF Distinct
  <2> QED BY <1>1, <2>2
<1>3. ASSUME NEW x \in ToSet(p) PROVE x \in ToSet(q) \ {q[k]}
  <2>1. PICK i \in 1 .. (Len(q) - 1) : p[i] = x
    BY <1>1 DEF ToSet
  <2>2. CASE i < k
    <3>1. /\ i \in DOMAIN q /\ q[i] = x
          /\ k \in DOMAIN q /\ k # i
      BY <1>1, <2>1, <2>2
    <3> QED BY <3>1 DEF ToSet, Distinct
  <2>3. CASE ~(i < k)
    <3>1. /\ i + 1 \in DOMAIN q /\ q[i + 1] = x
          /\ k \in DOMAIN q /\ k # i + 1
      BY <1>1, <2>1, <2>3
    <3> QED BY <3>1 DEF ToSet, Distinct
  <2> QED BY <2>2, <2>3
<1>4. ASSUME NEW x \in ToSet(q) \ {q[k]} PROVE x \in ToSet(p)
  <2>1. PICK i \in 1 .. Len(q) : q[i] = x /\ i # k
    BY <1>1 DEF ToSet
  <2>2. CASE i < k
    <3>1. i \in DOMAIN p /\ p[i] = x
      BY <1>1, <2>1, <2>2
    <3> QED BY <3>1 DEF ToSet
  <2>3. CASE ~(i < k)
    <3>1. i - 1 \in DOMAIN p /\ p[i - 1] = x
      BY <1>1, <2>1, <2>3
    <3> QED BY <3>1 DEF ToSet
  <2> QED BY <2>2, <2>3
<1> QED BY <1>2, <1>3, <1>4 DEF p

(* The same for its first element.                                         *)
LEMMA TailSet ==
    ASSUME NEW S, NEW q \in Seq(S), q # <<>>, Distinct(q)
    PROVE  /\ Tail(q) \in Seq(S)
           /\ Distinct(Tail(q))
           /\ Head(q) \in ToSet(q)
           /\ ToSet(Tail(q)) = ToSet(q) \ {Head(q)}
<1>1. /\ Tail(q) \in Seq(S) /\ Len(Tail(q)) = Len(q) - 1 /\ Len(q) > 0
      /\ DOMAIN Tail(q) = 1 .. (Len(q) - 1) /\ DOMAIN q = 1 .. Len(q)
      /\ Head(q) = q[1]
      /\ \A i \in 1 .. (Len(q) - 1) : Tail(q)[i] = q[i + 1]
  OBVIOUS
<1>2. Distinct(Tail(q))
  BY <1>1 DEF Distinct
<1>3. ASSUME NEW x \in ToSet(Tail(q)) PROVE x \in ToSet(q) \ {Head(q)}
  <2>1. PICK i \in 1 .. (Len(q) - 1) : Tail(q)[i] = x
    BY <1>1 DEF ToSet
  <2>2. i + 1 \in DOMAIN q /\ q[i + 1] = x /\ 1 \in DOMAIN q /\ i + 1 # 1
    BY <1>1, <2>1
  <2> QED BY <1>1, <2>2 DEF ToSet, Distinct
<1>4. ASSUME NEW x \in ToSet(q) \ {Head(q)} PROVE x \in ToSet(Tail(q))
  <2>1. PICK i \in 1 .. Len(q) : q[i] = x /\ i # 1
    BY <1>1 DEF ToSet
  <2>2. i - 1 \in DOMAIN Tail(q) /\ Tail(q)[i - 1] = x
    BY <1>1, <2>1
  <2> QED BY <2>2 DEF ToSet
<1>5. Head(q) \in ToSet(q)
  BY <1>1 DEF ToSet
<1> QED BY <1>1, <1>2, <1>3, <1>4, <1>5

(* And for a new last element.                                             *)
LEMMA AppendSet ==
    ASSUME NEW S, NEW q \in Seq(S), NEW x \in S, x \notin ToSet(q), Distinct(q)
    PROVE  /\ Append(q, x) \in Seq(S)
           /\ Distinct(Append(q, x))
           /\ ToSet(Append(q, x)) = ToSet(q) \cup {x}
<1> DEFINE p == Append(q, x)
<1>1. /\ p \in Seq(S) /\ DOMAIN p = 1 .. (Len(q) + 1) /\ DOMAIN q = 1 .. Len(q)
      /\ \A i \in 1 .. Len(q) : p[i] = q[i]
      /\ p[Len(q) + 1] = x /\ Len(q) \in Nat
  OBVIOUS
<1> HIDE DEF p
<1>2. \A i \in 1 .. Len(q) : q[i] # x
  BY <1>1 DEF ToSet
<1>3. Distinct(p)
  BY <1>1, <1>2 DEF Distinct
<1>4. ASSUME NEW y \in ToSet(p) PROVE y \in ToSet(q) \cup {x}
  BY <1>1 DEF ToSet
<1>5. ASSUME NEW y \in ToSet(q) \cup {x} PROVE y \in ToSet(p)
  <2>1. CASE y = x
    <3>1. Len(q) + 1 \in DOMAIN p BY <1>1
    <3> QED BY <1>1, <2>1, <3>1 DEF ToSet
  <2>2. CASE y \in ToSet(q)
    <3>1. PICK i \in 1 .. Len(q) : q[i] = y BY <1>1, <2>2 DEF ToSet
    <3>2. i \in DOMAIN p /\ p[i] = y BY <1>1, <3>1
    <3> QED BY <3>2 DEF ToSet
  <2> QED BY <2>1, <2>2
<1> QED BY <1>1, <1>3, <1>4, <1>5 DEF p

(* What RemoveQueuedPlayer promises: s is no longer queued, and the queue  *)
(* has lost exactly the sessions whose flag was cleared.                   *)
LEMMA RemoveQueuedPlayerResult ==
    ASSUME NEW q \in Seq(Sessions), Distinct(q), NEW s
    PROVE  LET r == RemoveQueuedPlayer(q, s) IN
           /\ r.queue \in Seq(Sessions)
           /\ Distinct(r.queue)
           /\ r.out \subseteq ToSet(q)
           /\ ToSet(r.queue) = ToSet(q) \ r.out
           /\ s \notin ToSet(r.queue)
<1> DEFINE rest == EraseQueued(q, s)
           left == IF IsQueued(q, s) THEN {s} ELSE {}
           admit == rest # <<>> /\ HasPlace(RemainingSessions(q, s))
           r == RemoveQueuedPlayer(q, s)
<1>1. IsQueued(q, s) => /\ GetQueuePos(q, s) \in 1 .. Len(q)
                        /\ q[GetQueuePos(q, s)] = s
  <2>1. s \in ToSet(q) => \E k \in DOMAIN q : q[k] = s
    BY DEF ToSet
  <2>2. DOMAIN q = 1 .. Len(q)
    OBVIOUS
  <2> QED BY <2>1, <2>2 DEF IsQueued, GetQueuePos
<1>2. ~IsQueued(q, s) => s \notin ToSet(q)
  <2>1. \A k \in DOMAIN q : k # 0
    OBVIOUS
  <2>2. s \in ToSet(q) => \E k \in DOMAIN q : q[k] = s
    BY DEF ToSet
  <2> QED BY <2>1, <2>2 DEF IsQueued, GetQueuePos
<1>3. /\ rest \in Seq(Sessions) /\ Distinct(rest)
      /\ left \subseteq ToSet(q)
      /\ ToSet(rest) = ToSet(q) \ left
      /\ s \notin ToSet(rest)
  <2>1. CASE IsQueued(q, s)
    <3>1. rest = RemoveAt(q, GetQueuePos(q, s))
      BY <2>1 DEF EraseQueued
    <3>2. rest \in Seq(Sessions) /\ Distinct(rest) /\ ToSet(rest) = ToSet(q) \ {s}
      BY <1>1, <2>1, <3>1, RemoveAtElements, RemoveAtSet
    <3>3. s \in ToSet(q)
      BY <1>1, <2>1 DEF ToSet
    <3> QED BY <2>1, <3>2, <3>3
  <2>2. CASE ~IsQueued(q, s)
    BY <1>2, <2>2 DEF EraseQueued
  <2> QED BY <2>1, <2>2
<1>4. /\ r.queue = IF admit THEN Tail(rest) ELSE rest
      /\ r.out = left \cup (IF admit THEN {Head(rest)} ELSE {})
  BY DEF RemoveQueuedPlayer
<1> HIDE DEF rest, left, r
<1>5. CASE admit
  <2>1. /\ Tail(rest) \in Seq(Sessions) /\ Distinct(Tail(rest))
        /\ Head(rest) \in ToSet(rest)
        /\ ToSet(Tail(rest)) = ToSet(rest) \ {Head(rest)}
    BY <1>3, <1>5, TailSet
  <2>2. r.queue = Tail(rest) /\ r.out = left \cup {Head(rest)}
    BY <1>4, <1>5
  <2> QED BY <1>3, <2>1, <2>2 DEF r
<1>6. CASE ~admit
  <2>1. r.queue = rest /\ r.out = left
    BY <1>4, <1>6
  <2> QED BY <1>3, <2>1 DEF r
<1> QED BY <1>5, <1>6

-----------------------------------------------------------------------------
(* The inductive invariant: sessions handed over are pending, m_sessions   *)
(* and the life of a session agree, and the second loop of UpdateSessions  *)
(* visits accounts that have a session.                                    *)
AddSound ==
    /\ Distinct(addSessQueue)
    /\ \A s \in ToSet(addSessQueue) : life[s] = "pending"

ListSound ==
    /\ \A s \in Sessions : life[s] = "listed" <=> m_sessions[AccountOf[s]] = s
    /\ \A a \in Accounts : m_sessions[a] # None => AccountOf[m_sessions[a]] = a

TodoSound == phase = "update" => todo \subseteq Listed

IInv == TypeOK /\ AddSound /\ ListSound /\ TodoSound /\ QueueSound

(* The invariant holds at the start.                                       *)
LEMMA InitIInv == Init => IInv
<1> SUFFICES ASSUME Init PROVE IInv
  OBVIOUS
<1> USE QueueAssumption DEF QueueAssumption, Init
<1>1. TypeOK
  <2>1. addSessQueue \in Seq(Sessions) /\ m_QueuedPlayer \in Seq(Sessions)
    OBVIOUS
  <2>2. m_playerLimit \in Nat
    OBVIOUS
  <2> QED BY <2>1, <2>2 DEF TypeOK, Stages
<1>2. AddSound /\ ListSound /\ TodoSound /\ QueueSound
  BY DEF AddSound, ListSound, TodoSound, QueueSound, Distinct, ToSet
<1> QED BY <1>1, <1>2 DEF IInv

(* The session at the head of addSessQueue is neither listed nor queued.   *)
LEMMA HeadIsNew ==
    ASSUME IInv, phase # "destroyed", addSessQueue # <<>>
    PROVE  /\ Head(addSessQueue) \in Sessions
           /\ life[Head(addSessQueue)] = "pending"
           /\ Head(addSessQueue) \notin ToSet(m_QueuedPlayer)
           /\ Tail(addSessQueue) \in Seq(Sessions)
           /\ Distinct(Tail(addSessQueue))
           /\ \A x \in ToSet(Tail(addSessQueue)) :
                 x # Head(addSessQueue) /\ life[x] = "pending"
<1>1. /\ Head(addSessQueue) \in ToSet(addSessQueue)
      /\ Tail(addSessQueue) \in Seq(Sessions)
      /\ Distinct(Tail(addSessQueue))
      /\ ToSet(Tail(addSessQueue)) = ToSet(addSessQueue) \ {Head(addSessQueue)}
  BY TailSet DEF IInv, TypeOK, AddSound
<1>2. Head(addSessQueue) \in Sessions
  BY DEF IInv, TypeOK
<1> QED BY <1>1, <1>2 DEF IInv, AddSound, QueueSound

(* AddSession_ keeps the invariant, in every combination of an older       *)
(* session, a queue position and a free place.                             *)
LEMMA AddSessionKeeps ==
    ASSUME IInv, AddSession_
    PROVE  IInv'
<1> USE QueueAssumption DEF QueueAssumption
<1> DEFINE s    == Head(addSessQueue)
           a    == AccountOf[s]
           old  == m_sessions[a]
           r    == IF old = None
                   THEN [queue |-> m_QueuedPlayer, found |-> FALSE, out |-> {}]
                   ELSE RemoveQueuedPlayer(m_QueuedPlayer, old)
<1>1. /\ phase = "add" /\ addSessQueue # <<>>
      /\ phase' = phase /\ stopping' = stopping /\ todo' = todo
      /\ m_disconnects' = m_disconnects /\ m_playerLimit' = m_playerLimit
      /\ stage' = stage
      /\ addSessQueue' = Tail(addSessQueue)
      /\ m_sessions' = [m_sessions EXCEPT ![a] = s]
      /\ closed' = [x \in Sessions |-> closed[x] \/ x = old]
      /\ life' = [x \in Sessions |-> CASE x = s   -> "listed"
                                       [] x = old -> "deleted"
                                       [] OTHER   -> life[x]]
  BY DEF AddSession_
<1>2. PICK wait \in BOOLEAN :
         /\ m_QueuedPlayer' = IF wait THEN Append(r.queue, s) ELSE r.queue
         /\ m_inQueue' = [x \in Sessions |->
                             IF x = s THEN wait
                             ELSE m_inQueue[x] /\ x \notin r.out]
  BY Zenon DEF AddSession_
<1>3. /\ s \in Sessions /\ life[s] = "pending" /\ s \notin ToSet(m_QueuedPlayer)
      /\ Tail(addSessQueue) \in Seq(Sessions)
      /\ Distinct(Tail(addSessQueue))
      /\ \A x \in ToSet(Tail(addSessQueue)) : x # s /\ life[x] = "pending"
  BY <1>1, HeadIsNew
<1>4. a \in Accounts /\ old \in Sessions \cup {None} /\ old # s
  BY <1>3 DEF IInv, TypeOK, ListSound
<1>5. /\ m_QueuedPlayer \in Seq(Sessions) /\ Distinct(m_QueuedPlayer)
      /\ \A x \in ToSet(m_QueuedPlayer) :
            m_sessions[AccountOf[x]] = x /\ life[x] = "listed" /\ m_inQueue[x]
      /\ ~stopping => \A x \in Sessions : m_inQueue[x] => x \in ToSet(m_QueuedPlayer)
  BY <1>1 DEF IInv, TypeOK, QueueSound, Distinct
<1>6. ToSet(m_QueuedPlayer) \subseteq Sessions
  BY <1>5 DEF ToSet
<1>7. /\ r.queue \in Seq(Sessions) /\ Distinct(r.queue)
      /\ ToSet(r.queue) = ToSet(m_QueuedPlayer) \ r.out
      /\ old \notin ToSet(r.queue)
  <2>1. CASE old = None
    <3>1. r.queue = m_QueuedPlayer /\ r.out = {}
      BY <2>1
    <3> QED BY <1>5, <1>6, <2>1, <3>1
  <2>2. CASE old # None
    <3>1. r = RemoveQueuedPlayer(m_QueuedPlayer, old)
      BY <2>2
    <3> QED BY <1>5, <3>1, RemoveQueuedPlayerResult
  <2> QED BY <2>1, <2>2
<1>8. s \notin ToSet(r.queue)
  BY <1>3, <1>7
<1> HIDE DEF s, a, old, r
<1>9. /\ m_QueuedPlayer' \in Seq(Sessions)
      /\ Distinct(m_QueuedPlayer')
      /\ ToSet(m_QueuedPlayer') = ToSet(r.queue) \cup (IF wait THEN {s} ELSE {})
  <2>1. CASE wait
    BY <1>2, <1>3, <1>7, <1>8, <2>1, AppendSet
  <2>2. CASE ~wait
    BY <1>2, <1>7, <2>2
  <2> QED BY <2>1, <2>2
<1>10. TypeOK'
  <2>1. m_inQueue' \in [Sessions -> BOOLEAN] /\ closed' \in [Sessions -> BOOLEAN]
    BY <1>1, <1>2, Zenon
  <2>2. life' \in [Sessions -> {"none", "pending", "listed", "deleted"}]
    BY <1>1 DEF IInv, TypeOK
  <2>3. m_sessions' \in [Accounts -> Sessions \cup {None}]
    BY <1>1, <1>3, <1>4 DEF IInv, TypeOK
  <2> QED BY <1>1, <1>3, <1>9, <2>1, <2>2, <2>3 DEF IInv, TypeOK
<1>11. AddSound'
  <2>1. \A x \in ToSet(Tail(addSessQueue)) : x \in Sessions
    BY <1>3 DEF ToSet
  <2>2. \A x \in Sessions : life[x] = "pending" => x # old
    BY <1>4 DEF IInv, ListSound, old, a, TypeOK
  <2>3. \A x \in ToSet(Tail(addSessQueue)) : life'[x] = "pending"
    BY <1>1, <1>3, <2>1, <2>2
  <2> QED BY <1>1, <1>3, <2>3 DEF AddSound
<1>12. ListSound'
  <2>1. ASSUME NEW x \in Sessions
        PROVE  life'[x] = "listed" <=> m_sessions'[AccountOf[x]] = x
    <3>1. CASE x = s
      BY <1>1, <1>3, <1>4, <3>1 DEF a, IInv, TypeOK
    <3>2. CASE x # s /\ AccountOf[x] = a
      <4>1. life[x] = "listed" => x = old
        BY <3>2 DEF IInv, ListSound, old
      <4> QED BY <1>1, <1>4, <3>2, <4>1 DEF IInv, TypeOK
    <3>3. CASE x # s /\ AccountOf[x] # a
      <4>1. x # old
        BY <1>4, <3>3 DEF IInv, ListSound, old
      <4>2. life'[x] = life[x]
        BY <1>1, <3>3, <4>1
      <4>3. m_sessions'[AccountOf[x]] = m_sessions[AccountOf[x]]
        BY <1>1, <1>4, <3>3 DEF IInv, TypeOK
      <4> QED BY <4>2, <4>3 DEF IInv, ListSound
    <3> QED BY <3>1, <3>2, <3>3
  <2>2. ASSUME NEW b \in Accounts, m_sessions'[b] # None
        PROVE  AccountOf[m_sessions'[b]] = b
    <3>1. CASE b = a BY <1>1, <3>1 DEF a, IInv, TypeOK
    <3>2. CASE b # a BY <1>1, <2>2, <3>2 DEF IInv, TypeOK, ListSound
    <3> QED BY <3>1, <3>2
  <2> QED BY <2>1, <2>2 DEF ListSound
<1>13. TodoSound'
  BY <1>1 DEF TodoSound
<1>14. QueueSound'
  <2>1. ASSUME NEW x \in ToSet(m_QueuedPlayer')
        PROVE  m_sessions'[AccountOf[x]] = x /\ life'[x] = "listed" /\ m_inQueue'[x]
    <3>1. CASE x = s
      <4>1. wait
        BY <1>8, <1>9, <2>1, <3>1
      <4>2. m_inQueue'[s] = wait
        BY <1>2, <1>3
      <4> QED BY <1>1, <1>3, <1>4, <3>1, <4>1, <4>2 DEF a, IInv, TypeOK
    <3>2. CASE x # s
      <4>1. x \in ToSet(m_QueuedPlayer) /\ x \notin r.out /\ x # old /\ x \in Sessions
        BY <1>6, <1>7, <1>9, <2>1, <3>2
      <4>2. m_inQueue'[x] = (m_inQueue[x] /\ x \notin r.out)
        BY <1>2, <3>2, <4>1
      <4>3. AccountOf[x] # a
        BY <1>5, <4>1 DEF old
      <4> QED BY <1>1, <1>4, <1>5, <3>2, <4>1, <4>2, <4>3 DEF IInv, TypeOK
    <3> QED BY <3>1, <3>2
  <2>2. ASSUME ~stopping', NEW x \in Sessions, m_inQueue'[x]
        PROVE  x \in ToSet(m_QueuedPlayer')
    <3>1. CASE x = s
      <4>1. m_inQueue'[s] = wait
        BY <1>2, <1>3
      <4> QED BY <1>9, <2>2, <3>1, <4>1
    <3>2. CASE x # s
      <4>1. m_inQueue'[x] = (m_inQueue[x] /\ x \notin r.out)
        BY <1>2, <3>2
      <4> QED BY <1>1, <1>5, <1>7, <1>9, <2>2, <4>1
    <3> QED BY <3>1, <3>2
  <2> QED BY <1>9, <2>1, <2>2 DEF QueueSound, Distinct
<1> QED BY <1>10, <1>11, <1>12, <1>13, <1>14 DEF IInv

(* Removing a closed session keeps the invariant: after the two calls of   *)
(* RemoveQueuedPlayer the queue does not hold the deleted session.         *)
LEMMA RemoveClosedKeeps ==
    ASSUME IInv, NEW a \in Accounts, RemoveClosedSession(a)
    PROVE  IInv'
<1> USE QueueAssumption DEF QueueAssumption
<1> DEFINE s  == m_sessions[a]
           r1 == RemoveQueuedPlayer(m_QueuedPlayer, s)
           r2 == RemoveQueuedPlayer(r1.queue, s)
<1>1. /\ phase = "update" /\ a \in todo
      /\ phase' = phase /\ stopping' = stopping /\ todo' = todo \ {a}
      /\ m_playerLimit' = m_playerLimit /\ closed' = closed /\ stage' = stage
      /\ addSessQueue' = addSessQueue
      /\ m_sessions' = [m_sessions EXCEPT ![a] = None]
      /\ life' = [life EXCEPT ![s] = "deleted"]
      /\ m_QueuedPlayer' = r2.queue
      /\ m_inQueue' = [x \in Sessions |->
                          m_inQueue[x] /\ x \notin r1.out \cup r2.out]
      /\ m_disconnects' \subseteq m_disconnects \cup {a}
  BY DEF RemoveClosedSession
<1>2. s \in Sessions /\ AccountOf[s] = a /\ life[s] = "listed"
  BY <1>1 DEF IInv, TodoSound, Listed, TypeOK, ListSound
<1>3. /\ m_QueuedPlayer \in Seq(Sessions) /\ Distinct(m_QueuedPlayer)
      /\ \A x \in ToSet(m_QueuedPlayer) :
            m_sessions[AccountOf[x]] = x /\ life[x] = "listed" /\ m_inQueue[x]
      /\ ~stopping => \A x \in Sessions : m_inQueue[x] => x \in ToSet(m_QueuedPlayer)
  BY <1>1 DEF IInv, TypeOK, QueueSound, Distinct
<1>4. /\ r1.queue \in Seq(Sessions) /\ Distinct(r1.queue)
      /\ ToSet(r1.queue) = ToSet(m_QueuedPlayer) \ r1.out
  BY <1>3, RemoveQueuedPlayerResult
<1>5. /\ r2.queue \in Seq(Sessions) /\ Distinct(r2.queue)
      /\ ToSet(r2.queue) = ToSet(r1.queue) \ r2.out
      /\ s \notin ToSet(r2.queue)
  <2> HIDE DEF r1
  <2> QED BY <1>4, RemoveQueuedPlayerResult
<1>6. ToSet(m_QueuedPlayer) \subseteq Sessions
  BY <1>3 DEF ToSet
<1> HIDE DEF s, r1, r2
<1>7. TypeOK'
  <2>1. m_inQueue' \in [Sessions -> BOOLEAN]
    BY <1>1, Zenon
  <2> QED BY <1>1, <1>5, <2>1 DEF IInv, TypeOK
<1>8. AddSound'
  <2>1. \A x \in ToSet(addSessQueue) : x # s
    BY <1>2 DEF IInv, AddSound
  <2>2. \A x \in ToSet(addSessQueue) : x \in Sessions
    BY DEF IInv, TypeOK, ToSet
  <2> QED BY <1>1, <2>1, <2>2 DEF IInv, AddSound, TypeOK
<1>9. ListSound'
  <2>1. ASSUME NEW x \in Sessions
        PROVE  life'[x] = "listed" <=> m_sessions'[AccountOf[x]] = x
    <3>1. CASE AccountOf[x] = a
      <4>1. life[x] = "listed" => x = s
        BY <3>1 DEF IInv, ListSound, s
      <4> QED BY <1>1, <1>2, <3>1, <4>1 DEF IInv, TypeOK
    <3>2. CASE AccountOf[x] # a
      BY <1>1, <1>2, <3>2 DEF IInv, TypeOK, ListSound
    <3> QED BY <3>1, <3>2
  <2>2. \A b \in Accounts : m_sessions'[b] # None => AccountOf[m_sessions'[b]] = b
    BY <1>1 DEF IInv, TypeOK, ListSound
  <2> QED BY <2>1, <2>2 DEF ListSound
<1>10. TodoSound'
  BY <1>1 DEF IInv, TypeOK, TodoSound, Listed
<1>11. QueueSound'
  <2>1. ASSUME NEW x \in ToSet(m_QueuedPlayer')
        PROVE  m_sessions'[AccountOf[x]] = x /\ life'[x] = "listed" /\ m_inQueue'[x]
    <3>1. /\ x \in ToSet(m_QueuedPlayer) /\ x \notin r1.out \cup r2.out
          /\ x # s /\ x \in Sessions
      BY <1>1, <1>4, <1>5, <1>6, <2>1
    <3>2. AccountOf[x] # a
      BY <1>3, <3>1 DEF s
    <3>3. m_inQueue'[x] = (m_inQueue[x] /\ x \notin r1.out \cup r2.out)
      BY <1>1, <3>1
    <3> QED BY <1>1, <1>3, <3>1, <3>2, <3>3 DEF IInv, TypeOK
  <2>2. ASSUME ~stopping', NEW x \in Sessions, m_inQueue'[x]
        PROVE  x \in ToSet(m_QueuedPlayer')
    <3>1. m_inQueue'[x] = (m_inQueue[x] /\ x \notin r1.out \cup r2.out)
      BY <1>1
    <3> QED BY <1>1, <1>3, <1>4, <1>5, <2>2, <3>1
  <2> QED BY <1>1, <1>5, <2>1, <2>2 DEF QueueSound, Distinct
<1> QED BY <1>7, <1>8, <1>9, <1>10, <1>11 DEF IInv

(* The remaining steps of UpdateSessions, of the network threads and of    *)
(* the console.                                                            *)
LEMMA OtherSteps ==
    ASSUME IInv,
           \/ \E s \in Sessions : AddSession(s) \/ CloseSocket(s)
           \/ \E a \in Accounts : UpdateSession(a)
           \/ \E n \in Limits : SetPlayerAmountLimit(n)
           \/ BeginUpdateSessions \/ KickAll \/ RefuseSession \/ EndAdd
           \/ EndUpdate \/ DestroyWorld
           \/ UNCHANGED vars
    PROVE  IInv'
<1> USE QueueAssumption DEF QueueAssumption
<1> USE DEF IInv, Distinct
<1>1. ASSUME NEW s \in Sessions, AddSession(s) PROVE IInv'
  <2>1. s \notin ToSet(addSessQueue)
    BY <1>1 DEF AddSession, AddSound
  <2>2. /\ addSessQueue' \in Seq(Sessions) /\ Distinct(addSessQueue')
        /\ ToSet(addSessQueue') = ToSet(addSessQueue) \cup {s}
    <3> HIDE DEF Distinct, IInv
    <3> QED BY <1>1, <2>1, AppendSet DEF AddSession, IInv, TypeOK, AddSound
  <2>3. TypeOK' BY <1>1, <2>2 DEF AddSession, TypeOK
  <2>4. AddSound' BY <1>1, <2>2 DEF AddSession, AddSound, TypeOK
  <2>5. ListSound' /\ TodoSound' /\ QueueSound'
    BY <1>1 DEF AddSession, ListSound, TodoSound, QueueSound, TypeOK, Listed
  <2> QED BY <2>3, <2>4, <2>5
<1>2. ASSUME NEW s \in Sessions, CloseSocket(s) PROVE IInv'
  BY <1>2 DEF CloseSocket, TypeOK, AddSound, ListSound, TodoSound, QueueSound, Listed
<1>3. ASSUME NEW a \in Accounts, UpdateSession(a) PROVE IInv'
  <2>1. \A s \in Sessions : NextStages(s) \subseteq Stages
    BY DEF NextStages, Stages, TypeOK
  <2>2. m_sessions[a] \in Sessions
    BY <1>3 DEF UpdateSession, TodoSound, Listed, TypeOK
  <2>3. stage' \in [Sessions -> Stages]
    BY <1>3, <2>1, <2>2 DEF UpdateSession, TypeOK
  <2>4. TypeOK' BY <1>3, <2>3 DEF UpdateSession, TypeOK
  <2>5. AddSound' /\ ListSound' /\ TodoSound' /\ QueueSound'
    BY <1>3 DEF UpdateSession, AddSound, ListSound, TodoSound, QueueSound, Listed
  <2> QED BY <2>4, <2>5
<1>4. ASSUME NEW n \in Limits, SetPlayerAmountLimit(n) PROVE IInv'
  BY <1>4 DEF SetPlayerAmountLimit, TypeOK, AddSound, ListSound, TodoSound, QueueSound, Listed
<1>5. CASE BeginUpdateSessions
  BY <1>5 DEF BeginUpdateSessions, TypeOK, AddSound, ListSound, TodoSound, QueueSound, Listed
<1>6. CASE KickAll
  <2>1. m_QueuedPlayer' \in Seq(Sessions) /\ ToSet(m_QueuedPlayer') = {}
    BY <1>6 DEF KickAll, ToSet
  <2>2. closed' \in [Sessions -> BOOLEAN]
    BY <1>6, Zenon DEF KickAll
  <2>3. TypeOK' BY <1>6, <2>1, <2>2 DEF KickAll, TypeOK
  <2>4. QueueSound' BY <1>6, <2>1 DEF KickAll, QueueSound
  <2>5. AddSound' /\ ListSound' /\ TodoSound'
    BY <1>6 DEF KickAll, AddSound, ListSound, TodoSound, Listed
  <2> QED BY <2>3, <2>4, <2>5
<1>7. CASE RefuseSession
  <2>1. /\ Head(addSessQueue) \in Sessions
        /\ life[Head(addSessQueue)] = "pending"
        /\ Head(addSessQueue) \notin ToSet(m_QueuedPlayer)
        /\ Tail(addSessQueue) \in Seq(Sessions)
        /\ Distinct(Tail(addSessQueue))
        /\ \A x \in ToSet(Tail(addSessQueue)) :
              x # Head(addSessQueue) /\ life[x] = "pending"
    <3> HIDE DEF IInv, Distinct
    <3> QED BY <1>7, HeadIsNew DEF RefuseSession
  <2>2. /\ phase' = phase /\ stopping' = stopping /\ todo' = todo
        /\ UNCHANGED <<m_sessions, m_QueuedPlayer, m_inQueue, m_disconnects,
                       m_playerLimit, stage>>
        /\ closed' = [closed EXCEPT ![Head(addSessQueue)] = TRUE]
        /\ life' = [life EXCEPT ![Head(addSessQueue)] = "deleted"]
        /\ addSessQueue' = Tail(addSessQueue)
    BY <1>7 DEF RefuseSession
  <2>3. TypeOK' BY <2>1, <2>2 DEF TypeOK
  <2>4. \A x \in ToSet(Tail(addSessQueue)) : x \in Sessions
    BY <2>1 DEF ToSet
  <2>5. AddSound' BY <2>1, <2>2, <2>4 DEF AddSound, TypeOK
  <2>6. ListSound' BY <2>1, <2>2 DEF ListSound, TypeOK
  <2>7. TodoSound' BY <2>2 DEF TodoSound, Listed
  <2>8. \A x \in ToSet(m_QueuedPlayer) : x \in Sessions
    BY DEF ToSet, TypeOK
  <2>9. QueueSound' BY <2>1, <2>2, <2>8 DEF QueueSound, TypeOK
  <2> QED BY <2>3, <2>5, <2>6, <2>7, <2>9
<1>8. CASE EndAdd
  BY <1>8 DEF EndAdd, TypeOK, AddSound, ListSound, TodoSound, QueueSound, Listed
<1>9. CASE EndUpdate
  BY <1>9 DEF EndUpdate, TypeOK, AddSound, ListSound, TodoSound, QueueSound, Listed
<1>10. CASE DestroyWorld
  <2>1. TypeOK' BY <1>10 DEF DestroyWorld, TypeOK
  <2>2. \A x \in ToSet(addSessQueue) : x \in Sessions
    BY DEF ToSet, TypeOK
  <2>3. AddSound' BY <1>10, <2>2 DEF DestroyWorld, AddSound
  <2>4. ListSound' /\ TodoSound' /\ QueueSound'
    BY <1>10 DEF DestroyWorld, ListSound, TodoSound, QueueSound, TypeOK
  <2> QED BY <2>1, <2>3, <2>4
<1>11. CASE UNCHANGED vars
  BY <1>11 DEF vars, TypeOK, AddSound, ListSound, TodoSound, QueueSound, Listed
<1> HIDE DEF IInv
<1> QED BY <1>1, <1>2, <1>3, <1>4, <1>5, <1>6, <1>7, <1>8, <1>9, <1>10, <1>11

-----------------------------------------------------------------------------
(* The inductive invariant holds in every reachable state.                 *)
THEOREM SessionInvariant == Spec => []IInv
<1>1. IInv /\ [Next]_vars => IInv'
  BY AddSessionKeeps, RemoveClosedKeeps, OtherSteps
  DEF Next, Network, WorldLoop, Command, Terminated
<1> QED BY InitIInv, <1>1, PTL DEF Spec

(* The variables of the admission keep their types.                        *)
THEOREM TypeCorrect == Spec => []TypeOK
BY SessionInvariant, PTL DEF IInv

(* World::m_QueuedPlayer never holds a deleted, replaced or repeated       *)
(* session, and m_inQueue is its exact image until KickAll.                *)
THEOREM QueueIsSound == Spec => []QueueSound
BY SessionInvariant, PTL DEF IInv

-----------------------------------------------------------------------------
(* Players: a session that was not served yet has none, and from KickAll   *)
(* on a session is closed, or new when the last loop visits it.            *)
StageSound ==
    /\ \A s \in ToSet(m_QueuedPlayer) : stage[s] = "new"
    /\ \A s \in Sessions : life[s] \in {"none", "pending"} => stage[s] = "new"
    /\ stopping => phase # "idle"
    /\ stopping /\ phase = "add" =>
          \A a \in Listed : closed[m_sessions[a]] \/ stage[m_sessions[a]] = "new"
    /\ stopping /\ phase = "update" =>
          \A a \in Listed :
              \/ a \in todo /\ closed[m_sessions[a]]
              \/ stage[m_sessions[a]] = "new"
              \/ a \notin todo /\ stage[m_sessions[a]] = "chars"
    /\ phase = "stopped" =>
          \A a \in Listed : stage[m_sessions[a]] \in {"new", "chars"}

(* No session has a player when the world starts.                          *)
LEMMA InitStage == Init => StageSound
BY QueueAssumption DEF QueueAssumption, Init, StageSound, Listed, ToSet

(* A step that leaves the players alone keeps them where they may be.      *)
LEMMA AddSessionStage ==
    ASSUME IInv, StageSound, AddSession_
    PROVE  StageSound'
<1> USE QueueAssumption DEF QueueAssumption
<1> DEFINE s   == Head(addSessQueue)
           a   == AccountOf[s]
           old == m_sessions[a]
           r   == IF old = None
                  THEN [queue |-> m_QueuedPlayer, found |-> FALSE, out |-> {}]
                  ELSE RemoveQueuedPlayer(m_QueuedPlayer, old)
<1>1. /\ phase = "add" /\ addSessQueue # <<>>
      /\ phase' = phase /\ stopping' = stopping /\ todo' = todo
      /\ stage' = stage
      /\ m_sessions' = [m_sessions EXCEPT ![a] = s]
      /\ closed' = [x \in Sessions |-> closed[x] \/ x = old]
      /\ life' = [x \in Sessions |-> CASE x = s   -> "listed"
                                       [] x = old -> "deleted"
                                       [] OTHER   -> life[x]]
      /\ \/ m_QueuedPlayer' = Append(r.queue, s)
         \/ m_QueuedPlayer' = r.queue
  BY DEF AddSession_
<1>2. /\ s \in Sessions /\ life[s] = "pending" /\ s \notin ToSet(m_QueuedPlayer)
  BY <1>1, HeadIsNew
<1>3. stage[s] = "new" /\ a \in Accounts
  BY <1>2 DEF StageSound
<1>4. /\ m_QueuedPlayer \in Seq(Sessions) /\ Distinct(m_QueuedPlayer)
  BY <1>1 DEF IInv, TypeOK, QueueSound, Distinct
<1>5. /\ r.queue \in Seq(Sessions) /\ Distinct(r.queue)
      /\ ToSet(r.queue) \subseteq ToSet(m_QueuedPlayer)
  <2>1. CASE old = None
    BY <1>4, <2>1
  <2>2. CASE old # None
    <3>1. r = RemoveQueuedPlayer(m_QueuedPlayer, old)
      BY <2>2
    <3> QED BY <1>4, <3>1, RemoveQueuedPlayerResult
  <2> QED BY <2>1, <2>2
<1> HIDE DEF s, a, old, r
<1>6. ToSet(m_QueuedPlayer') \subseteq ToSet(m_QueuedPlayer) \cup {s}
  <2>1. CASE m_QueuedPlayer' = r.queue
    BY <1>5, <2>1
  <2>2. CASE m_QueuedPlayer' = Append(r.queue, s)
    BY <1>2, <1>5, <2>2, AppendSet
  <2> QED BY <1>1, <2>1, <2>2
<1>7. \A x \in ToSet(m_QueuedPlayer') : stage'[x] = "new"
  BY <1>1, <1>3, <1>6 DEF StageSound
<1>8. \A x \in Sessions : life'[x] \in {"none", "pending"} => stage'[x] = "new"
  BY <1>1 DEF StageSound
<1>9. stopping => \A b \in Listed' :
         closed'[m_sessions'[b]] \/ stage'[m_sessions'[b]] = "new"
  <2> SUFFICES ASSUME stopping, NEW b \in Listed'
               PROVE  closed'[m_sessions'[b]] \/ stage'[m_sessions'[b]] = "new"
    OBVIOUS
  <2>1. b \in Accounts /\ m_sessions'[b] # None
    BY DEF Listed
  <2>2. CASE b = a
    BY <1>1, <1>3, <2>2 DEF IInv, TypeOK
  <2>3. CASE b # a
    <3>1. m_sessions'[b] = m_sessions[b] /\ m_sessions[b] \in Sessions
      BY <1>1, <2>1, <2>3 DEF IInv, TypeOK
    <3>2. closed[m_sessions[b]] \/ stage[m_sessions[b]] = "new"
      BY <1>1, <2>1, <3>1 DEF StageSound, Listed
    <3> QED BY <1>1, <3>1, <3>2
  <2> QED BY <2>2, <2>3
<1>10. ToSet(m_QueuedPlayer)' = ToSet(m_QueuedPlayer')
  BY DEF ToSet
<1> QED BY <1>1, <1>7, <1>8, <1>9, <1>10 DEF StageSound

(* A session that is removed has no player left.                           *)
LEMMA RemoveClosedStage ==
    ASSUME IInv, StageSound, NEW a \in Accounts, RemoveClosedSession(a)
    PROVE  StageSound'
<1> USE QueueAssumption DEF QueueAssumption
<1> DEFINE s  == m_sessions[a]
           r1 == RemoveQueuedPlayer(m_QueuedPlayer, s)
           r2 == RemoveQueuedPlayer(r1.queue, s)
<1>1. /\ phase = "update" /\ a \in todo
      /\ phase' = phase /\ stopping' = stopping /\ todo' = todo \ {a}
      /\ closed' = closed /\ stage' = stage
      /\ m_sessions' = [m_sessions EXCEPT ![a] = None]
      /\ life' = [life EXCEPT ![s] = "deleted"]
      /\ m_QueuedPlayer' = r2.queue
  BY DEF RemoveClosedSession
<1>2. /\ m_QueuedPlayer \in Seq(Sessions) /\ Distinct(m_QueuedPlayer)
  BY <1>1 DEF IInv, TypeOK, QueueSound, Distinct
<1>3. /\ r1.queue \in Seq(Sessions) /\ Distinct(r1.queue)
      /\ ToSet(r1.queue) \subseteq ToSet(m_QueuedPlayer)
  BY <1>2, RemoveQueuedPlayerResult
<1>4. ToSet(r2.queue) \subseteq ToSet(r1.queue)
  <2> HIDE DEF r1
  <2> QED BY <1>3, RemoveQueuedPlayerResult
<1> HIDE DEF s, r1, r2
<1>5. \A x \in ToSet(m_QueuedPlayer') : stage'[x] = "new"
  BY <1>1, <1>3, <1>4 DEF StageSound
<1>6. \A x \in Sessions : life'[x] \in {"none", "pending"} => stage'[x] = "new"
  BY <1>1 DEF StageSound, IInv, TypeOK
<1>7. \A b \in Listed' : b \in Listed /\ b # a /\ m_sessions'[b] = m_sessions[b]
  BY <1>1 DEF Listed, IInv, TypeOK
<1>8. ToSet(m_QueuedPlayer)' = ToSet(m_QueuedPlayer')
  BY DEF ToSet
<1> QED BY <1>1, <1>5, <1>6, <1>7, <1>8 DEF StageSound

(* The world thread serves one session.                                    *)
LEMMA UpdateSessionStage ==
    ASSUME IInv, StageSound, NEW a \in Accounts, UpdateSession(a)
    PROVE  StageSound'
<1> DEFINE s == m_sessions[a]
<1>1. /\ phase = "update" /\ a \in todo /\ ~closed[s] /\ todo' = todo \ {a}
      /\ UNCHANGED <<phase, stopping, m_sessions, m_QueuedPlayer, closed, life>>
  BY DEF UpdateSession
<1>2. PICK st \in NextStages(s) : stage' = [stage EXCEPT ![s] = st]
  BY DEF UpdateSession
<1>3. /\ s \in Sessions /\ AccountOf[s] = a /\ life[s] = "listed"
      /\ stage \in [Sessions -> Stages] /\ a \in Listed
  BY <1>1 DEF IInv, TypeOK, TodoSound, ListSound, Listed
<1>4. s \in ToSet(m_QueuedPlayer) => st = "new"
  BY <1>1, <1>2 DEF NextStages, StageSound, IInv, QueueSound
<1>5. stage[s] = "new" => st \in {"new", "chars"}
  BY <1>2 DEF NextStages
<1>6. \A b \in Listed \ {a} : m_sessions[b] # s /\ m_sessions[b] \in Sessions
  BY <1>3 DEF IInv, ListSound, Listed, TypeOK
<1>7. ToSet(m_QueuedPlayer) \subseteq Sessions
  BY DEF ToSet, IInv, TypeOK
<1> HIDE DEF s
<1>8. /\ \A x \in Sessions \ {s} : stage'[x] = stage[x]
      /\ stage'[s] = st
  BY <1>2, <1>3
<1>9. \A x \in ToSet(m_QueuedPlayer) : stage'[x] = "new"
  BY <1>4, <1>7, <1>8 DEF StageSound
<1>10. \A x \in Sessions : life[x] \in {"none", "pending"} => stage'[x] = "new"
  BY <1>3, <1>8 DEF StageSound
<1>11. stopping => \A b \in Listed :
           \/ b \in todo' /\ closed[m_sessions[b]]
           \/ stage'[m_sessions[b]] = "new"
           \/ b \notin todo' /\ stage'[m_sessions[b]] = "chars"
  <2> SUFFICES ASSUME stopping, NEW b \in Listed
               PROVE  \/ b \in todo' /\ closed[m_sessions[b]]
                      \/ stage'[m_sessions[b]] = "new"
                      \/ b \notin todo' /\ stage'[m_sessions[b]] = "chars"
    OBVIOUS
  <2>1. CASE b = a
    <3>1. stage[s] = "new" /\ m_sessions[b] = s
      BY <1>1, <2>1 DEF StageSound, s
    <3> QED BY <1>1, <1>5, <1>8, <2>1, <3>1
  <2>2. CASE b # a
    <3>1. stage'[m_sessions[b]] = stage[m_sessions[b]]
      BY <1>6, <1>8, <2>2
    <3> QED BY <1>1, <2>2, <3>1 DEF StageSound
  <2> QED BY <2>1, <2>2
<1>12. ToSet(m_QueuedPlayer)' = ToSet(m_QueuedPlayer) /\ Listed' = Listed
  BY <1>1 DEF ToSet, Listed
<1> QED BY <1>1, <1>9, <1>10, <1>11, <1>12 DEF StageSound

(* The other steps change no player.                                       *)
LEMMA OtherStages ==
    ASSUME IInv, StageSound,
           \/ \E s \in Sessions : AddSession(s) \/ CloseSocket(s)
           \/ \E n \in Limits : SetPlayerAmountLimit(n)
           \/ BeginUpdateSessions \/ KickAll \/ RefuseSession \/ EndAdd
           \/ EndUpdate \/ DestroyWorld
           \/ UNCHANGED vars
    PROVE  StageSound'
<1> USE QueueAssumption DEF QueueAssumption
<1>0. stage' = stage
  BY DEF AddSession, CloseSocket, SetPlayerAmountLimit, BeginUpdateSessions,
         KickAll, RefuseSession, EndAdd, EndUpdate, DestroyWorld, vars
<1>1. ASSUME NEW s \in Sessions, AddSession(s) PROVE StageSound'
  BY <1>0, <1>1 DEF AddSession, StageSound, Listed, ToSet, IInv, TypeOK
<1>2. ASSUME NEW s \in Sessions, CloseSocket(s) PROVE StageSound'
  BY <1>0, <1>2 DEF CloseSocket, StageSound, Listed, ToSet, IInv, TypeOK
<1>3. ASSUME NEW n \in Limits, SetPlayerAmountLimit(n) PROVE StageSound'
  BY <1>0, <1>3 DEF SetPlayerAmountLimit, StageSound, Listed, ToSet
<1>4. CASE BeginUpdateSessions
  BY <1>0, <1>4 DEF BeginUpdateSessions, StageSound, Listed, ToSet
<1>5. CASE KickAll
  <2>1. ToSet(m_QueuedPlayer)' = {} /\ Listed' = Listed
    BY <1>5 DEF KickAll, ToSet, Listed
  <2>2. \A a \in Listed : closed'[m_sessions[a]]
    <3>1. \A a \in Listed : m_sessions[a] \in Sessions /\ life[m_sessions[a]] = "listed"
      BY DEF Listed, IInv, TypeOK, ListSound
    <3> QED BY <1>5, <3>1 DEF KickAll
  <2> QED BY <1>0, <1>5, <2>1, <2>2 DEF KickAll, StageSound
<1>6. CASE RefuseSession
  <2>1. Head(addSessQueue) \in Sessions /\ life[Head(addSessQueue)] = "pending"
    BY <1>6, HeadIsNew DEF RefuseSession
  <2>2. /\ closed' = [closed EXCEPT ![Head(addSessQueue)] = TRUE]
        /\ life' = [life EXCEPT ![Head(addSessQueue)] = "deleted"]
        /\ UNCHANGED <<phase, stopping, todo, m_sessions, m_QueuedPlayer, stage>>
    BY <1>6 DEF RefuseSession
  <2> QED BY <2>1, <2>2 DEF StageSound, Listed, ToSet, IInv, TypeOK
<1>7. CASE EndAdd
  BY <1>0, <1>7 DEF EndAdd, StageSound, Listed, ToSet
<1>8. CASE EndUpdate
  BY <1>0, <1>8 DEF EndUpdate, StageSound, Listed, ToSet
<1>9. CASE DestroyWorld
  BY <1>0, <1>9 DEF DestroyWorld, StageSound, Listed, ToSet, IInv, TypeOK
<1>10. CASE UNCHANGED vars
  BY <1>0, <1>10 DEF vars, StageSound, Listed, ToSet
<1> QED BY <1>1, <1>2, <1>3, <1>4, <1>5, <1>6, <1>7, <1>8, <1>9, <1>10

(* A queued session has no player, and after the last UpdateSessions of    *)
(* the shutdown no session has one, also when it came after KickAll.       *)
THEOREM PlayersAreUnloaded == Spec => []NoStrayPlayer
<1>1. IInv /\ StageSound /\ [Next]_vars => StageSound'
  BY AddSessionStage, RemoveClosedStage, UpdateSessionStage, OtherStages
  DEF Next, Network, WorldLoop, Command, Terminated
<1>2. StageSound => NoStrayPlayer
  BY DEF StageSound, NoStrayPlayer
<1> QED BY InitStage, SessionInvariant, <1>1, <1>2, PTL DEF Spec

-----------------------------------------------------------------------------
(* First come, first served.                                               *)

(* What is in both sequences is in the same order in both.                 *)
SameOrder(q, p) ==
    \A j, k \in DOMAIN q, m, n \in DOMAIN p :
        j < k /\ q[j] = p[m] /\ q[k] = p[n] => m < n

(* An element that was erased leaves the others in their order.            *)
LEMMA RemoveAtOrder ==
    ASSUME NEW S, NEW q \in Seq(S), NEW i \in 1 .. Len(q), Distinct(q)
    PROVE  SameOrder(q, RemoveAt(q, i))
<1> DEFINE p == RemoveAt(q, i)
<1>1. /\ p \in Seq(S) /\ DOMAIN p = 1 .. (Len(q) - 1) /\ DOMAIN q = 1 .. Len(q)
      /\ Len(q) \in Nat
      /\ \A m \in 1 .. (Len(q) - 1) : p[m] = IF m < i THEN q[m] ELSE q[m + 1]
  BY RemoveAtElements
<1> HIDE DEF p
<1> SUFFICES ASSUME NEW j \in DOMAIN q, NEW k \in DOMAIN q, NEW m \in DOMAIN p,
                    NEW n \in DOMAIN p, j < k, q[j] = p[m], q[k] = p[n]
             PROVE  m < n
  BY DEF SameOrder, p
<1>2. j = (IF m < i THEN m ELSE m + 1) /\ k = (IF n < i THEN n ELSE n + 1)
  <2>1. \A d \in DOMAIN p : /\ (IF d < i THEN d ELSE d + 1) \in DOMAIN q
                            /\ p[d] = q[IF d < i THEN d ELSE d + 1]
    <3> TAKE d \in DOMAIN p
    <3>1. d \in 1 .. (Len(q) - 1) /\ i \in Nat
      BY <1>1
    <3>2. CASE d < i BY <1>1, <3>1, <3>2
    <3>3. CASE ~(d < i) BY <1>1, <3>1, <3>3
    <3> QED BY <3>2, <3>3
  <2> QED BY <2>1 DEF Distinct
<1> QED BY <1>1, <1>2

(* So does the first one.                                                  *)
LEMMA TailOrder ==
    ASSUME NEW S, NEW q \in Seq(S), q # <<>>, Distinct(q)
    PROVE  /\ SameOrder(q, Tail(q))
           /\ \A k \in DOMAIN q : q[k] = Head(q) => k = 1
<1>1. /\ DOMAIN q = 1 .. Len(q) /\ Len(q) \in Nat /\ Len(q) > 0
      /\ DOMAIN Tail(q) = 1 .. (Len(q) - 1) /\ Head(q) = q[1]
      /\ \A m \in 1 .. (Len(q) - 1) : Tail(q)[m] = q[m + 1]
  OBVIOUS
<1>2. \A m \in DOMAIN Tail(q) : m + 1 \in DOMAIN q /\ Tail(q)[m] = q[m + 1]
  BY <1>1
<1>3. ASSUME NEW j \in DOMAIN q, NEW k \in DOMAIN q, NEW m \in DOMAIN Tail(q),
             NEW n \in DOMAIN Tail(q), j < k, q[j] = Tail(q)[m], q[k] = Tail(q)[n]
      PROVE  m < n
  <2>1. j = m + 1 /\ k = n + 1
    BY <1>2, <1>3 DEF Distinct
  <2> QED BY <1>1, <1>3, <2>1
<1>4. \A k \in DOMAIN q : q[k] = Head(q) => k = 1
  BY <1>1 DEF Distinct
<1> QED BY <1>3, <1>4 DEF SameOrder

(* And a new last element.                                                 *)
LEMMA AppendOrder ==
    ASSUME NEW S, NEW q \in Seq(S), NEW x \in S, x \notin ToSet(q), Distinct(q)
    PROVE  SameOrder(q, Append(q, x))
<1>1. /\ DOMAIN Append(q, x) = 1 .. (Len(q) + 1) /\ DOMAIN q = 1 .. Len(q)
      /\ \A i \in 1 .. Len(q) : Append(q, x)[i] = q[i]
      /\ Append(q, x)[Len(q) + 1] = x /\ Len(q) \in Nat
  OBVIOUS
<1>2. \A i \in 1 .. Len(q) : q[i] # x
  BY <1>1 DEF ToSet
<1>3. \A j \in DOMAIN q, m \in DOMAIN Append(q, x) : q[j] = Append(q, x)[m] => j = m
  BY <1>1, <1>2 DEF Distinct
<1> QED BY <1>3 DEF SameOrder

(* Two steps that keep the order keep it together.                         *)
LEMMA SameOrderTrans ==
    ASSUME NEW q, NEW p, NEW r, SameOrder(q, p), SameOrder(p, r),
           ToSet(r) \cap ToSet(q) \subseteq ToSet(p)
    PROVE  SameOrder(q, r)
<1> SUFFICES ASSUME NEW j \in DOMAIN q, NEW k \in DOMAIN q, NEW m \in DOMAIN r,
                    NEW n \in DOMAIN r, j < k, q[j] = r[m], q[k] = r[n]
             PROVE  m < n
  BY DEF SameOrder
<1>1. q[j] \in ToSet(p) /\ q[k] \in ToSet(p)
  BY DEF ToSet
<1>2. PICK b \in DOMAIN p, c \in DOMAIN p : p[b] = q[j] /\ p[c] = q[k]
  BY <1>1 DEF ToSet
<1>3. b < c
  BY <1>2 DEF SameOrder
<1> QED BY <1>2, <1>3 DEF SameOrder

(* RemoveQueuedPlayer keeps the order, and lets somebody in only when all  *)
(* before him have left the queue.                                         *)
LEMMA RemoveQueuedPlayerOrder ==
    ASSUME NEW q \in Seq(Sessions), Distinct(q), NEW s
    PROVE  LET r == RemoveQueuedPlayer(q, s) IN
           /\ SameOrder(q, r.queue)
           /\ \A j, k \in DOMAIN q :
                 j < k /\ q[k] \in r.out /\ q[k] # s => q[j] \in r.out
<1> DEFINE rest == EraseQueued(q, s)
           left == IF IsQueued(q, s) THEN {s} ELSE {}
           admit == rest # <<>> /\ HasPlace(RemainingSessions(q, s))
           r == RemoveQueuedPlayer(q, s)
<1>1. IsQueued(q, s) => /\ GetQueuePos(q, s) \in 1 .. Len(q)
                        /\ q[GetQueuePos(q, s)] = s
  <2>1. s \in ToSet(q) => \E k \in DOMAIN q : q[k] = s
    BY DEF ToSet
  <2>2. DOMAIN q = 1 .. Len(q)
    OBVIOUS
  <2> QED BY <2>1, <2>2 DEF IsQueued, GetQueuePos
<1>2. /\ rest \in Seq(Sessions) /\ Distinct(rest)
      /\ ToSet(rest) = ToSet(q) \ left /\ SameOrder(q, rest)
  <2>1. CASE IsQueued(q, s)
    <3>1. rest = RemoveAt(q, GetQueuePos(q, s))
      BY <2>1 DEF EraseQueued
    <3>2. rest \in Seq(Sessions) /\ Distinct(rest) /\ ToSet(rest) = ToSet(q) \ {s}
      BY <1>1, <2>1, <3>1, RemoveAtElements, RemoveAtSet
    <3>3. SameOrder(q, rest)
      BY <1>1, <2>1, <3>1, RemoveAtOrder
    <3> QED BY <2>1, <3>2, <3>3
  <2>2. CASE ~IsQueued(q, s)
    <3>1. rest = q /\ left = {}
      BY <2>2 DEF EraseQueued
    <3>2. SameOrder(q, q)
      BY DEF SameOrder, Distinct
    <3> QED BY <3>1, <3>2
  <2> QED BY <2>1, <2>2
<1>3. /\ r.queue = IF admit THEN Tail(rest) ELSE rest
      /\ r.out = left \cup (IF admit THEN {Head(rest)} ELSE {})
      /\ left \subseteq {s}
  BY DEF RemoveQueuedPlayer
<1> HIDE DEF rest, left, r
<1>4. CASE admit
  <2>1. /\ Tail(rest) \in Seq(Sessions) /\ Head(rest) \in ToSet(rest)
        /\ ToSet(Tail(rest)) = ToSet(rest) \ {Head(rest)}
        /\ SameOrder(rest, Tail(rest))
        /\ \A k \in DOMAIN rest : rest[k] = Head(rest) => k = 1
    BY <1>2, <1>4, TailSet, TailOrder
  <2>2. SameOrder(q, Tail(rest))
    BY <1>2, <2>1, SameOrderTrans
  <2>3. ASSUME NEW j \in DOMAIN q, NEW k \in DOMAIN q, j < k, q[k] \in r.out,
               q[k] # s, q[j] \notin r.out
        PROVE  FALSE
    <3>1. q[k] = Head(rest) /\ q[j] \notin left /\ q[j] \in ToSet(q)
      BY <1>3, <2>3 DEF ToSet
    <3>2. PICK m \in DOMAIN rest : rest[m] = q[j]
      BY <1>2, <3>1 DEF ToSet
    <3>3. PICK n \in DOMAIN rest : rest[n] = q[k]
      BY <2>1, <3>1 DEF ToSet
    <3>4. m < n /\ n = 1
      BY <1>2, <2>1, <2>3, <3>1, <3>2, <3>3 DEF SameOrder
    <3> QED BY <1>2, <3>2, <3>4
  <2> QED BY <1>3, <1>4, <2>2, <2>3 DEF r
<1>5. CASE ~admit
  <2>1. r.queue = rest /\ r.out \subseteq {s}
    BY <1>3, <1>5
  <2> QED BY <1>2, <2>1 DEF r
<1> QED BY <1>4, <1>5

(* Where x stands in a queue that has it.                                  *)
LEMMA QueuePos ==
    ASSUME NEW q, NEW x \in ToSet(q)
    PROVE  GetQueuePos(q, x) \in DOMAIN q /\ q[GetQueuePos(q, x)] = x
<1>1. \E k \in DOMAIN q : q[k] = x
  BY DEF ToSet
<1> QED BY <1>1 DEF GetQueuePos

(* The queue keeps its order, and nobody is let in before those ahead.     *)
Fair == \A j, k \in DOMAIN m_QueuedPlayer :
           LET before == m_QueuedPlayer[j]
               behind == m_QueuedPlayer[k]
           IN  j < k /\ before \in ToSet(m_QueuedPlayer')
               => /\ ~Admitted(behind)
                  /\ behind \in ToSet(m_QueuedPlayer')
                     => GetQueuePos(m_QueuedPlayer', before)
                        < GetQueuePos(m_QueuedPlayer', behind)

(* Two facts about a step that make it fair.                               *)
LEMMA FairStep ==
    ASSUME SameOrder(m_QueuedPlayer, m_QueuedPlayer'),
           \A j, k \in DOMAIN m_QueuedPlayer :
              j < k /\ Admitted(m_QueuedPlayer[k])
              => m_QueuedPlayer[j] \notin ToSet(m_QueuedPlayer')
    PROVE  Fair
<1> SUFFICES ASSUME NEW j \in DOMAIN m_QueuedPlayer,
                    NEW k \in DOMAIN m_QueuedPlayer, j < k,
                    m_QueuedPlayer[j] \in ToSet(m_QueuedPlayer'),
                    m_QueuedPlayer[k] \in ToSet(m_QueuedPlayer')
             PROVE  GetQueuePos(m_QueuedPlayer', m_QueuedPlayer[j])
                    < GetQueuePos(m_QueuedPlayer', m_QueuedPlayer[k])
  BY DEF Fair
<1> QED BY QueuePos DEF SameOrder

(* A session that comes in overtakes nobody who waits.                     *)
LEMMA AddSessionFair ==
    ASSUME IInv, AddSession_
    PROVE  Fair
<1> USE QueueAssumption DEF QueueAssumption
<1> DEFINE s   == Head(addSessQueue)
           a   == AccountOf[s]
           old == m_sessions[a]
           r   == IF old = None
                  THEN [queue |-> m_QueuedPlayer, found |-> FALSE, out |-> {}]
                  ELSE RemoveQueuedPlayer(m_QueuedPlayer, old)
<1>1. /\ phase = "add" /\ addSessQueue # <<>>
      /\ life' = [x \in Sessions |-> CASE x = s   -> "listed"
                                       [] x = old -> "deleted"
                                       [] OTHER   -> life[x]]
  BY DEF AddSession_
<1>2. PICK wait \in BOOLEAN :
         /\ m_QueuedPlayer' = IF wait THEN Append(r.queue, s) ELSE r.queue
         /\ m_inQueue' = [x \in Sessions |->
                             IF x = s THEN wait
                             ELSE m_inQueue[x] /\ x \notin r.out]
  BY Zenon DEF AddSession_
<1>3. /\ s \in Sessions /\ life[s] = "pending" /\ s \notin ToSet(m_QueuedPlayer)
      /\ old # s
  <2>1. /\ s \in Sessions /\ life[s] = "pending"
        /\ s \notin ToSet(m_QueuedPlayer)
    BY <1>1, HeadIsNew
  <2> QED BY <2>1 DEF IInv, ListSound, TypeOK
<1>4. /\ m_QueuedPlayer \in Seq(Sessions) /\ Distinct(m_QueuedPlayer)
      /\ \A x \in ToSet(m_QueuedPlayer) :
            x \in Sessions /\ life[x] = "listed" /\ m_inQueue[x]
  <2>1. m_QueuedPlayer \in Seq(Sessions)
    BY DEF IInv, TypeOK
  <2>2. ToSet(m_QueuedPlayer) \subseteq Sessions
    BY <2>1 DEF ToSet
  <2> QED BY <1>1, <2>1, <2>2 DEF IInv, QueueSound, Distinct
<1>5. /\ r.queue \in Seq(Sessions) /\ Distinct(r.queue)
      /\ ToSet(r.queue) = ToSet(m_QueuedPlayer) \ r.out
      /\ SameOrder(m_QueuedPlayer, r.queue)
      /\ \A j, k \in DOMAIN m_QueuedPlayer :
            /\ j < k /\ m_QueuedPlayer[k] \in r.out /\ m_QueuedPlayer[k] # old
            => m_QueuedPlayer[j] \in r.out
  <2>1. CASE old = None
    <3>1. r.queue = m_QueuedPlayer /\ r.out = {}
      BY <2>1
    <3>2. SameOrder(m_QueuedPlayer, m_QueuedPlayer)
      BY <1>4 DEF SameOrder, Distinct
    <3> QED BY <1>4, <3>1, <3>2
  <2>2. CASE old # None
    <3>1. r = RemoveQueuedPlayer(m_QueuedPlayer, old)
      BY <2>2
    <3> QED BY <1>4, <3>1, RemoveQueuedPlayerResult, RemoveQueuedPlayerOrder
  <2> QED BY <2>1, <2>2
<1> HIDE DEF s, a, old, r
<1>6. /\ SameOrder(m_QueuedPlayer, m_QueuedPlayer')
      /\ ToSet(m_QueuedPlayer') \subseteq ToSet(r.queue) \cup {s}
  <2>1. CASE wait
    <3>1. /\ SameOrder(r.queue, m_QueuedPlayer')
          /\ ToSet(m_QueuedPlayer') = ToSet(r.queue) \cup {s}
      BY <1>2, <1>3, <1>5, <2>1, AppendOrder, AppendSet
    <3> QED BY <1>3, <1>5, <3>1, SameOrderTrans
  <2>2. CASE ~wait
    BY <1>2, <1>5, <2>2
  <2> QED BY <2>1, <2>2
<1>7. ASSUME NEW j \in DOMAIN m_QueuedPlayer, NEW k \in DOMAIN m_QueuedPlayer,
             j < k, Admitted(m_QueuedPlayer[k])
      PROVE  m_QueuedPlayer[j] \notin ToSet(m_QueuedPlayer')
  <2> DEFINE x == m_QueuedPlayer[k]
             y == m_QueuedPlayer[j]
  <2>1. x \in ToSet(m_QueuedPlayer) /\ y \in ToSet(m_QueuedPlayer)
    BY DEF ToSet
  <2>2. /\ x \in Sessions /\ m_inQueue[x] /\ x # s /\ y # s
        /\ life'[x] = "listed" /\ ~m_inQueue'[x]
    BY <1>3, <1>4, <1>7, <2>1 DEF Admitted
  <2>3. x # old
    BY <1>1, <1>3, <2>2
  <2>4. x \in r.out
    <3>1. m_inQueue'[x] = (m_inQueue[x] /\ x \notin r.out)
      BY <1>2, <2>2
    <3> QED BY <2>2, <3>1
  <2>5. y \in r.out
    BY <1>5, <1>7, <2>3, <2>4
  <2> QED BY <1>5, <1>6, <2>2, <2>5
<1> QED BY <1>6, <1>7, FairStep

(* A session that goes admits the first who waits.                         *)
LEMMA RemoveClosedFair ==
    ASSUME IInv, NEW a \in Accounts, RemoveClosedSession(a)
    PROVE  Fair
<1> USE QueueAssumption DEF QueueAssumption
<1> DEFINE s  == m_sessions[a]
           q  == m_QueuedPlayer
           r1 == RemoveQueuedPlayer(q, s)
           r2 == RemoveQueuedPlayer(r1.queue, s)
<1>1. /\ phase = "update" /\ a \in todo
      /\ life' = [life EXCEPT ![s] = "deleted"]
      /\ q' = r2.queue
      /\ m_inQueue' = [x \in Sessions |->
                          m_inQueue[x] /\ x \notin r1.out \cup r2.out]
  BY DEF RemoveClosedSession
<1>2. s \in Sessions
  BY <1>1 DEF IInv, TodoSound, Listed, TypeOK
<1>3. /\ q \in Seq(Sessions) /\ Distinct(q)
      /\ \A x \in ToSet(q) : x \in Sessions /\ life[x] = "listed" /\ m_inQueue[x]
  <2>1. q \in Seq(Sessions)
    BY DEF IInv, TypeOK
  <2>2. ToSet(q) \subseteq Sessions
    BY <2>1 DEF ToSet
  <2> QED BY <1>1, <2>1, <2>2 DEF IInv, QueueSound, Distinct
<1>4. /\ r1.queue \in Seq(Sessions) /\ Distinct(r1.queue)
      /\ ToSet(r1.queue) = ToSet(q) \ r1.out
      /\ SameOrder(q, r1.queue)
      /\ \A j, k \in DOMAIN q :
            j < k /\ q[k] \in r1.out /\ q[k] # s => q[j] \in r1.out
  BY <1>3, RemoveQueuedPlayerResult, RemoveQueuedPlayerOrder
<1>5. /\ ToSet(r2.queue) = ToSet(r1.queue) \ r2.out
      /\ SameOrder(r1.queue, r2.queue)
      /\ \A j, k \in DOMAIN r1.queue :
            /\ j < k /\ r1.queue[k] \in r2.out /\ r1.queue[k] # s
            => r1.queue[j] \in r2.out
  <2> HIDE DEF r1
  <2> QED BY <1>4, RemoveQueuedPlayerResult, RemoveQueuedPlayerOrder
<1> HIDE DEF s, r1, r2
<1>6. SameOrder(q, q')
  BY <1>1, <1>4, <1>5, SameOrderTrans
<1>7. ASSUME NEW j \in DOMAIN q, NEW k \in DOMAIN q, j < k, Admitted(q[k])
      PROVE  q[j] \notin ToSet(q')
  <2> DEFINE x == q[k]
             y == q[j]
  <2>1. x \in ToSet(q) /\ y \in ToSet(q)
    BY DEF ToSet
  <2>2. /\ x \in Sessions /\ m_inQueue[x]
        /\ life'[x] = "listed" /\ ~m_inQueue'[x]
    BY <1>3, <1>7, <2>1 DEF Admitted
  <2>3. x # s
    BY <1>1, <1>2, <2>2 DEF IInv, TypeOK
  <2>4. x \in r1.out \cup r2.out
    <3>1. m_inQueue'[x] = (m_inQueue[x] /\ x \notin r1.out \cup r2.out)
      BY <1>1, <2>2
    <3> QED BY <2>2, <3>1
  <2>5. y \in r1.out \cup r2.out
    <3>1. CASE x \in r1.out
      BY <1>4, <1>7, <2>3, <3>1
    <3>2. CASE x \notin r1.out /\ y \notin r1.out
      <4>1. x \in ToSet(r1.queue) /\ y \in ToSet(r1.queue)
        BY <1>4, <2>1, <3>2
      <4>2. PICK m \in DOMAIN r1.queue, n \in DOMAIN r1.queue :
               r1.queue[m] = y /\ r1.queue[n] = x
        BY <4>1 DEF ToSet
      <4>3. m < n
        BY <1>4, <1>7, <4>2 DEF SameOrder
      <4> QED BY <1>5, <2>3, <2>4, <3>2, <4>2, <4>3
    <3> QED BY <3>1, <3>2
  <2> QED BY <1>1, <1>4, <1>5, <2>5
<1> QED BY <1>6, <1>7, FairStep

(* The other steps let nobody in.                                          *)
LEMMA NobodyAdmitted ==
    ASSUME IInv,
           \/ \E s \in Sessions : AddSession(s) \/ CloseSocket(s)
           \/ \E a \in Accounts : UpdateSession(a)
           \/ \E n \in Limits : SetPlayerAmountLimit(n)
           \/ BeginUpdateSessions \/ KickAll \/ RefuseSession \/ EndAdd
           \/ EndUpdate \/ DestroyWorld
    PROVE  /\ \A s \in Sessions : ~Admitted(s)
           /\ m_QueuedPlayer' \in {m_QueuedPlayer, <<>>}
           /\ phase # "destroyed"
<1>1. /\ m_QueuedPlayer' \in {m_QueuedPlayer, <<>>}
      /\ m_inQueue' = m_inQueue /\ phase # "destroyed"
  BY DEF AddSession, CloseSocket, UpdateSession, SetPlayerAmountLimit,
         BeginUpdateSessions, KickAll, RefuseSession, EndAdd, EndUpdate,
         DestroyWorld
<1>2. life \in [Sessions -> {"none", "pending", "listed", "deleted"}]
  BY DEF IInv, TypeOK
<1>3. \A s \in Sessions : life'[s] = "listed" => life[s] = "listed"
  BY <1>2 DEF AddSession, CloseSocket, UpdateSession, SetPlayerAmountLimit,
         BeginUpdateSessions, KickAll, RefuseSession, EndAdd, EndUpdate,
         DestroyWorld
<1> QED BY <1>1, <1>3 DEF Admitted

(* In every step: who stays in the login queue stays ahead of those behind *)
(* him, and none of those is let in.                                       *)
THEOREM FirstComeFirstServed == Spec => NoOvertaking
<1>1. ASSUME IInv, Next, ~UNCHANGED vars PROVE Fair
  <2>1. CASE AddSession_ BY <1>1, <2>1, AddSessionFair
  <2>2. ASSUME NEW a \in Accounts, RemoveClosedSession(a) PROVE Fair
    BY <1>1, <2>2, RemoveClosedFair
  <2>3. ASSUME \A s \in Sessions : ~Admitted(s),
               m_QueuedPlayer' \in {m_QueuedPlayer, <<>>},
               phase # "destroyed"
        PROVE  Fair
    <3>1. \A k \in DOMAIN m_QueuedPlayer : m_QueuedPlayer[k] \in Sessions
      BY <1>1 DEF IInv, TypeOK
    <3>2. CASE m_QueuedPlayer' = <<>>
      BY <3>2 DEF Fair, ToSet
    <3>3. CASE m_QueuedPlayer' = m_QueuedPlayer
      <4>1. SameOrder(m_QueuedPlayer, m_QueuedPlayer')
        BY <1>1, <2>3, <3>3 DEF IInv, QueueSound, SameOrder
      <4> QED BY <2>3, <3>1, <3>3, <4>1, FairStep
    <3> QED BY <2>3, <3>2, <3>3
  <2> QED BY <1>1, <2>1, <2>2, <2>3, NobodyAdmitted
          DEF Next, Network, WorldLoop, Command, Terminated
<1>2. IInv /\ [Next]_vars => [Fair]_vars
  BY <1>1
<1> QED BY SessionInvariant, <1>2, PTL DEF Spec, NoOvertaking, Fair

-----------------------------------------------------------------------------
(* The places in the world.                                                *)

(* How long the queue is after RemoveQueuedPlayer: f is 1 when s was       *)
(* queued, d is 1 when somebody was let in.                                *)
LEMMA RemoveQueuedPlayerCount ==
    ASSUME NEW q \in Seq(Sessions), NEW s
    PROVE  LET r == RemoveQueuedPlayer(q, s)
               n == RemainingSessions(q, s)
           IN  \E f, d \in 0..1 :
                 /\ r.found <=> f = 1
                 /\ f = 1 <=> s \in ToSet(q)
                 /\ f + d <= Len(q)
                 /\ Len(r.queue) = Len(q) - f - d
                 /\ n = IF f = 0 /\ GetActiveSessionCount(q) # 0
                        THEN GetActiveSessionCount(q) - 1
                        ELSE GetActiveSessionCount(q)
                 /\ d = 1 => HasPlace(n)
                 /\ d = 0 => /\ Len(r.queue) = 0 \/ ~HasPlace(n)
                             /\ r.out \subseteq {s}
<1> DEFINE rest == EraseQueued(q, s)
           n == RemainingSessions(q, s)
           admit == rest # <<>> /\ HasPlace(n)
           r == RemoveQueuedPlayer(q, s)
           f == IF s \in ToSet(q) THEN 1 ELSE 0
           d == IF admit THEN 1 ELSE 0
<1>1. /\ DOMAIN q = 1 .. Len(q) /\ Len(q) \in Nat
      /\ s \in ToSet(q) => \E k \in DOMAIN q : q[k] = s
  BY DEF ToSet
<1>2. /\ IsQueued(q, s) <=> s \in ToSet(q)
      /\ IsQueued(q, s) => GetQueuePos(q, s) \in 1 .. Len(q)
  <2>1. \A k \in DOMAIN q : k # 0
    BY <1>1
  <2> QED BY <1>1, <2>1 DEF IsQueued, GetQueuePos
<1>3. rest \in Seq(Sessions) /\ f \in 0..1 /\ f <= Len(q) /\ Len(rest) = Len(q) - f
  <2>1. CASE s \in ToSet(q)
    <3>1. rest = RemoveAt(q, GetQueuePos(q, s))
      BY <1>2, <2>1 DEF EraseQueued
    <3>2. rest \in Seq(Sessions) /\ Len(rest) = Len(q) - 1
      BY <1>2, <2>1, <3>1, RemoveAtElements
    <3> HIDE DEF rest
    <3> QED BY <1>1, <1>2, <2>1, <3>2
  <2>2. CASE s \notin ToSet(q)
    BY <1>1, <1>2, <2>2 DEF EraseQueued
  <2> QED BY <2>1, <2>2
<1>4. /\ r.queue = IF admit THEN Tail(rest) ELSE rest
      /\ r.out = (IF IsQueued(q, s) THEN {s} ELSE {})
                 \cup (IF admit THEN {Head(rest)} ELSE {})
      /\ r.found = IsQueued(q, s)
  BY DEF RemoveQueuedPlayer
<1>5. n = IF f = 0 /\ GetActiveSessionCount(q) # 0
          THEN GetActiveSessionCount(q) - 1
          ELSE GetActiveSessionCount(q)
  BY <1>2 DEF RemainingSessions
<1>6. (f = 1 <=> s \in ToSet(q)) /\ (r.found <=> f = 1)
  BY <1>2, <1>4
<1> HIDE DEF rest, n, r, f
<1>7. /\ f + d <= Len(q) /\ Len(r.queue) = Len(q) - f - d
  <2>1. rest # <<>> => Len(Tail(rest)) = Len(rest) - 1 /\ Len(rest) >= 1
    BY <1>3
  <2> QED BY <1>1, <1>3, <1>4, <2>1
<1>8. d = 0 => /\ Len(r.queue) = 0 \/ ~HasPlace(n)
               /\ r.out \subseteq {s}
  BY <1>3, <1>4
<1>9. d \in 0..1 /\ (d = 1 => HasPlace(n))
  OBVIOUS
<1> QED BY <1>3, <1>5, <1>6, <1>7, <1>8, <1>9 DEF r, n

(* The number of sessions when one is added, replaced or removed.          *)
LEMMA CountSessions ==
    ASSUME TypeOK, NEW a \in Accounts, NEW s \in Sessions \cup {None},
           m_sessions' = [m_sessions EXCEPT ![a] = s]
    PROVE  /\ SessionCount \in Nat /\ SessionCount' \in Nat
           /\ SessionCount' = SessionCount
                              - (IF m_sessions[a] = None THEN 0 ELSE 1)
                              + (IF s = None THEN 0 ELSE 1)
           /\ m_sessions[a] # None => SessionCount > 0
<1>1. IsFiniteSet(Listed)
  BY QueueAssumption, FS_Subset DEF Listed, QueueAssumption
<1>2. /\ Listed' = IF s = None THEN Listed \ {a} ELSE Listed \cup {a}
      /\ a \in Listed <=> m_sessions[a] # None
  BY DEF Listed, TypeOK
<1>3. SessionCount \in Nat /\ SessionCount = Cardinality(Listed)
  BY <1>1, FS_CardinalityType DEF SessionCount
<1>4. SessionCount' = Cardinality(Listed')
  BY DEF SessionCount
<1>5. a \in Listed => Cardinality(Listed) # 0
  BY <1>1, FS_EmptySet
<1>6. /\ Cardinality(Listed \ {a}) =
            IF a \in Listed THEN Cardinality(Listed) - 1 ELSE Cardinality(Listed)
      /\ Cardinality(Listed \cup {a}) =
            IF a \in Listed THEN Cardinality(Listed) ELSE Cardinality(Listed) + 1
  BY <1>1, FS_AddElement, FS_RemoveElement
<1> QED BY <1>2, <1>3, <1>4, <1>5, <1>6

(* AddSession_ in numbers: f, d as above, w is 1 when the new session has  *)
(* to wait, e is 1 when it replaces an older one.                          *)
LEMMA AddSessionCount ==
    ASSUME IInv, AddSession_
    PROVE  LET s     == Head(addSessQueue)
               old   == m_sessions[AccountOf[s]]
               q     == m_QueuedPlayer
               act   == SessionCount - Len(q)
           IN  \E f, d, w, e \in 0..1 :
                 /\ SessionCount \in Nat
                 /\ e = 1 <=> old # None
                 /\ e = 0 => f = 0 /\ d = 0
                 /\ f + d <= Len(q)
                 /\ Len(q') = Len(q) - f - d + w
                 /\ SessionCount' = SessionCount + 1 - e
                 /\ d = 1 => \/ m_playerLimit = 0
                             \/ f = 1 /\ act < m_playerLimit
                             \/ f = 0 /\ act # 0 /\ act - 1 < m_playerLimit
                             \/ f = 0 /\ act = 0
                 /\ d = 0 /\ e = 1 =>
                       \/ Len(q) - f = 0
                       \/ m_playerLimit > 0 /\ f = 1 /\ act >= m_playerLimit
                       \/ m_playerLimit > 0 /\ f = 0 /\ act - 1 >= m_playerLimit
                 /\ w = 1 => /\ m_playerLimit > 0
                             /\ SessionCount' - (1 - f) >= m_playerLimit
                 /\ w = 0 => \/ m_playerLimit = 0
                             \/ SessionCount' - (1 - f) < m_playerLimit
                             \/ s \in Skip \/ AccountOf[s] \in m_disconnects
                 /\ m_inQueue'[s] <=> w = 1
                 /\ d = 0 => \A x \in Sessions \ {s, old} :
                                m_inQueue'[x] = m_inQueue[x]
<1> USE QueueAssumption DEF QueueAssumption
<1> DEFINE s     == Head(addSessQueue)
           a     == AccountOf[s]
           old   == m_sessions[a]
           q     == m_QueuedPlayer
           act   == SessionCount - Len(q)
           r     == IF old = None
                    THEN [queue |-> m_QueuedPlayer, found |-> FALSE, out |-> {}]
                    ELSE RemoveQueuedPlayer(m_QueuedPlayer, old)
           count == (IF old = None THEN SessionCount + 1 ELSE SessionCount)
                    - (IF r.found THEN 0 ELSE 1)
           wait  == /\ m_playerLimit > 0
                    /\ count >= m_playerLimit
                    /\ s \notin Skip
                    /\ ~HasRecentlyDisconnected(a)
<1>1. /\ phase = "add" /\ addSessQueue # <<>>
      /\ m_sessions' = [m_sessions EXCEPT ![a] = s]
      /\ q' = IF wait THEN Append(r.queue, s) ELSE r.queue
      /\ m_inQueue' = [x \in Sessions |->
                          IF x = s THEN wait
                          ELSE m_inQueue[x] /\ x \notin r.out]
  BY DEF AddSession_
<1>2. /\ s \in Sessions /\ a \in Accounts /\ s # None
      /\ old \in Sessions \cup {None} /\ m_playerLimit \in Nat
      /\ q \in Seq(Sessions) /\ Len(q) \in Nat
      /\ m_inQueue \in [Sessions -> BOOLEAN]
  <2>1. s \in Sessions
    BY <1>1, HeadIsNew
  <2> QED BY <2>1 DEF IInv, TypeOK
<1>3. /\ SessionCount \in Nat /\ SessionCount' \in Nat
      /\ SessionCount' = IF old = None THEN SessionCount + 1 ELSE SessionCount
  <2>1. /\ SessionCount \in Nat /\ SessionCount' \in Nat
        /\ SessionCount' = SessionCount - (IF old = None THEN 0 ELSE 1)
                                        + (IF s = None THEN 0 ELSE 1)
    BY <1>1, <1>2, CountSessions DEF IInv
  <2> QED BY <1>2, <2>1
<1>4. \E f, d \in 0..1 :
        /\ r.found <=> f = 1
        /\ old = None => f = 0 /\ d = 0
        /\ f + d <= Len(q) /\ Len(r.queue) = Len(q) - f - d
        /\ d = 1 => \/ m_playerLimit = 0
                    \/ f = 1 /\ act < m_playerLimit
                    \/ f = 0 /\ act # 0 /\ act - 1 < m_playerLimit
                    \/ f = 0 /\ act = 0
        /\ d = 0 /\ old # None =>
              \/ Len(q) - f = 0
              \/ m_playerLimit > 0 /\ f = 1 /\ act >= m_playerLimit
              \/ m_playerLimit > 0 /\ f = 0 /\ act - 1 >= m_playerLimit
        /\ d = 0 => r.out \subseteq {old}
        /\ r.queue \in Seq(Sessions)
  <2>1. CASE old = None
    <3>1. r.queue = q /\ r.found = FALSE /\ r.out = {}
      BY <2>1
    <3>2. 0 \in 0..1
      OBVIOUS
    <3> HIDE DEF s, old, r, q, act
    <3> QED BY <1>2, <2>1, <3>1, <3>2
  <2>2. CASE old # None
    <3>1. r = RemoveQueuedPlayer(q, old)
      BY <2>2
    <3>2. r.queue \in Seq(Sessions)
      <4>1. Distinct(q)
        BY <1>1 DEF IInv, QueueSound, Distinct
      <4> QED BY <1>2, <3>1, <4>1, RemoveQueuedPlayerResult
    <3> DEFINE n == RemainingSessions(q, old)
    <3> HIDE DEF n, r, s, old, q
    <3>3. PICK f, d \in 0..1 :
             /\ r.found <=> f = 1
             /\ f + d <= Len(q)
             /\ Len(r.queue) = Len(q) - f - d
             /\ n = IF f = 0 /\ GetActiveSessionCount(q) # 0
                    THEN GetActiveSessionCount(q) - 1
                    ELSE GetActiveSessionCount(q)
             /\ d = 1 => HasPlace(n)
             /\ d = 0 => /\ Len(r.queue) = 0 \/ ~HasPlace(n)
                         /\ r.out \subseteq {old}
      BY <1>2, <3>1, RemoveQueuedPlayerCount DEF n
    <3>4. /\ d = 1 => \/ m_playerLimit = 0
                      \/ f = 1 /\ act < m_playerLimit
                      \/ f = 0 /\ act # 0 /\ act - 1 < m_playerLimit
                      \/ f = 0 /\ act = 0
          /\ d = 0 => \/ Len(q) - f = 0
                      \/ m_playerLimit > 0 /\ f = 1 /\ act >= m_playerLimit
                      \/ m_playerLimit > 0 /\ f = 0 /\ act - 1 >= m_playerLimit
      BY <1>2, <1>3, <3>3 DEF HasPlace, GetActiveSessionCount
    <3> HIDE DEF act
    <3> QED BY <2>2, <3>2, <3>3, <3>4
  <2> QED BY <2>1, <2>2
<1> HIDE DEF s, a, old, q, act, r
<1>5. PICK f \in 0..1, d \in 0..1 :
        /\ r.found <=> f = 1
        /\ old = None => f = 0 /\ d = 0
        /\ f + d <= Len(q) /\ Len(r.queue) = Len(q) - f - d
        /\ d = 1 => \/ m_playerLimit = 0
                    \/ f = 1 /\ act < m_playerLimit
                    \/ f = 0 /\ act # 0 /\ act - 1 < m_playerLimit
                    \/ f = 0 /\ act = 0
        /\ d = 0 /\ old # None =>
              \/ Len(q) - f = 0
              \/ m_playerLimit > 0 /\ f = 1 /\ act >= m_playerLimit
              \/ m_playerLimit > 0 /\ f = 0 /\ act - 1 >= m_playerLimit
        /\ d = 0 => r.out \subseteq {old}
        /\ r.queue \in Seq(Sessions)
  BY <1>4
<1>6. count = SessionCount' - (1 - f)
  BY <1>3, <1>5
<1> DEFINE w == IF wait THEN 1 ELSE 0
           e == IF old = None THEN 0 ELSE 1
<1>7. w \in 0..1 /\ e \in 0..1 /\ (e = 1 <=> old # None) /\ (e = 0 => f = 0 /\ d = 0)
  BY <1>5
<1>8. Len(q') = Len(q) - f - d + w
  BY <1>1, <1>2, <1>5
<1>9. SessionCount' = SessionCount + 1 - e
  BY <1>3
<1>10. w = 1 => m_playerLimit > 0 /\ SessionCount' - (1 - f) >= m_playerLimit
  BY <1>6
<1>11. w = 0 => \/ m_playerLimit = 0
                \/ SessionCount' - (1 - f) < m_playerLimit
                \/ s \in Skip \/ a \in m_disconnects
  <2> HIDE DEF count
  <2> QED BY <1>2, <1>3, <1>5, <1>6 DEF HasRecentlyDisconnected
<1>12. m_inQueue'[s] <=> w = 1
  <2> HIDE DEF wait
  <2> QED BY <1>1, <1>2
<1>13. d = 0 => \A x \in Sessions \ {s, old} : m_inQueue'[x] = m_inQueue[x]
  <2> HIDE DEF wait
  <2>1. \A x \in Sessions \ {s} : m_inQueue'[x] = (m_inQueue[x] /\ x \notin r.out)
    BY <1>1
  <2> QED BY <1>2, <1>5, <2>1
<1> HIDE DEF w, e
<1>14. d = 0 /\ e = 1 =>
          \/ Len(q) - f = 0
          \/ m_playerLimit > 0 /\ f = 1 /\ act >= m_playerLimit
          \/ m_playerLimit > 0 /\ f = 0 /\ act - 1 >= m_playerLimit
  BY <1>5, <1>7
<1> QED BY <1>3, <1>5, <1>7, <1>8, <1>9, <1>10, <1>11, <1>12, <1>13, <1>14
        DEF s, a, old, q, act

(* RemoveClosedSession in numbers: f as above, d and g for the somebody    *)
(* that the first and the second call let in.                              *)
LEMMA RemoveClosedCount ==
    ASSUME IInv, NEW a \in Accounts, RemoveClosedSession(a)
    PROVE  LET s   == m_sessions[a]
               q   == m_QueuedPlayer
               act == SessionCount - Len(q)
           IN  \E f, d, g \in 0..1 :
                 /\ SessionCount \in Nat
                 /\ f + d + g <= Len(q)
                 /\ Len(q') = Len(q) - f - d - g
                 /\ SessionCount' = SessionCount - 1
                 /\ m_playerLimit > 0 =>
                      /\ d = 1 => \/ f = 1 /\ act < m_playerLimit
                                  \/ f = 0 /\ act # 0 /\ act - 1 < m_playerLimit
                                  \/ f = 0 /\ act = 0
                      /\ d = 0 => \/ Len(q) - f = 0
                                  \/ f = 1 /\ act >= m_playerLimit
                                  \/ f = 0 /\ act - 1 >= m_playerLimit
                                  \/ f = 0 /\ act = 0 /\ act >= m_playerLimit
                      /\ g = 1 => \/ act + f + d - 1 < m_playerLimit
                                  \/ act + f + d = 0
                      /\ g = 0 => \/ Len(q) - f - d = 0
                                  \/ act + f + d - 1 >= m_playerLimit
                                  \/ act + f + d = 0 /\ 0 >= m_playerLimit
                 /\ d + g = 0 => \A x \in Sessions \ {s} :
                                    m_inQueue'[x] = m_inQueue[x]
<1> USE QueueAssumption DEF QueueAssumption
<1> DEFINE s   == m_sessions[a]
           q   == m_QueuedPlayer
           act == SessionCount - Len(q)
           r1  == RemoveQueuedPlayer(q, s)
           r2  == RemoveQueuedPlayer(r1.queue, s)
           n1  == RemainingSessions(q, s)
           n2  == RemainingSessions(r1.queue, s)
<1>1. /\ phase = "update" /\ a \in todo
      /\ m_sessions' = [m_sessions EXCEPT ![a] = None]
      /\ q' = r2.queue
      /\ m_inQueue' = [x \in Sessions |->
                          m_inQueue[x] /\ x \notin r1.out \cup r2.out]
  BY DEF RemoveClosedSession
<1>2. /\ s \in Sessions /\ s # None /\ q \in Seq(Sessions) /\ Len(q) \in Nat
      /\ Distinct(q) /\ m_playerLimit \in Nat
      /\ m_inQueue \in [Sessions -> BOOLEAN]
  BY <1>1 DEF IInv, TodoSound, Listed, TypeOK, QueueSound, Distinct
<1>3. /\ SessionCount \in Nat /\ SessionCount' = SessionCount - 1
  <2>1. /\ SessionCount \in Nat
        /\ SessionCount' = SessionCount - (IF s = None THEN 0 ELSE 1)
                           + (IF None = None THEN 0 ELSE 1)
    BY <1>1, CountSessions DEF IInv
  <2> QED BY <1>2, <2>1
<1>4. r1.queue \in Seq(Sessions) /\ s \notin ToSet(r1.queue)
  BY <1>2, RemoveQueuedPlayerResult
<1>5. \E f, d \in 0..1 :
        /\ f + d <= Len(q) /\ Len(r1.queue) = Len(q) - f - d
        /\ n1 = IF f = 0 /\ GetActiveSessionCount(q) # 0
                THEN GetActiveSessionCount(q) - 1
                ELSE GetActiveSessionCount(q)
        /\ d = 1 => HasPlace(n1)
        /\ d = 0 => /\ Len(r1.queue) = 0 \/ ~HasPlace(n1)
                    /\ r1.out \subseteq {s}
  <2> HIDE DEF s, q
  <2> QED BY <1>2, RemoveQueuedPlayerCount
<1> HIDE DEF s, q, r1, n1
<1>6. \E f, g \in 0..1 :
        /\ f = 1 <=> s \in ToSet(r1.queue)
        /\ f + g <= Len(r1.queue) /\ Len(r2.queue) = Len(r1.queue) - f - g
        /\ n2 = IF f = 0 /\ GetActiveSessionCount(r1.queue) # 0
                THEN GetActiveSessionCount(r1.queue) - 1
                ELSE GetActiveSessionCount(r1.queue)
        /\ g = 1 => HasPlace(n2)
        /\ g = 0 => /\ Len(r2.queue) = 0 \/ ~HasPlace(n2)
                    /\ r2.out \subseteq {s}
  BY <1>4, RemoveQueuedPlayerCount
<1> HIDE DEF r2, n2
<1>7. PICK f \in 0..1, d \in 0..1 :
        /\ f + d <= Len(q) /\ Len(r1.queue) = Len(q) - f - d
        /\ n1 = IF f = 0 /\ GetActiveSessionCount(q) # 0
                THEN GetActiveSessionCount(q) - 1
                ELSE GetActiveSessionCount(q)
        /\ d = 1 => HasPlace(n1)
        /\ d = 0 => /\ Len(r1.queue) = 0 \/ ~HasPlace(n1)
                    /\ r1.out \subseteq {s}
  BY <1>5
<1>8. PICK g \in 0..1 :
        /\ g <= Len(r1.queue) /\ Len(r2.queue) = Len(r1.queue) - g
        /\ n2 = IF GetActiveSessionCount(r1.queue) # 0
                THEN GetActiveSessionCount(r1.queue) - 1
                ELSE GetActiveSessionCount(r1.queue)
        /\ g = 1 => HasPlace(n2)
        /\ g = 0 => /\ Len(r2.queue) = 0 \/ ~HasPlace(n2)
                    /\ r2.out \subseteq {s}
  BY <1>2, <1>4, <1>6, <1>7
<1>9. f + d + g <= Len(q) /\ Len(q') = Len(q) - f - d - g
  BY <1>1, <1>2, <1>7, <1>8
<1>10. m_playerLimit > 0 =>
         /\ d = 1 => \/ f = 1 /\ act < m_playerLimit
                     \/ f = 0 /\ act # 0 /\ act - 1 < m_playerLimit
                     \/ f = 0 /\ act = 0
         /\ d = 0 => \/ Len(q) - f = 0
                     \/ f = 1 /\ act >= m_playerLimit
                     \/ f = 0 /\ act - 1 >= m_playerLimit
                     \/ f = 0 /\ act = 0 /\ act >= m_playerLimit
  BY <1>2, <1>3, <1>7 DEF HasPlace, GetActiveSessionCount
<1>11. m_playerLimit > 0 =>
         /\ g = 1 => \/ act + f + d - 1 < m_playerLimit
                     \/ act + f + d = 0
         /\ g = 0 => \/ Len(q) - f - d = 0
                     \/ act + f + d - 1 >= m_playerLimit
                     \/ act + f + d = 0 /\ 0 >= m_playerLimit
  <2>1. GetActiveSessionCount(r1.queue) = act + f + d
    BY <1>2, <1>3, <1>7 DEF GetActiveSessionCount
  <2> QED BY <1>2, <1>3, <1>7, <1>8, <2>1 DEF HasPlace
<1>12. d + g = 0 => \A x \in Sessions \ {s} : m_inQueue'[x] = m_inQueue[x]
  <2>1. d + g = 0 => d = 0 /\ g = 0
    OBVIOUS
  <2>2. \A x \in Sessions : m_inQueue'[x] = (m_inQueue[x] /\ x \notin r1.out \cup r2.out)
    BY <1>1
  <2> QED BY <1>2, <1>7, <1>8, <2>1, <2>2
<1> HIDE DEF act
<1> QED BY <1>3, <1>9, <1>10, <1>11, <1>12 DEF s, q, act

(* Whoever comes or leaves, the places stay filled while somebody waits.   *)
LEMMA AddSessionFills ==
    ASSUME IInv, AddSession_, PlacesFilled
    PROVE  PlacesFilled'
<1>1. phase = "add" /\ m_playerLimit' = m_playerLimit
  BY DEF AddSession_
<1>2. m_playerLimit \in Nat /\ m_QueuedPlayer \in Seq(Sessions)
  BY DEF IInv, TypeOK
<1>3. m_QueuedPlayer' \in Seq(Sessions)
  BY AddSessionKeeps DEF IInv, TypeOK
<1> DEFINE q   == m_QueuedPlayer
           act == SessionCount - Len(q)
           s   == Head(addSessQueue)
<1>4. PICK f, d, w, e \in 0..1 :
        /\ SessionCount \in Nat
        /\ e = 0 => f = 0 /\ d = 0
        /\ f + d <= Len(q)
        /\ Len(q') = Len(q) - f - d + w
        /\ SessionCount' = SessionCount + 1 - e
        /\ d = 1 => \/ m_playerLimit = 0
                    \/ f = 1 /\ act < m_playerLimit
                    \/ f = 0 /\ act # 0 /\ act - 1 < m_playerLimit
                    \/ f = 0 /\ act = 0
        /\ d = 0 /\ e = 1 =>
              \/ Len(q) - f = 0
              \/ m_playerLimit > 0 /\ f = 1 /\ act >= m_playerLimit
              \/ m_playerLimit > 0 /\ f = 0 /\ act - 1 >= m_playerLimit
        /\ w = 1 => /\ m_playerLimit > 0
                    /\ SessionCount' - (1 - f) >= m_playerLimit
  BY AddSessionCount
<1>5. /\ Len(q) \in Nat /\ Len(q') \in Nat
      /\ Len(q) > 0 => m_playerLimit > 0 /\ act >= m_playerLimit
  <2>1. Len(q) > 0 => q # <<>>
    BY <1>2
  <2> QED BY <1>1, <1>2, <1>3, <2>1 DEF PlacesFilled, GetActiveSessionCount
<1>6. Len(q') > 0 => m_playerLimit > 0 /\ SessionCount' - Len(q') >= m_playerLimit
  <2> HIDE DEF q, s
  <2> QED BY <1>2, <1>4, <1>5
<1>7. q' # <<>> => Len(q') > 0
  BY <1>3
<1> QED BY <1>1, <1>6, <1>7 DEF PlacesFilled, GetActiveSessionCount

(* A session that goes leaves no place empty while somebody waits.         *)
LEMMA RemoveClosedFills ==
    ASSUME IInv, NEW a \in Accounts, RemoveClosedSession(a), PlacesFilled
    PROVE  PlacesFilled'
<1>1. phase = "update" /\ m_playerLimit' = m_playerLimit
  BY DEF RemoveClosedSession
<1>2. m_playerLimit \in Nat /\ m_QueuedPlayer \in Seq(Sessions)
  BY DEF IInv, TypeOK
<1>3. m_QueuedPlayer' \in Seq(Sessions)
  BY RemoveClosedKeeps DEF IInv, TypeOK
<1> DEFINE q   == m_QueuedPlayer
           act == SessionCount - Len(q)
<1>4. PICK f, d, g \in 0..1 :
        /\ SessionCount \in Nat
        /\ f + d + g <= Len(q)
        /\ Len(q') = Len(q) - f - d - g
        /\ SessionCount' = SessionCount - 1
        /\ m_playerLimit > 0 =>
             /\ d = 1 => \/ f = 1 /\ act < m_playerLimit
                         \/ f = 0 /\ act # 0 /\ act - 1 < m_playerLimit
                         \/ f = 0 /\ act = 0
             /\ d = 0 => \/ Len(q) - f = 0
                         \/ f = 1 /\ act >= m_playerLimit
                         \/ f = 0 /\ act - 1 >= m_playerLimit
                         \/ f = 0 /\ act = 0 /\ act >= m_playerLimit
             /\ g = 1 => \/ act + f + d - 1 < m_playerLimit
                         \/ act + f + d = 0
  BY RemoveClosedCount
<1>5. /\ Len(q) \in Nat /\ Len(q') \in Nat
      /\ Len(q) > 0 => m_playerLimit > 0 /\ act >= m_playerLimit
  <2>1. Len(q) > 0 => q # <<>>
    BY <1>2
  <2> QED BY <1>1, <1>2, <1>3, <2>1 DEF PlacesFilled, GetActiveSessionCount
<1>6. Len(q') > 0 => m_playerLimit > 0 /\ SessionCount' - Len(q') >= m_playerLimit
  <2> HIDE DEF q
  <2> QED BY <1>2, <1>4, <1>5
<1>7. q' # <<>> => Len(q') > 0
  BY <1>3
<1> QED BY <1>1, <1>6, <1>7 DEF PlacesFilled, GetActiveSessionCount

(* Unless PlayerLimit is changed, no step leaves a place idle while        *)
(* somebody waits: the one that becomes free is given away at once.        *)
THEOREM PlacesStayFilled == Spec => NoIdlePlace
<1>1. ASSUME IInv, [Next]_vars, PlacesFilled, m_playerLimit' = m_playerLimit
      PROVE  PlacesFilled'
  <2>1. CASE AddSession_ BY <1>1, <2>1, AddSessionFills
  <2>2. ASSUME NEW a \in Accounts, RemoveClosedSession(a) PROVE PlacesFilled'
    BY <1>1, <2>2, RemoveClosedFills
  <2>3. ASSUME m_sessions' = m_sessions,
               m_QueuedPlayer' \in {m_QueuedPlayer, <<>>},
               phase = "destroyed" => phase' = "destroyed"
        PROVE  PlacesFilled'
    BY <1>1, <2>3 DEF PlacesFilled, GetActiveSessionCount, SessionCount, Listed
  <2>4. CASE DestroyWorld
    BY <2>4 DEF DestroyWorld, PlacesFilled
  <2>5. ASSUME \/ \E s \in Sessions : AddSession(s) \/ CloseSocket(s)
               \/ \E a \in Accounts : UpdateSession(a)
               \/ \E n \in Limits : SetPlayerAmountLimit(n)
               \/ BeginUpdateSessions \/ KickAll \/ RefuseSession \/ EndAdd
               \/ EndUpdate \/ UNCHANGED vars
        PROVE  PlacesFilled'
    <3>1. /\ m_sessions' = m_sessions
          /\ m_QueuedPlayer' \in {m_QueuedPlayer, <<>>}
          /\ phase = "destroyed" => phase' = "destroyed"
      BY <2>5 DEF AddSession, CloseSocket, UpdateSession, SetPlayerAmountLimit,
                  BeginUpdateSessions, KickAll, RefuseSession, EndAdd,
                  EndUpdate, vars
    <3> QED BY <2>3, <3>1
  <2> QED BY <1>1, <2>1, <2>2, <2>4, <2>5
          DEF Next, Network, WorldLoop, Command, Terminated
<1>2. IInv /\ [Next]_vars =>
         [PlacesFilled /\ m_playerLimit' = m_playerLimit => PlacesFilled']_vars
  BY <1>1
<1> QED BY SessionInvariant, <1>2, PTL DEF Spec, NoIdlePlace

(* GetActiveSessionCount counts the sessions that are not queued: the      *)
(* unsigned difference of the code does not wrap.                          *)
LEMMA ActiveCount ==
    IInv /\ phase # "destroyed" =>
        /\ IsFiniteSet({a \in Accounts : IsActive(a)})
        /\ Cardinality({a \in Accounts : IsActive(a)})
              = SessionCount - Len(m_QueuedPlayer)
        /\ SessionCount \in Nat /\ Len(m_QueuedPlayer) \in Nat
<1> SUFFICES ASSUME IInv, phase # "destroyed"
             PROVE  /\ IsFiniteSet({a \in Accounts : IsActive(a)})
                    /\ Cardinality({a \in Accounts : IsActive(a)})
                          = SessionCount - Len(m_QueuedPlayer)
                    /\ SessionCount \in Nat /\ Len(m_QueuedPlayer) \in Nat
  OBVIOUS
<1> USE QueueAssumption DEF QueueAssumption
<1> DEFINE q == m_QueuedPlayer
           T == {AccountOf[x] : x \in ToSet(q)}
           f == [i \in 1..Len(q) |-> AccountOf[q[i]]]
<1>1. /\ q \in Seq(Sessions) /\ Len(q) \in Nat /\ DOMAIN q = 1..Len(q)
      /\ m_sessions \in [Accounts -> Sessions \cup {None}]
  BY DEF IInv, TypeOK
<1>2. /\ \A i, j \in 1..Len(q) : q[i] = q[j] => i = j
      /\ \A x \in ToSet(q) : x \in Sessions /\ m_sessions[AccountOf[x]] = x
      /\ \A i \in 1..Len(q) : q[i] \in ToSet(q)
      /\ \A x \in ToSet(q) : \E i \in 1..Len(q) : q[i] = x
  <2>1. ToSet(q) \subseteq Sessions
    BY <1>1 DEF ToSet
  <2> QED BY <1>1, <2>1 DEF IInv, QueueSound, ToSet
<1>3. Cardinality(T) = Len(q)
  <2>1. f \in [1..Len(q) -> T]
    BY <1>2
  <2>2. \A i, j \in 1..Len(q) : f[i] = f[j] => i = j
    BY <1>2
  <2>3. \A t \in T : \E i \in 1..Len(q) : f[i] = t
    BY <1>2
  <2>4. f \in Bijection(1..Len(q), T)
    BY <2>1, <2>2, <2>3
       DEF Bijection, Injection, Surjection, IsInjective
  <2>5. ExistsBijection(1..Len(q), T)
    BY <2>4 DEF ExistsBijection
  <2> HIDE DEF f, T
  <2> QED BY <1>1, <2>5, FS_CountingElements
<1>4. IsFiniteSet(Listed) /\ SessionCount \in Nat
  <2>1. IsFiniteSet(Listed)
    BY FS_Subset DEF Listed
  <2> QED BY <2>1, FS_CardinalityType DEF SessionCount
<1>5. T \subseteq Listed
  BY <1>1, <1>2 DEF Listed
<1>6. {a \in Accounts : IsActive(a)} = Listed \ T
  <2>1. \A a \in Listed : m_sessions[a] \in ToSet(q) <=> a \in T
    BY <1>2 DEF Listed, IInv, ListSound
  <2> QED BY <2>1 DEF Listed, IsActive
<1>7. Listed \cap T = T
  BY <1>5
<1> HIDE DEF T, f, q
<1>8. /\ IsFiniteSet(Listed \ T)
      /\ Cardinality(Listed \ T) = SessionCount - Len(q)
  <2>1. /\ IsFiniteSet(Listed \ T)
        /\ Cardinality(Listed \ T) = Cardinality(Listed) - Cardinality(Listed \cap T)
    BY <1>4, FS_Difference
  <2> QED BY <1>3, <1>7, <2>1 DEF SessionCount
<1> QED BY <1>1, <1>4, <1>6, <1>8 DEF q

(* The ordinary active accounts are some of the active ones.               *)
Served == {a \in Ordinary : IsActive(a)}

(* The ordinary players who are served are among the sessions that do not  *)
(* wait.                                                                   *)
LEMMA ServedCount ==
    IInv /\ phase # "destroyed" =>
        /\ Cardinality(Served) \in Nat
        /\ Cardinality(Served) <= SessionCount - Len(m_QueuedPlayer)
        /\ \A a \in Accounts : IsActive(a) /\ a \notin Ordinary =>
              Cardinality(Served) <= SessionCount - Len(m_QueuedPlayer) - 1
<1> SUFFICES ASSUME IInv, phase # "destroyed"
             PROVE  /\ Cardinality(Served) \in Nat
                    /\ Cardinality(Served) <= SessionCount - Len(m_QueuedPlayer)
                    /\ \A a \in Accounts : IsActive(a) /\ a \notin Ordinary =>
                          Cardinality(Served)
                             <= SessionCount - Len(m_QueuedPlayer) - 1
  OBVIOUS
<1> DEFINE A == {a \in Accounts : IsActive(a)}
<1>1. /\ IsFiniteSet(A) /\ Cardinality(A) = SessionCount - Len(m_QueuedPlayer)
      /\ SessionCount \in Nat /\ Len(m_QueuedPlayer) \in Nat
  BY ActiveCount
<1>2. Served \subseteq A
  BY DEF Served, Ordinary
<1>3. \A a \in Accounts : IsActive(a) /\ a \notin Ordinary =>
         a \in A /\ Served \subseteq A \ {a}
  BY <1>2 DEF Served
<1> HIDE DEF A
<1>4. /\ IsFiniteSet(Served) /\ Cardinality(Served) <= Cardinality(A)
  BY <1>1, <1>2, FS_Subset
<1>5. Cardinality(Served) \in Nat /\ Cardinality(A) \in Nat
  BY <1>1, <1>4, FS_CardinalityType
<1>6. ASSUME NEW a \in A, Served \subseteq A \ {a}
      PROVE  Cardinality(Served) <= Cardinality(A) - 1
  <2>1. IsFiniteSet(A \ {a}) /\ Cardinality(A \ {a}) = Cardinality(A) - 1
    BY <1>1, FS_RemoveElement
  <2> QED BY <1>6, <2>1, FS_Subset
<1> QED BY <1>1, <1>3, <1>4, <1>5, <1>6

(* The same after a step.                                                  *)
LEMMA ServedCountPrime ==
    (IInv /\ phase # "destroyed" =>
        /\ Cardinality(Served) \in Nat
        /\ Cardinality(Served) <= SessionCount - Len(m_QueuedPlayer)
        /\ \A a \in Accounts : IsActive(a) /\ a \notin Ordinary =>
              Cardinality(Served) <= SessionCount - Len(m_QueuedPlayer) - 1)'
BY ServedCount, PTL

(* A new session, or the first of the queue, is let in within the limit.   *)
LEMMA AddSessionWithin ==
    ASSUME IInv, AddSession_, m_playerLimit > 0, NEW x \in Sessions,
           Admitted(x), AccountOf[x] \in Ordinary'
    PROVE  Cardinality(Served)' <= m_playerLimit
<1> USE QueueAssumption DEF QueueAssumption
<1> DEFINE s   == Head(addSessQueue)
           a   == AccountOf[s]
           old == m_sessions[a]
           q   == m_QueuedPlayer
           act == SessionCount - Len(q)
<1>1. /\ phase = "add" /\ addSessQueue # <<>> /\ phase' = phase
      /\ m_sessions' = [m_sessions EXCEPT ![a] = s]
      /\ m_disconnects' = m_disconnects
      /\ life' = [y \in Sessions |-> CASE y = s   -> "listed"
                                       [] y = old -> "deleted"
                                       [] OTHER   -> life[y]]
  BY DEF AddSession_
<1>2. /\ s \in Sessions /\ a \in Accounts /\ life[s] = "pending"
      /\ m_playerLimit \in Nat /\ Len(q) \in Nat /\ m_sessions'[a] = s
  <2>1. s \in Sessions /\ life[s] = "pending"
    BY <1>1, HeadIsNew
  <2> QED BY <1>1, <2>1 DEF IInv, TypeOK
<1>3. IInv' /\ q' \in Seq(Sessions) /\ Len(q') \in Nat
  <2>1. IInv' BY AddSessionKeeps
  <2>2. q' \in Seq(Sessions) BY <2>1 DEF IInv, TypeOK
  <2> QED BY <2>1, <2>2
<1>4. /\ Cardinality(Served)' \in Nat
      /\ Cardinality(Served)' <= SessionCount' - Len(q')
      /\ \A b \in Accounts : IsActive(b)' /\ b \notin Ordinary' =>
            Cardinality(Served)' <= SessionCount' - Len(q') - 1
  BY <1>1, <1>3, ServedCountPrime
<1>5. PICK f, d, w, e \in 0..1 :
        /\ SessionCount \in Nat
        /\ e = 1 <=> old # None
        /\ e = 0 => f = 0 /\ d = 0
        /\ Len(q') = Len(q) - f - d + w
        /\ SessionCount' = SessionCount + 1 - e
        /\ d = 1 => \/ m_playerLimit = 0
                    \/ f = 1 /\ act < m_playerLimit
                    \/ f = 0 /\ act # 0 /\ act - 1 < m_playerLimit
                    \/ f = 0 /\ act = 0
        /\ w = 0 => \/ m_playerLimit = 0
                    \/ SessionCount' - (1 - f) < m_playerLimit
                    \/ s \in Skip \/ a \in m_disconnects
        /\ m_inQueue'[s] <=> w = 1
        /\ d = 0 => \A y \in Sessions \ {s, old} :
                       m_inQueue'[y] = m_inQueue[y]
  BY AddSessionCount
<1>6. x # old
  BY <1>1, <1>2 DEF Admitted, IInv, ListSound
<1>7. x # s => d = 1
  <2>1. x # s => life'[x] = life[x]
    BY <1>1, <1>6
  <2>2. x # s => m_inQueue[x] /\ ~m_inQueue'[x]
    BY <2>1 DEF Admitted
  <2> QED BY <1>5, <1>6, <2>2
<1>8. x = s => w = 0
  BY <1>5 DEF Admitted
<1> HIDE DEF s, q
<1>9. CASE w = 1
  <2>1. d = 1 /\ e = 1
    BY <1>5, <1>7, <1>8, <1>9
  <2> QED BY <1>2, <1>3, <1>4, <1>5, <1>9, <2>1
<1>10. CASE w = 0 /\ SessionCount' - (1 - f) < m_playerLimit
  BY <1>2, <1>3, <1>4, <1>5, <1>10
<1>11. CASE w = 0 /\ (s \in Skip \/ a \in m_disconnects)
  <2>1. a \notin Ordinary'
    BY <1>1, <1>2, <1>11 DEF Ordinary
  <2>2. x # s /\ d = 1 /\ e = 1
    BY <1>5, <1>7, <2>1
  <2>0. PICK b \in Accounts : b = a
    BY <1>2
  <2>3. IsActive(b)'
    <3>1. ~m_inQueue'[s]
      BY <1>5, <1>11
    <3>2. s \notin ToSet(m_QueuedPlayer)'
      BY <1>1, <1>3, <3>1 DEF IInv, QueueSound
    <3>3. s # None
      BY <1>2
    <3>4. m_sessions'[b] = s
      BY <1>2, <2>0
    <3> QED BY <3>2, <3>3, <3>4 DEF IsActive
  <2>4. Cardinality(Served)' <= SessionCount' - Len(q') - 1
    BY <1>4, <2>0, <2>1, <2>3
  <2> QED BY <1>2, <1>3, <1>4, <1>5, <1>11, <2>2, <2>4
<1> QED BY <1>5, <1>9, <1>10, <1>11

(* A session that goes admits no more than the limit.                      *)
LEMMA RemoveClosedWithin ==
    ASSUME IInv, NEW a \in Accounts, RemoveClosedSession(a), m_playerLimit > 0,
           NEW x \in Sessions, Admitted(x)
    PROVE  Cardinality(Served)' <= m_playerLimit
<1> DEFINE s   == m_sessions[a]
           q   == m_QueuedPlayer
           act == SessionCount - Len(q)
<1>1. /\ phase = "update" /\ phase' = phase /\ a \in todo
      /\ life' = [life EXCEPT ![s] = "deleted"]
  BY DEF RemoveClosedSession
<1>2. /\ s \in Sessions /\ life \in [Sessions -> {"none", "pending", "listed", "deleted"}]
      /\ m_playerLimit \in Nat /\ Len(q) \in Nat
  BY <1>1 DEF IInv, TypeOK, TodoSound, Listed
<1>3. IInv' /\ q' \in Seq(Sessions) /\ Len(q') \in Nat
  <2>1. IInv' BY RemoveClosedKeeps
  <2>2. q' \in Seq(Sessions) BY <2>1 DEF IInv, TypeOK
  <2> QED BY <2>1, <2>2
<1>4. /\ Cardinality(Served)' \in Nat
      /\ Cardinality(Served)' <= SessionCount' - Len(q')
  BY <1>1, <1>3, ServedCountPrime
<1>5. PICK f, d, g \in 0..1 :
        /\ SessionCount \in Nat
        /\ f + d + g <= Len(q)
        /\ Len(q') = Len(q) - f - d - g
        /\ SessionCount' = SessionCount - 1
        /\ m_playerLimit > 0 =>
             /\ d = 1 => \/ f = 1 /\ act < m_playerLimit
                         \/ f = 0 /\ act # 0 /\ act - 1 < m_playerLimit
                         \/ f = 0 /\ act = 0
             /\ d = 0 => \/ Len(q) - f = 0
                         \/ f = 1 /\ act >= m_playerLimit
                         \/ f = 0 /\ act - 1 >= m_playerLimit
                         \/ f = 0 /\ act = 0 /\ act >= m_playerLimit
             /\ g = 1 => \/ act + f + d - 1 < m_playerLimit
                         \/ act + f + d = 0
        /\ d + g = 0 => \A y \in Sessions \ {s} : m_inQueue'[y] = m_inQueue[y]
  BY RemoveClosedCount
<1>6. x # s /\ m_inQueue[x] /\ ~m_inQueue'[x]
  BY <1>1, <1>2 DEF Admitted
<1>7. d + g # 0
  BY <1>5, <1>6
<1> HIDE DEF s, q
<1> QED BY <1>2, <1>3, <1>4, <1>5, <1>7, SMTT(30)

(* A session without privilege enters the world only while the ordinary    *)
(* active sessions, counted with it, are at most PlayerLimit.              *)
THEOREM AdmissionRespectsLimit == Spec => AdmitWithinLimit
<1>1. ASSUME IInv, Next, ~UNCHANGED vars, m_playerLimit > 0,
             NEW x \in Sessions, Admitted(x), AccountOf[x] \in Ordinary'
      PROVE  Cardinality(Served)' <= m_playerLimit
  <2>1. CASE AddSession_ BY <1>1, <2>1, AddSessionWithin
  <2>2. ASSUME NEW a \in Accounts, RemoveClosedSession(a)
        PROVE  Cardinality(Served)' <= m_playerLimit
    BY <1>1, <2>2, RemoveClosedWithin
  <2> QED BY <1>1, <2>1, <2>2, NobodyAdmitted
          DEF Next, Network, WorldLoop, Command, Terminated
<1>2. Served' = {a \in Ordinary' : IsActive(a)'}
  BY DEF Served
<1>3. Cardinality(Served)' = Cardinality({a \in Ordinary' : IsActive(a)'})
  BY <1>2
<1>4. IInv /\ [Next]_vars =>
        [(m_playerLimit > 0
            /\ \E s \in Sessions : Admitted(s) /\ AccountOf[s] \in Ordinary')
         => Cardinality({a \in Ordinary' : IsActive(a)'}) <= m_playerLimit]_vars
  BY <1>1, <1>3
<1> QED BY SessionInvariant, <1>4, PTL DEF Spec, AdmitWithinLimit
=============================================================================
