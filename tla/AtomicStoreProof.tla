-------------------------- MODULE AtomicStoreProof --------------------------
(***************************************************************************)
(* What AtomicStore promises follows from its steps: proved for every set  *)
(* of operations and every number of statements, so that it holds of       *)
(* whatever implements AtomicStore.                                        *)
(***************************************************************************)
EXTENDS AtomicStore, TLAPS

Pair == Ops \X Nat

(* An operation that was not handed over, or may still take effect, is not *)
(* in effect yet unless its connection broke.                              *)
NotYet ==
    /\ fresh \cap left = {}
    /\ \A o \in (fresh \cup left) \ faulty : Places(o) = {}

StoreInv == TypeOK /\ NotYet /\ AllOrNothing

-----------------------------------------------------------------------------
(* The statements of an operation, and any part of them in a row.          *)
LEMMA WritesType ==
    ASSUME Length \in [Ops -> Nat], NEW o \in Ops
    PROVE  /\ Writes(o) \in Seq(Pair)
           /\ Len(Writes(o)) = Length[o]
           /\ \A k \in 1..Length[o] : Writes(o)[k] = <<o, k>>
BY DEF Writes, Pair

(* A part of a transaction is a set of its statements.                     *)
LEMMA PartType ==
    ASSUME Length \in [Ops -> Nat], NEW o \in Ops,
           NEW i \in 1 .. Length[o] + 1, NEW j \in 1 .. Length[o] + 1
    PROVE  /\ SubSeq(Writes(o), i, j - 1) \in Seq(Pair)
           /\ \A k \in DOMAIN SubSeq(Writes(o), i, j - 1) :
                 SubSeq(Writes(o), i, j - 1)[k][1] = o
<1>1. /\ Writes(o) \in Seq(Pair) /\ Len(Writes(o)) = Length[o]
      /\ \A k \in 1..Length[o] : Writes(o)[k] = <<o, k>>
  BY WritesType
<1>2. i \in Nat /\ j - 1 \in Nat /\ i >= 1 /\ j - 1 <= Length[o] /\ Length[o] \in Nat
  OBVIOUS
<1>3. CASE i > j - 1
  <2>1. SubSeq(Writes(o), i, j - 1) = <<>>
    BY <1>1, <1>2, <1>3
  <2>2. <<>> \in Seq(Pair) /\ DOMAIN <<>> = {}
    OBVIOUS
  <2> QED BY <2>1, <2>2
<1>4. CASE i <= j - 1
  <2>1. /\ SubSeq(Writes(o), i, j - 1) \in Seq(Pair)
        /\ Len(SubSeq(Writes(o), i, j - 1)) = j - i
    BY <1>1, <1>2, <1>4
  <2>2. ASSUME NEW k \in 1 .. j - i
        PROVE  SubSeq(Writes(o), i, j - 1)[k] = Writes(o)[i + k - 1]
    BY <1>1, <1>2, <1>4, <2>2
  <2>3. \A k \in 1 .. j - i : i + k - 1 \in 1..Length[o]
    BY <1>2, <1>4
  <2> QED BY <1>1, <2>1, <2>2, <2>3
<1> QED BY <1>2, <1>3, <1>4

(* Statements of one operation at the end of the store leave every other   *)
(* operation where it was.                                                 *)
LEMMA OthersStay ==
    ASSUME TypeOK, NEW o \in Ops, NEW s \in Seq(Pair), NEW p \in Ops, p # o,
           \A k \in DOMAIN s : s[k][1] = o,
           store' = store \o s
    PROVE  /\ store' \in Seq(Pair) /\ Len(store') >= Len(store)
           /\ Places(p)' = Places(p)
           /\ \A k \in DOMAIN store : store'[k] = store[k]
<1>1. /\ store \in Seq(Pair) /\ Len(store) \in Nat /\ Len(s) \in Nat
      /\ DOMAIN store = 1..Len(store) /\ DOMAIN s = 1..Len(s)
  BY DEF TypeOK, Pair
<1>2. /\ store' \in Seq(Pair) /\ Len(store') = Len(store) + Len(s)
      /\ DOMAIN store' = 1 .. Len(store) + Len(s)
      /\ \A k \in 1 .. Len(store) + Len(s) :
            store'[k] = IF k <= Len(store) THEN store[k] ELSE s[k - Len(store)]
  BY <1>1
<1>3. ASSUME NEW k \in DOMAIN store', k \notin DOMAIN store
      PROVE  store'[k][1] = o
  <2>1. k - Len(store) \in DOMAIN s /\ store'[k] = s[k - Len(store)]
    BY <1>1, <1>2, <1>3
  <2> QED BY <2>1
<1>4. \A k \in DOMAIN store : k \in DOMAIN store' /\ store'[k] = store[k]
  BY <1>1, <1>2
<1> QED BY <1>1, <1>2, <1>3, <1>4 DEF Places

(* An operation in effect stays in effect when others are added.           *)
LEMMA WholeStays ==
    ASSUME TypeOK, AllOrNothing, Length \in [Ops -> Nat],
           NEW p \in Ops \ faulty, Places(p)' # {}, Places(p)' = Places(p),
           Len(store') \in Nat, Len(store') >= Len(store),
           \A k \in DOMAIN store : store'[k] = store[k]
    PROVE  \E b \in 0..Len(store') :
              /\ Places(p)' = b + 1 .. b + Length[p]
              /\ \A k \in 1..Length[p] : store'[b + k] = <<p, k>>
<1>1. PICK b \in 0..Len(store) :
              /\ Places(p) = b + 1 .. b + Length[p]
              /\ \A k \in 1..Length[p] : store[b + k] = <<p, k>>
  BY DEF AllOrNothing
<1>2. \A k \in 1..Length[p] : b + k \in DOMAIN store
  <2>1. Places(p) \subseteq DOMAIN store
    BY DEF Places
  <2>2. b \in Nat /\ Length[p] \in Nat
    BY DEF TypeOK
  <2>3. \A k \in 1..Length[p] : b + k \in b + 1 .. b + Length[p]
    BY <2>2
  <2> QED BY <1>1, <2>1, <2>3
<1>3. b \in 0..Len(store')
  BY DEF TypeOK
<1> WITNESS b \in 0..Len(store')
<1> QED BY <1>1, <1>2

(* The store begins empty.                                                 *)
LEMMA InitStore == Init => StoreInv
BY DEF Init, StoreInv, TypeOK, NotYet, AllOrNothing, Places

(* Statements of an operation whose connection broke, wherever they come   *)
(* from, say nothing about the others.                                     *)
LEMMA TearKeeps ==
    ASSUME StoreInv, Length \in [Ops -> Nat], NEW o \in left, o \in Ops,
           NEW w \in Seq(Pair), \A k \in DOMAIN w : w[k][1] = o,
           store' = store \o w, faulty' = faulty \cup {o},
           left' \in {left, left \ {o}}, fresh' = fresh
    PROVE  StoreInv'
<1>1. TypeOK /\ store \in Seq(Pair)
  BY DEF StoreInv, TypeOK, Pair
<1>2. ASSUME NEW p \in Ops, p # o
      PROVE  /\ store' \in Seq(Pair) /\ Len(store') >= Len(store)
             /\ Places(p)' = Places(p)
             /\ \A k \in DOMAIN store : store'[k] = store[k]
  BY <1>1, <1>2, OthersStay
<1>3. store' \in Seq(Pair)
  BY <1>1
<1>4. TypeOK' /\ NotYet'
  BY <1>1, <1>2, <1>3 DEF StoreInv, NotYet, TypeOK, Pair
<1>5. ASSUME NEW p \in Ops \ faulty', Places(p)' # {}
      PROVE  \E b \in 0..Len(store') :
                /\ Places(p)' = b + 1 .. b + Length[p]
                /\ \A k \in 1..Length[p] : store'[b + k] = <<p, k>>
  <2>1. p # o /\ p \in Ops \ faulty
    OBVIOUS
  <2>2. /\ Places(p)' = Places(p) /\ Len(store') >= Len(store)
        /\ \A k \in DOMAIN store : store'[k] = store[k]
        /\ Len(store') \in Nat /\ TypeOK /\ AllOrNothing
    BY <1>2, <2>1 DEF StoreInv
  <2> QED BY <1>5, <2>1, <2>2, WholeStays
<1>6. AllOrNothing'
  BY <1>5 DEF AllOrNothing
<1> QED BY <1>4, <1>6 DEF StoreInv

(* Each of the four kinds of step keeps the invariant.                     *)
LEMMA NextStore ==
    ASSUME Length \in [Ops -> Nat], StoreInv, [Next]_vars
    PROVE  StoreInv'
<1>1. ASSUME NEW o \in Ops, Submit(o) PROVE StoreInv'
  <2>1. \A p : Places(p)' = Places(p)
    BY <1>1 DEF Submit, Places
  <2>2. AllOrNothing'
    BY <1>1, <2>1 DEF Submit, StoreInv, AllOrNothing
  <2> QED BY <1>1, <2>1, <2>2 DEF Submit, StoreInv, TypeOK, NotYet
<1>2. ASSUME NEW o \in Ops, Apply(o) PROVE StoreInv'
  <2>1. PICK w \in Seq(Pair) :
           /\ store' = store \o w
           /\ Len(w) = Length[o] /\ \A k \in 1..Length[o] : w[k] = <<o, k>>
    BY <1>2, WritesType DEF Apply
  <2>2. \A k \in DOMAIN w : w[k][1] = o
    BY <2>1
  <2>3. left' = left \ {o} /\ UNCHANGED <<fresh, faulty>>
    BY <1>2 DEF Apply
  <2>4. ASSUME NEW p \in Ops, p # o
        PROVE  /\ store' \in Seq(Pair) /\ Len(store') >= Len(store)
               /\ Places(p)' = Places(p)
               /\ \A k \in DOMAIN store : store'[k] = store[k]
    <3>1. TypeOK
      BY DEF StoreInv
    <3>2. store' = store \o w
      BY <2>1
    <3> QED BY <2>2, <2>4, <3>1, <3>2, OthersStay
  <2>5. TypeOK'
    BY <2>1, <2>3 DEF StoreInv, TypeOK, Pair
  <2>6. NotYet'
    BY <1>2, <2>3, <2>4 DEF StoreInv, NotYet, Apply, TypeOK
  <2>7. ASSUME NEW p \in Ops \ faulty, Places(p)' # {}
        PROVE  \E b \in 0..Len(store') :
                  /\ Places(p)' = b + 1 .. b + Length[p]
                  /\ \A k \in 1..Length[p] : store'[b + k] = <<p, k>>
    <3>1. CASE p # o
      <4>1. /\ Places(p)' = Places(p) /\ Len(store') >= Len(store)
            /\ \A k \in DOMAIN store : store'[k] = store[k]
            /\ Len(store') \in Nat /\ TypeOK /\ AllOrNothing
        BY <2>4, <3>1 DEF StoreInv
      <4> QED BY <2>7, <4>1, WholeStays
    <3>2. CASE p = o
      <4>1. Places(o) = {} /\ Len(store) \in Nat /\ Length[o] \in Nat
        BY <1>2, <2>7, <3>2 DEF StoreInv, NotYet, Apply, TypeOK
      <4>2. /\ Len(store') = Len(store) + Length[o]
            /\ \A k \in 1..Len(store) : store'[k] = store[k]
            /\ \A k \in 1..Length[o] : store'[Len(store) + k] = <<o, k>>
        <5>1. /\ store \in Seq(Pair)
              /\ \A k \in 1 .. Len(store) + Len(w) :
                    store'[k] = IF k <= Len(store)
                                THEN store[k] ELSE w[k - Len(store)]
          <6>1. store \in Seq(Pair)
            BY DEF StoreInv, TypeOK, Pair
          <6> QED BY <2>1, <2>3, <6>1
        <5>2. Len(store') = Len(store) + Len(w)
          <6>1. store \in Seq(Pair) /\ store' = store \o w
            BY <2>1, <5>1
          <6> QED BY <6>1
        <5>3. ASSUME NEW k \in 1..Length[o]
              PROVE  store'[Len(store) + k] = <<o, k>>
          <6>1. /\ Len(store) + k \in 1 .. Len(store) + Len(w)
                /\ ~(Len(store) + k <= Len(store))
                /\ (Len(store) + k) - Len(store) = k
            BY <2>1, <4>1
          <6> QED BY <2>1, <5>1, <6>1
        <5>4. \A k \in 1..Len(store) : store'[k] = store[k]
          BY <2>1, <4>1, <5>1
        <5> QED BY <2>1, <5>2, <5>3, <5>4
      <4>3. /\ DOMAIN store = 1..Len(store)
            /\ DOMAIN store' = 1 .. Len(store) + Length[o]
        BY <2>5, <4>2 DEF StoreInv, TypeOK
      <4>4. ASSUME NEW k \in DOMAIN store'
            PROVE  store'[k][1] = o <=> k > Len(store)
        <5>1. CASE k > Len(store)
          <6>1. k - Len(store) \in 1..Length[o] /\ k = Len(store) + (k - Len(store))
            BY <4>1, <4>3, <5>1
          <6> QED BY <4>2, <5>1, <6>1
        <5>2. CASE ~(k > Len(store))
          <6>1. k \in DOMAIN store
            BY <4>1, <4>3, <5>2
          <6> QED BY <4>1, <4>2, <4>3, <5>2, <6>1 DEF Places
        <5> QED BY <5>1, <5>2
      <4>5. Places(o)' = Len(store) + 1 .. Len(store) + Length[o]
        BY <4>1, <4>3, <4>4 DEF Places
      <4>6. Len(store) \in 0..Len(store')
        BY <4>1, <4>2
      <4> QED BY <3>2, <4>2, <4>5, <4>6
    <3> QED BY <3>1, <3>2
  <2>8. AllOrNothing'
    BY <2>3, <2>7 DEF AllOrNothing
  <2> QED BY <2>5, <2>6, <2>8 DEF StoreInv
<1>3. ASSUME NEW o \in Ops, Tear(o) PROVE StoreInv'
  <2>1. PICK i \in 1 .. Length[o] + 1, j \in 1 .. Length[o] + 1 :
           store' = store \o SubSeq(Writes(o), i, j - 1)
    BY <1>3 DEF Tear
  <2>2. PICK w \in Seq(Pair) :
           store' = store \o w /\ \A k \in DOMAIN w : w[k][1] = o
    <3> DEFINE v == SubSeq(Writes(o), i, j - 1)
    <3>1. v \in Seq(Pair) /\ \A k \in DOMAIN v : v[k][1] = o
      BY PartType
    <3>2. store' = store \o v
      BY <2>1
    <3> HIDE DEF v
    <3> QED BY <3>1, <3>2
  <2> QED BY <1>3, <2>2, TearKeeps DEF Tear
<1>4. ASSUME NEW S \in SUBSET left, Drop(S) PROVE StoreInv'
  <2>1. \A p : Places(p)' = Places(p)
    BY <1>4 DEF Drop, Places
  <2>2. AllOrNothing'
    BY <1>4, <2>1 DEF Drop, StoreInv, AllOrNothing
  <2> QED BY <1>4, <2>1, <2>2 DEF Drop, StoreInv, TypeOK, NotYet
<1>5. CASE UNCHANGED vars
  <2>1. \A p : Places(p)' = Places(p)
    BY <1>5 DEF vars, Places
  <2>2. AllOrNothing'
    BY <1>5, <2>1 DEF vars, StoreInv, AllOrNothing
  <2> QED BY <1>5, <2>1, <2>2 DEF vars, StoreInv, TypeOK, NotYet
<1> QED BY <1>1, <1>2, <1>3, <1>4, <1>5 DEF Next

(* An operation whose connection held is in effect once and whole, or not  *)
(* at all, in everything that implements AtomicStore.                      *)
THEOREM StoreIsAtomic ==
    ASSUME Length \in [Ops -> Nat]
    PROVE  Spec => []AllOrNothing
<1>1. StoreInv /\ [Next]_vars => StoreInv'
  BY NextStore
<1>2. StoreInv => AllOrNothing
  BY DEF StoreInv
<1> QED BY InitStore, <1>1, <1>2, PTL DEF Spec
=============================================================================
