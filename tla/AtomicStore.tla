---------------------------- MODULE AtomicStore -----------------------------
(***************************************************************************)
(* What the callers of a DatabaseWorkerPool rely on.  An operation that    *)
(* was handed over takes effect at most once, and then with all of its     *)
(* statements in a row; it may also be dropped as a whole.  Only of an     *)
(* operation that met a broken connection is less promised.                *)
(***************************************************************************)
EXTENDS Integers, Sequences

CONSTANTS
    Ops,       \* operations
    Length     \* how many statements of an operation change the store

VARIABLES
    store,      \* the statements in effect, in order
    fresh,      \* operations not handed over yet
    left,       \* operations that may still take effect
    faulty      \* operations that met a broken connection

vars == <<store, fresh, left, faulty>>

(* The statements of an operation, each an operation and a number.         *)
Writes(o) == [k \in 1..Length[o] |-> <<o, k>>]

TypeOK ==
    /\ store \in Seq(Ops \X Nat)
    /\ fresh \subseteq Ops
    /\ left \subseteq Ops
    /\ faulty \subseteq Ops

Init ==
    /\ store = <<>>
    /\ fresh = Ops
    /\ left = {}
    /\ faulty = {}

(* An operation is handed over; one that changes nothing may end at once.  *)
Submit(o) ==
    /\ o \in fresh
    /\ fresh' = fresh \ {o}
    /\ left' = left \cup {o} \/ (Length[o] = 0 /\ left' = left)
    /\ UNCHANGED <<store, faulty>>

(* The operation takes effect.                                             *)
Apply(o) ==
    /\ o \in left
    /\ store' = store \o Writes(o)
    /\ left' = left \ {o}
    /\ UNCHANGED <<fresh, faulty>>

(* Operations end without an effect: refused, or lost with the process.    *)
Drop(S) ==
    /\ S \subseteq left
    /\ left' = left \ S
    /\ UNCHANGED <<store, fresh, faulty>>

(* The connection breaks under the operation, or did before: some of its   *)
(* statements take effect, perhaps again, and it goes on or ends.          *)
Tear(o) ==
    /\ o \in left
    /\ faulty' = faulty \cup {o}
    /\ \E i, j \in 1 .. Length[o] + 1 :
          store' = store \o SubSeq(Writes(o), i, j - 1)
    /\ left' \in {left, left \ {o}}
    /\ UNCHANGED fresh

Next ==
    \/ \E o \in Ops : Submit(o) \/ Apply(o) \/ Tear(o)
    \/ \E S \in SUBSET left : Drop(S)

Spec == Init /\ [][Next]_vars

-----------------------------------------------------------------------------

(* The positions at which statements of o are in effect.                   *)
Places(o) == {k \in DOMAIN store : store[k][1] = o}

(* An operation whose connection held is in effect once, whole and without *)
(* another operation's statement in between, or not at all.                *)
AllOrNothing ==
    \A o \in Ops \ faulty :
        Places(o) # {} =>
            \E b \in 0..Len(store) :
                /\ Places(o) = b + 1 .. b + Length[o]
                /\ \A k \in 1..Length[o] : store[b + k] = <<o, k>>
=============================================================================
