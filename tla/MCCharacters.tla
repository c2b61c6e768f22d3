---------------------------- MODULE MCCharacters ----------------------------
(***************************************************************************)
(* Two accounts. One of them has a character, with a realm limit of one,   *)
(* so that its second creation is the one to refuse.                       *)
(***************************************************************************)
EXTENDS Characters

CONSTANTS a1, a2

OneStored == [g \in Guids |-> IF g = 1 THEN a1 ELSE None]
=============================================================================
