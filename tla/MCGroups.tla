------------------------------ MODULE MCGroups ------------------------------
(***************************************************************************)
(* Four players, parties of three and raids of two subgroups of three: a   *)
(* raid of four has a second subgroup and cannot become a party again.     *)
(***************************************************************************)
EXTENDS Groups, TLC

\* Full raids of one subgroup, and one member in the next.
MCRaids == {f \in [Players -> Subs] : Cardinality({p \in Players : f[p] = 0}) = GroupSize}

AnyPlayer == Permutations(Players)
=============================================================================
