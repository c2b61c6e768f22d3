-------------------------- MODULE MCWorldSocketOut --------------------------
(* Instances of WorldSocketOut for TLC: two sending threads, packets of one *)
(* and two units, a buffer of two.                                          *)
EXTENDS WorldSocketOut

CONSTANTS t1, t2
=============================================================================
