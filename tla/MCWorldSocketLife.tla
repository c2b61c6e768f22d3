------------------------- MODULE MCWorldSocketLife -------------------------
(* Instances of WorldSocketLife for TLC: a second session is made when the  *)
(* client authenticates again while the first one is being kicked.          *)
EXTENDS WorldSocketLife

CONSTANTS s1, s2
=============================================================================
