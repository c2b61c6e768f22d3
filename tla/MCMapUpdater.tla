---------------------------- MODULE MCMapUpdater ----------------------------
(* Instances of MapUpdater for TLC: two base maps, the first a MapInstanced *)
(* with two instances.                                                      *)
EXTENDS MapUpdater, TLC

CONSTANTS b1, b2, i1, i2, w1, w2

MCParent == i1 :> b1 @@ i2 :> b1
=============================================================================
