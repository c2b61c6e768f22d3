--------------------------- MODULE MCSessionQueue ---------------------------
(* Instances of SessionQueue for TLC: up to three accounts, of which one    *)
(* can log in twice, so that a session is replaced while it is active,      *)
(* queued or loading.                                                       *)
EXTENDS SessionQueue, TLC

CONSTANTS gm, alice, bob, g1, g2, a1, a2, b1, b2

MCAccountOf ==
    [s \in Sessions |-> CASE s \in {g1, g2} -> gm
                          [] s \in {a1, a2} -> alice
                          [] s \in {b1, b2} -> bob]
=============================================================================
