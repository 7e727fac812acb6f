----------------------------- MODULE MCBalloon ------------------------------
(* Small instances of Balloon for TLC.                                      *)
EXTENDS Balloon, TLC

CONSTANTS p1, p2, p3

=============================================================================
