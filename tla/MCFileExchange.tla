---------------------------- MODULE MCFileExchange ----------------------------
(* Instances of FileExchange for TLC.                                      *)
EXTENDS FileExchange, TLC

CONSTANTS p1, p2, p3, f1, f2, f3

MCHome == p1 :> f1 @@ p2 :> f2 @@ p3 :> f3
MCData == p1 :> 0 @@ p2 :> 1 @@ p3 :> 1
=============================================================================
