------------------------------ MODULE MCTarget ------------------------------
(* Small instances of Target for TLC.  Folios and list heads are            *)
(* interchangeable within each of the sets that the model tells apart.      *)
EXTENDS Target, TLC

CONSTANTS s1, s2, s3, f1, f2, h1, h2, h3, h4

MCSymmetry == Permutations(ListHead)

=============================================================================
