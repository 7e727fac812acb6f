---------------------------- MODULE MCRangeTree -----------------------------
(* Small instances of RangeTree and Placement for TLC.                      *)
EXTENDS Placement

=============================================================================
