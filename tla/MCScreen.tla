------------------------------ MODULE MCScreen ------------------------------
(* Screen with a screen of three rows of eight columns and tab stops of    *)
(* four; a byte keeps its 256 values.                                      *)
EXTENDS Screen, TLC

MCSymmetry == Permutations(Writers)
=============================================================================
