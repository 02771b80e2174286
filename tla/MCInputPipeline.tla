--------------------------- MODULE MCInputPipeline ---------------------------
(* InputPipeline with one letter, the newline and the zero of a release.   *)
EXTENDS InputPipeline
=============================================================================
