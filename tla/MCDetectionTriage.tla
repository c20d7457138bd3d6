--------------------------- MODULE MCDetectionTriage ---------------------------
(* Two operators and two runs of the engine on one key; either are interchangeable. *)
EXTENDS DetectionTriage, TLC

Symmetry == Permutations(Operators) \union Permutations(Engines)
=============================================================================
