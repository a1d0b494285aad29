--------------------------- MODULE MCPublication ---------------------------
(* Instance of Publication for TLC.                                         *)
EXTENDS Publication, TLC

\* Runs of a tool are interchangeable.
Symmetry == Permutations(Tools)
=============================================================================
