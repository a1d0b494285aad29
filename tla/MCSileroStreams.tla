-------------------------- MODULE MCSileroStreams --------------------------
(* Instances of SileroStreams for TLC.                                     *)
EXTENDS SileroStreams, TLC

\* Streams and workers are interchangeable.
Symmetry == Permutations(Workers) \cup Permutations(Clients)
=============================================================================
