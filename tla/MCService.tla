----------------------------- MODULE MCService -----------------------------
(* Instances of Service for TLC.                                           *)
EXTENDS Service, TLC

\* Requests differ in nothing the batches would tell apart.
UniformShapes == {[class |-> "a", audio |-> 1]}
=============================================================================
