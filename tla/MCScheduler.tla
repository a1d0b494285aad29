---------------------------- MODULE MCScheduler ----------------------------
(* Instances of Scheduler for TLC.                                         *)
EXTENDS SchedulerRefinement, TLC

\* Every request can be batched with every other.
UniformShapes == {[class |-> "a", audio |-> 1]}

\* Requests of one class, one of which exceeds the audio budget (3) on its own,
\* and a request of another class.
MixedShapes == {[class |-> "a", audio |-> 1], [class |-> "a", audio |-> 4],
                [class |-> "b", audio |-> 1]}

\* Sessions and workers are interchangeable.
Symmetry == Permutations(Sessions) \cup Permutations(Workers)
=============================================================================
