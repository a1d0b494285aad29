\* Two streams with a lease each, one of them resettable, two workers, a queue of
\* one; liveness, so no symmetry.
SPECIFICATION FairStreamSpec
CONSTANTS
  Clients = {c1, c2}
  Workers = {w1, w2}
  Capacity = 1
  MaxJobs = 2
  Limit = 2
  Resettable = {c1}
  MaxResets = 1
CHECK_DEADLOCK FALSE
INVARIANTS
  HearsEveryFrame
  AcceptedIsHeld
  ClosedIsQuiet
PROPERTIES
  AbandonedNeverStarts
  RuntimeGoesOn
