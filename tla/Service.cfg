\* An upload and a realtime connection, the one worker of the service, a queue of
\* one; liveness, so no symmetry.
SPECIFICATION ServiceSpec
CONSTANTS
  Sessions = {r1, s1}
  Workers = {w1}
  Shapes <- UniformShapes
  MaxQueue = 1
  MaxBatch = 1
  MaxAudio = 9
  MaxCancels = 1
  MaxJobs = 3
  Requests = {r1}
  MaxCalls = 2
  CacheRaises = TRUE
INVARIANTS
  ReadyMeansServable
  TeardownInOrder
  AnsweredHoldsNoSlot
PROPERTIES
  FinalsAreSettled
  LifespanGoesOn
CHECK_DEADLOCK FALSE
