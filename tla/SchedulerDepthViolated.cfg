\* A partial's caller is cancelled while a worker forms a batch.
SPECIFICATION Spec
CONSTANTS
  Sessions = {s1}
  Workers = {w1}
  Shapes <- UniformShapes
  MaxQueue = 2
  MaxBatch = 2
  MaxAudio = 9
  MaxCancels = 1
  MaxJobs = 2
INVARIANTS
  DrainedQueueReadsZero
