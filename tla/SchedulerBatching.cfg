\* One worker forms batches of mixed requests; the queue refuses nothing.
SPECIFICATION Spec
CONSTANTS
  Sessions = {s1, s2}
  Workers = {w1}
  Shapes <- MixedShapes
  MaxQueue = 9
  MaxBatch = 2
  MaxAudio = 3
  MaxCancels = 0
  MaxJobs = 3
SYMMETRY Symmetry
INVARIANTS
  BatchAdmissible
PROPERTIES
  OldestFinalFirst
