\* Two sessions race on two workers, any one caller may be cancelled.
SPECIFICATION Spec
CONSTANTS
  Sessions = {s1, s2}
  Workers = {w1, w2}
  Shapes <- UniformShapes
  MaxQueue = 2
  MaxBatch = 2
  MaxAudio = 9
  MaxCancels = 1
  MaxJobs = 3
SYMMETRY Symmetry
INVARIANTS
  NoOrphan
  LivePartialIsNewest
  DepthIsExact
  WorkConserving
  GenerationIsKept
PROPERTIES
  StalenessHasACause
  ImplementsContract
