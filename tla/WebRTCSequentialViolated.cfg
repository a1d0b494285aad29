\* A stream is reset while the thread of an abandoned frame starts.
SPECIFICATION StreamSpec
CONSTANTS
  Clients = {c1}
  Workers = {w1, w2}
  Capacity = 1
  MaxJobs = 2
  Limit = 1
  Resettable = {c1}
  MaxResets = 1
SYMMETRY Symmetry
CHECK_DEADLOCK FALSE
INVARIANTS
  SequentialUse
