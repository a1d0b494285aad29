\* Two streams for one lease at a time, one worker, a queue of one.
SPECIFICATION StreamSpec
CONSTANTS
  Clients = {c1, c2}
  Workers = {w1}
  Capacity = 1
  MaxJobs = 3
  Limit = 1
  Frame = 5
  Window = 8
  MaxEpoch = 2
SYMMETRY Symmetry
CHECK_DEADLOCK FALSE
INVARIANTS
  StateFollowsAudio
  NoWindowSkipped
  LeasesAreExact
