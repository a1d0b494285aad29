\* A recording of four frames; up to three streams, two frames each; two
\* workers and a queue of two.
SPECIFICATION BenchSpec
CONSTANTS
  Workers = {w1, w2}
  Capacity = 2
  MaxJobs = 14
  Maximum = 3
  RssStreams = 2
  Rounds = 2
  Length = 4
  Clients = {1, 2, 3}
CHECK_DEADLOCK FALSE
INVARIANTS
  SearchIsExact
  SegmentsAgreeWithFrames
PROPERTY
  EndsClean
