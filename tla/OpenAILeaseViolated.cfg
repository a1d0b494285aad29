\* A connection ends while session.updated is being sent.
SPECIFICATION Spec
CONSTANTS
  FrameBytes = 2
  PrefixBytes = 2
  StartFrames = 2
  StopFrames = 1
  MaxAudio = 14
  MaxPending = 1
  Sizes = {5, 8}
  MaxTurns = 3
  MaxStops = 2
CHECK_DEADLOCK FALSE
INVARIANTS
  LeaseIsReleased
