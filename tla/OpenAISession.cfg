\* Frames of two bytes, two start and one ends a turn; appends of two and a
\* half and of four frames; one turn at a time is transcribed.
SPECIFICATION FairSpec
CONSTANTS
  FrameBytes = 2
  PrefixBytes = 2
  StartFrames = 2
  StopFrames = 1
  MaxAudio = 14
  MaxPending = 1
  Sizes = {5, 8}
  MaxTurns = 3
  MaxStops = 2
CHECK_DEADLOCK FALSE
INVARIANTS
  BufferIsConsistent
  ItemEventsInOrder
  TurnsHoldTheirSpeech
  TurnsAreBounded
  NothingOutlivesSession
PROPERTIES
  NobodyWaitsForever
