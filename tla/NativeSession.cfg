\* Two utterances of up to five frames, three partials, 20 ms frames.
SPECIFICATION FairSpec
CONSTANTS
  StartFrames = 2
  EndFrames = 2
  MinFrames = 3
  MaxFrames = 5
  Initial = 40
  Minimum = 20
  Maximum = 60
  FrameMs = 20
  MaxEpoch = 2
  MaxTasks = 3
CHECK_DEADLOCK FALSE
INVARIANTS
  UtterancesInOrder
  UtterancesAreSeparate
  BufferMatchesEndpoint
  NothingOutlivesSession
PROPERTIES
  PartialsOfOpenUtterance
  SessionGoesOn
