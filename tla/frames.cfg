SPECIFICATION FairSession
CONSTANTS
  Kinds <- AllKinds
  MaxSent = 3
  BatchEnabled = TRUE
  Depth = 2
  BATCH_BLOCKS = 2
  MAX_BATCH_COPIES = 2
  WINDOW = 2
  Options <- AllOptions
  MaxOptions = 3
INVARIANTS FrameAligned InOrder RepliesFramed WithinStaging HaggleInStep
PROPERTIES EveryRequestAnswered HagglingEnds
