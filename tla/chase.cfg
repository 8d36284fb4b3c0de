SPECIFICATION FairSpec
CONSTANTS
  Workers = {w1, w2}
  Blocks = {b1}
  b1 = b1
  b2 = b2
  Slots = {s1, s2}
  SLOT_NONE = SLOT_NONE
  Stripes = {1}
  IDXL <- OneStripe
  NoWorker = NoWorker
  MaxOps = 1
  Bytes = {0, 1}
  Zero = 0
  CBLK_SIZE = 2
  CompLen <- MCCompLen
  Torn = Torn
  GenMod = 2
  Rounds = 1
  Faults = {"HtoD"}
  Jobs <- ChaseJobs
INVARIANT GaugesAgree
PROPERTIES EveryJobAnswered ImplementsDevice
