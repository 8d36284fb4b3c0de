SPECIFICATION Spec
CONSTANTS
  Workers = {w1, w2}
  Blocks = {b1, b2}
  b1 = b1
  b2 = b2
  Slots = {s1, s2}
  SLOT_NONE = SLOT_NONE
  Stripes = {1}
  IDXL <- OneStripe
  NoWorker = NoWorker
  MaxOps = 1
  Bytes = {0, 1}
  Zero = 0
  CBLK_SIZE = 2
  CompLen <- MCCompLen
  Torn = Torn
  GenMod = 3
  Rounds = 2
  Faults = {}
  Jobs <- RaceJobs
SYMMETRY Symmetry
INVARIANTS TypeOK SlotOwnership NoSlotLost PublishedIntact ReadsOwnPage
