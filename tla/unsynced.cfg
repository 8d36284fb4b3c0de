SPECIFICATION Spec
CONSTANTS
  Workers = {w1}
  Blocks = {b1, b2}
  b1 = b1
  b2 = b2
  Slots = {s1, s2, s3}
  SLOT_NONE = SLOT_NONE
  Stripes = {1}
  IDXL <- OneStripe
  NoWorker = NoWorker
  MaxOps = 2
  Bytes = {0, 1}
  Zero = 0
  CBLK_SIZE = 2
  CompLen <- MCCompLen
  Torn = Torn
  GenMod = 3
  Rounds = 1
  Faults = {"sync"}
  Jobs <- PairJobs
SYMMETRY Symmetry
INVARIANTS PublishedIntact
