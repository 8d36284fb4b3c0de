SPECIFICATION Spec
CONSTANTS
  NThreads = 2
  CBLK_SIZE = 4
  MIB = 4
  SIZE_BITS = 6
  LEN_BITS = 4
  WINDOW = 2
  SIZE_ALIGN = 2
  EXTENT_SIZE = 4
  ALLOC_GRAIN = 2
  ENT_GRAIN_BITS = 4
  MIN_MB = 4
  STEP_MB = 2
  INIT_TRIES = 3
  SetupMB = {3, 10}
  DiskMB <- MCDiskMB
INVARIANTS RefusedExactly TouchesExactly TrimsWhole NeverUnderUse NothingLeft SizesAgree
PROPERTY Ends
