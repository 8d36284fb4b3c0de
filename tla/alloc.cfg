SPECIFICATION StatsSpec
CONSTANTS
  NExtents = 3
  EXT_GRAINS = 4
  ALLOC_GRAIN = 2
  NCLASS = 3
  WORD = 2
  EXT_NONE = EXT_NONE
  NBINS = 4
  Full <- MCFull
  Calm = 50
  FragPct = 60
  FragOcc = 50
  SoundPct = 40
  SoundOcc = 60
  Interval = 1
INVARIANTS TypeOK SlotsDisjoint ListsSound RefusesOnlyWhenFull HintSound ReportTrue
PROPERTY WarnsOnce
VIEW Told
