SPECIFICATION FairSpec
CONSTANTS
  NThreads = 2
  Conns = {c1, c2}
  MaxSignals = 2
  NoConn = NoConn
INVARIANTS AttachedAreServed ShutsOnlyLate
PROPERTY TermEnds
