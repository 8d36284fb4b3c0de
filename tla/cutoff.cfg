SPECIFICATION Spec
CONSTANTS
  NThreads = 2
  Conns = {c1, c2}
  MaxSignals = 1
  NoConn = NoConn
SYMMETRY Symmetry
INVARIANT NoneCutOff
