SPECIFICATION Spec
CONSTANTS
  Devs = {0, 1}
  Daemons = {m1, m2}
  None = None
  MaxUser = 2
  MaxCrashes = 1
  MaxSleeps = 1
INVARIANTS SwapServed ActiveIsComplete
PROPERTY BatterySettles
