SPECIFICATION Spec
CONSTANTS
  NaN = NaN
  Infinity = Infinity
  MaxHalves = 8
  TimeoutMax = 2
  Uint32Max = 3
  MaxCount = 9
  Horizon = 40
INVARIANT ConnectionErrorHonest
INVARIANT InTime
INVARIANT AbortHeard
PROPERTY EveryCallSettles
CHECK_DEADLOCK FALSE
