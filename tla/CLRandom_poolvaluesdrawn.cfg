\* The random pool, checking PoolValuesDrawn.
CONSTANTS
  MAXRAND = 3
  MaxDraws = 6
  MaxGets = 6
  LoopRunning = TRUE
  Late = Late
SPECIFICATION Spec
INVARIANT PoolValuesDrawn
CHECK_DEADLOCK FALSE
