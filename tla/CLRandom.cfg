\* The random pool: a ring of 3 slots, 6 rand() calls told apart, 6 calls of get_next_random.
CONSTANTS
  MAXRAND = 3
  MaxDraws = 6
  MaxGets = 6
  LoopRunning = TRUE
  Late = Late
SPECIFICATION Spec
INVARIANTS TypeOK NoRepeat
CHECK_DEADLOCK FALSE
