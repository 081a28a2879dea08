\* One application against apphbd: two channels over the run, six library calls, one process death, one daemon restart.
CONSTANTS
  App = {a1}
  MaxConn = 2
  MaxCalls = 6
  MaxCrash = 1
  MaxRestart = 1
SPECIFICATION Spec
INVARIANTS TypeOK RepliesAnswerCalls
PROPERTIES IntervalClientDetected CallsReturn
CHECK_DEADLOCK FALSE
