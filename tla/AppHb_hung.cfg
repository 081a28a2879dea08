\* apphbd with one application: a client that heartbeats without setting an interval.
CONSTANTS
  App = {a1}
  MaxConn = 2
  MaxCalls = 6
  MaxCrash = 1
  MaxRestart = 1
SPECIFICATION Spec
PROPERTY HungClientDetected
CHECK_DEADLOCK FALSE
