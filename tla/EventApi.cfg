\* One client, four registrations: the 2-bit token counter wraps after the last; descriptors for two pipes.
CONSTANTS
  Width = 2
  MaxReg = 4
  MaxFds = 4
SPECIFICATION Spec
PROPERTY Registry
CHECK_DEADLOCK FALSE
