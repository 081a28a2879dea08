\* One client, four registrations, descriptors for two pipes: enough to register, unregister and register twice more.
CONSTANTS
  Width = 2
  MaxReg = 4
  MaxFds = 4
SPECIFICATION Spec
PROPERTY PipeFailsOnlyWhenExhausted
CHECK_DEADLOCK FALSE
