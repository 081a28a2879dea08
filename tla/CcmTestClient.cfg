\* ccm_testclient with room for its pipe: does it exit when ccm goes away?
CONSTANTS
  Width = 2
  MaxReg = 1
  MaxFds = 2
SPECIFICATION Spec
PROPERTY ExitsWhenCcmLost
CHECK_DEADLOCK FALSE
