SPECIFICATION LiveSpec
CONSTANTS
  c1 = c1
  c2 = c2
  Call = {c1, c2}
  e1 = e1
  Elect = {e1}
  Free = Free
CHECK_DEADLOCK FALSE
PROPERTY
  StartReturns
