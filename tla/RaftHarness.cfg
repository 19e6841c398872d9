SPECIFICATION LiveSpec
CONSTANTS
  N = 2
  Call = {k1}
  MaxGen = 3
  MaxOps = 4
INVARIANTS ReplyIsDurable ConnectedIsEnabled 
PROPERTIES   CallReturns
CHECK_DEADLOCK FALSE
