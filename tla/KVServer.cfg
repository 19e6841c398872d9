CONSTANTS
  a = a
  b = b
  Client = {a, b}
  key = key
  Key = {key}
  x = x
  y = y
  Piece = {x, y}
  None = None
  MaxOp = 3
SPECIFICATION LiveSpec
INVARIANTS
  
  CacheBounded
PROPERTIES
  Linearizable
  
CHECK_DEADLOCK FALSE
