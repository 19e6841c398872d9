CONSTANTS
  s1 = s1
  s2 = s2
  Server = {s1, s2}
  c1 = c1
  c2 = c2
  c3 = c3
  Command = {c1, c2, c3}
  Mine = {c1, c3}
  Term = {1}
  Expected = 2
  MaxIndex = 2
  MaxRestart = 1
SPECIFICATION TestSpec
INVARIANTS
  
  NoMissedDivergence
  OneAgreed
CHECK_DEADLOCK FALSE
