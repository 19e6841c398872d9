CONSTANTS
  s1 = s1
  s2 = s2
  Server = {s1, s2}
  Nil = Nil
  c1 = c1
  Command = {c1}
  MaxElection = 2
  MaxRestart = 0
  MaxBeat = 1
SPECIFICATION LiveSpec
PROPERTIES
  StartedIsApplied
CHECK_DEADLOCK FALSE
