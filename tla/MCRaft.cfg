CONSTANTS
  s1 = s1
  s2 = s2
  s3 = s3
  Server = {s1, s2, s3}
  Nil = Nil
  c1 = c1
  Command = {c1}
  MaxElection = 2
  MaxRestart = 1
  MaxBeat = 1
SPECIFICATION Spec
CONSTRAINT InProfile
SYMMETRY Symmetry
INVARIANTS
  ElectionSafety
  DeliveredIsDurable
  
PROPERTIES
  VoteStable
  
CHECK_DEADLOCK FALSE
