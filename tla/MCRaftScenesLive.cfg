CONSTANTS
  s1 = s1
  s2 = s2
  s3 = s3
  Server = {s1, s2, s3}
  Nil = Nil
  c1 = c1
  c2 = c2
  c3 = c3
  c4 = c4
  Command = {c1, c2, c3, c4}
  MaxElection = 7
  MaxRestart = 0
  MaxBeat = 0
  Scene = {"conflict"}
SPECIFICATION MCLiveSpec
PROPERTY
  StartedIsReplicated
CHECK_DEADLOCK FALSE
