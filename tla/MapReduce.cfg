SPECIFICATION LiveSpec
CONSTANTS
  MapTask = {m1, m2}
  ReduceTask = {r1}
  Worker = {w1, w2}
  None = None
  MayTimeout = TRUE
  MayCrash = TRUE
  MaxID = 4
CHECK_DEADLOCK FALSE
INVARIANTS
  TypeOK
  OnePlace
  CountersExact
  MapBeforeReduce
  
PROPERTIES
  MapFilesFinal
  JobEnds
