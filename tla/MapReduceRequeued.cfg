SPECIFICATION LiveSpec
CONSTANTS
  MapTask = {m1}
  ReduceTask = {r1}
  Worker = {w1, w2}
  None = None
  MayTimeout = TRUE
  MayCrash = FALSE
  MaxID = 3
CHECK_DEADLOCK FALSE
PROPERTY
  TimedOutRequeued
