SPECIFICATION Spec
CONSTANTS
  Histories <- MCHistories
  Word = 2
INVARIANTS TypeOK VerdictRight SearchConsistent PartialsValid LongestShown
PROPERTY CheckEnds
CHECK_DEADLOCK FALSE
