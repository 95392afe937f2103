SPECIFICATION MCSpec
CONSTANTS
  Fraction = 3
  MaxTime = 6
  MaxComments = 2
  MaxTyped = 3
  MaxAnswers = 2
  Situations <- MCSituations
  MaxEntries = 4
  MaxFaults = 2
INVARIANT SameSecondHeard
CHECK_DEADLOCK FALSE
