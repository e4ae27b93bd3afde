CONSTANTS
  WindowBytes = 8
  SelectorUnit = 4
  VramSize = 24
  Plans <- MCPlans
  MaxCalls = 2
SPECIFICATION Spec
INVARIANTS
  WritesAreConfined
  SuccessMeansStaged
  FailureMeansRestored
CHECK_DEADLOCK FALSE
