SPECIFICATION Spec
CONSTANTS
  IssueName <- MCIssueName
  Runs <- MCTwoWriters
  maxSteps = 20
INVARIANTS
  RefusedAmountNotReissued
CHECK_DEADLOCK FALSE
