SPECIFICATION Spec
CONSTANTS
  IssueName <- MCIssueName
  Runs <- MCRuns
  maxSteps = 20
INVARIANTS
  CompletedMeansWhole
  VerdictMatchesConduct
  AnalysisIsTrue
  ViolationsBlocked
CHECK_DEADLOCK FALSE
