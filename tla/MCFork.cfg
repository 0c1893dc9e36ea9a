\* Completed and refused runs may rest.
CHECK_DEADLOCK FALSE
SPECIFICATION Spec
CONSTANTS
  IssueName <- MCIssueName
  Procs = {p1}
  Turns <- MCTurns
  Configs <- MCConfigs
  Options <- MCOptions
  parentSteps = 1
  childSteps = 2
  ParentFence = 2
  ChildFence = 1
  MaxTurns = 1
INVARIANTS
  CheckpointsRebuild
  ForkStartsAtCheckpoint
  ForkReplays
  TranscriptMatchesResults
