\* A run that is completed, or whose executions are used up, may rest.
CHECK_DEADLOCK FALSE
SPECIFICATION Spec
CONSTANTS
  IssueName <- MCIssueName
  Procs = {p1, p2}
  Turns <- MCTurns
  Configs <- MCConfigs
  maxSteps = 2
  MaxFence = 3
  MaxTurns = 2
SYMMETRY Symmetry
INVARIANTS
  CheckpointsListable
  ReplayVerifies
  OwnerCanResume
  EveryCallAnswered
PROPERTIES
  HistoryIsAppendOnly
