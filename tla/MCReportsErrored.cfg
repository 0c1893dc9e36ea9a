SPECIFICATION Spec
CONSTANTS
  Documents <- MCOneCase
  BenchOptions <- MCBenchOptions
  Interventions <- MCInterventions
  Recoveries <- MCRecoveries
  Baselines <- MCBaselines
  GateOptions <- MCGateOptions
  MaxCalls = 2
INVARIANT
  ErroredConductIsGated
CHECK_DEADLOCK FALSE
