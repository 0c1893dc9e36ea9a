SPECIFICATION Spec
CONSTANTS
  Documents <- MCDocuments
  BenchOptions <- MCBenchOptions
  Interventions <- MCInterventions
  Recoveries <- MCRecoveries
  Baselines <- MCBaselines
  GateOptions <- MCGateOptions
  MaxCalls = 2
INVARIANTS
  ReportTellsTheTrials
  GateHoldsTheLine
CHECK_DEADLOCK FALSE
