SPECIFICATION Spec
CONSTANTS
    Configs <- MCConfigs
    Trips <- MCTrips
    Responses <- MCResponses
    MaxTurns = 2
    ReplayDelay = 15
    MaxAgentOutput = 1
INVARIANTS
    PlaybackFaithful
    ToldIsRecorded
    CancelEndsCall
    ExecLeavesNothing
CHECK_DEADLOCK FALSE
