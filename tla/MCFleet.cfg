SPECIFICATION Spec
CONSTANTS
    Workers = {w1, w2}
    Locals = {l1}
    Runs = {r1}
    None = None
    TTL = 2
    Backoff = 1
    MaxAttempts = 2
    MaxSteps = 1
    Faults <- FleetFaults
INVARIANTS
    TypeOK
    SoleExecutor
    DeliveryBound
    LiveHolderListed
PROPERTIES
    CompletionIsFinal
    FinishedIsTrue
SYMMETRY WorkerSymmetry
CHECK_DEADLOCK FALSE
