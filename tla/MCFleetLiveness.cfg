SPECIFICATION FairSpec
CONSTANTS
    Workers = {w1, w2}
    Locals = {l1}
    Runs = {r1, r2}
    None = None
    TTL = 2
    Backoff = 1
    MaxAttempts = 1
    MaxSteps = 1
    Faults <- LivenessFaults
PROPERTY
    EveryRunSettles
CHECK_DEADLOCK FALSE
