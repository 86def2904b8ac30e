\* flush(10) times out and the worker stops.
SPECIFICATION Spec
CONSTANTS
    NEvents = 2
    Worker = {w1, w2}
    Operator = {o1}
    MaxAttempts = 2
    BatchLimit = 2
    Postgres = TRUE
    FlushMayTimeOut = TRUE
    MaxCrashes = 1
    MaxReplays = 0
INVARIANT
    AtLeastOnce
