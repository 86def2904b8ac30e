\* No replays; flush may time out; every event is settled.
SPECIFICATION FairSpec
CONSTANTS
    NEvents = 2
    Worker = {w1, w2}
    Operator = {o1}
    MaxAttempts = 2
    BatchLimit = 2
    Postgres = TRUE
    FlushMayTimeOut = TRUE
    MaxCrashes = 1
    MaxReplays = 0
PROPERTY
    Settled
