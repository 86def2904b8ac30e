\* One replay: the second dead letter of a row violates UNIQUE(outbox_id).
SPECIFICATION FairSpec
CONSTANTS
    NEvents = 2
    Worker = {w1, w2}
    Operator = {o1}
    MaxAttempts = 2
    BatchLimit = 2
    Postgres = TRUE
    FlushMayTimeOut = FALSE
    MaxCrashes = 0
    MaxReplays = 1
PROPERTY
    Settled
