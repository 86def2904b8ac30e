\* Two PostgreSQL workers, two operators that may replay the same dead letter.
SPECIFICATION Spec
CONSTANTS
    NEvents = 2
    Worker = {w1, w2}
    Operator = {o1, o2}
    MaxAttempts = 2
    BatchLimit = 2
    Postgres = TRUE
    FlushMayTimeOut = FALSE
    MaxCrashes = 1
    MaxReplays = 2
INVARIANTS
    TypeOK
    NoRepublish
    DeadLettersAgree
    NoRowStranded
PROPERTY
    ImplementsDelivery
