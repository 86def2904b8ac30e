\* PostgreSQL, a flush that waits: a worker that may crash twice, an
\* operator, two consumer names and two threads.  The outbox's own runs have
\* two of each of its actors.
SPECIFICATION EndToEndSpec
CONSTANTS
    NEvents = 2
    Worker = {w1}
    Operator = {o1}
    MaxAttempts = 2
    BatchLimit = 2
    Postgres = TRUE
    FlushMayTimeOut = FALSE
    MaxCrashes = 2
    MaxReplays = 1
    Consumer = {ledger, mailer}
    Thread = {t1, t2}
SYMMETRY Interchangeable
INVARIANT
    OneEffectPerEvent
PROPERTY
    ImplementsPipeline
