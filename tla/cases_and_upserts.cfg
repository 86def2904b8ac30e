\* Two calls about one event, versions up to a reopened case and one more; or
\* three upserts, so that three can wait in a circle.
SPECIFICATION BothSpec
CONSTANTS
    Call = {c1, c2}
    ann = ann
    bob = bob
    User <- MCUser
    EventId = {e1}
    Content <- MCContent
    MaxVersion = 6
    None = None
    Upsert = {u1, u2, u3}
    Batches <- MCBatches
INVARIANTS
    TypeOK
    CasesFitEvents
    HistoryIsComplete
    ClosedIndependently
    UpsertTypeOK
PROPERTY
    UpsertsEnd
\* At rest every further call is refused or answered without a change, and
\* every upsert has been answered; UpsertsEnd excludes that upserts stop earlier.
CHECK_DEADLOCK FALSE
