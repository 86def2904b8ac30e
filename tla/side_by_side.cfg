\* Bounds, part by part; the sets of inputs are in MCSideBySide.
SPECIFICATION Spec
CONSTANTS
    \* Two appending threads, two processors on one checkpoint, one poison event.
    Appender = {a1, a2}
    Processor = {p1, p2}
    Event = {e1, e2, bad}
    Poison = {bad}
    MaxRecords = 3
    None = None
    Empty = Empty
    Mixed = Mixed
    \* Three entities, the least for a cycle; one investigation.
    Entity = {1, 2, 3}
    Caller = {c1}
    EdgeBatch <- MCEdgeBatch
    Nothing = Nothing
    \* One tax run to back up, its chain on SQLite, under one id taken again and
    \* again; two runs of an operation may overlap.
    Batch = {}
    TaxRun = {r1}
    Creator <- CreateRun
    ChainMayFork = TRUE
    BackupId = {id1}
    MaxStored = 1
    Operation = {"backup_create", "backup_restore"}
    Slot = {s1, s2}
    MaxTime = 3
    \* Two exports of one run, packages of up to three blocks.
    Export = {x1, x2}
    MaxTrail = 2
    \* Three texts under two keys and two URLs.
    Key = {k1, k2}
    Text = {1, 2, 3}
    Url = {l1, l2}
    Lexical <- MCLexical
    Dense <- MCDense
    Reader = {q1}
    MaxDocuments = 3
    Pack <- MCPack
    TaxRow <- MCTaxRow
    \* Two controls and two usable files.
    Control = {1, 2}
    File = {"f1", "f2", "f3"}
    Misfit = {"f3"}
    MaxAge = 2
    Item <- MCItem
    \* Three threads that observe or render.
    Thread = {t1, t2, t3}
    Route = {h1}
    MaxRequests = 2
INVARIANTS
    TypeOK
    StreamVerifies
    NoRecordSkipped
    ReportsStayTrue
    MetricIsTrue
    SuccessMeansReachable
    AuditedRowsArePresent
    ResponseIsPackage
    AnswersAreGrounded
    FindingsAreDue
    AdmittedOnOwnEvidence
    ExpositionsAgree
PROPERTIES
    CyclesReported
    SuccessSurvives
SYMMETRY
    Interchangeable
