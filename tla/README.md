# TLA+ specifications of flagship-lab

`flagship_lab` is a modular monolith: four domain modules (TaxFlow, RegIntel,
ControlPulse, RiskGraph) over one relational database (PostgreSQL or SQLite),
one hash-chained audit trail per tenant, a transactional outbox with a Kafka
worker, evidence packages in an immutable object store, and logical backups.
Paths below are relative to `src/flagship_lab/`.

Almost every operation is one database transaction, `Database.connect`. What is
hard is what happens between two statements of a transaction, between two
transactions of one request, and between a transaction and something that does
not roll back: the broker, a file, another database.

To run a check: `tlc -config <cfg> <module>.tla`; to check proofs: `tlapm <module>.tla`.

## Inventory

| Part | State | Operations | What makes it hard | What must hold |
|---|---|---|---|---|
| Outbox and dead letters (`outbox.py`, `core.py`) | `outbox_events`, `dead_letter_events` | `append_outbox_event`, `publish_batch`, `replay_dead_letter`, `KafkaPublisher.publish` | worker replicas, crash between publish and commit, a batch that commits as a whole, flush time-outs, replays by operators | every stored event is delivered or parked; none is claimed twice; both tables agree |
| Worker (`worker.py`) | its open batch, the producer's buffer | the poll loop | crashes, failed commits | ends every event's retries |
| Idempotent consumer (`outbox.py`) | `consumer_receipts` and the handler's own tables | `process` | redelivery, racing duplicates, failing handlers | one effect per consumer and event |
| Audit chain (`core.py`) | `audit_events` | `append_audit_event`, `verify_audit_chain` | read-then-insert by concurrent transactions, ids handed out before commits | each tenant's chain verifies and only grows at its end |
| TaxFlow (`taxflow.py`) | transactions, runs, findings, workflow, idempotency records | `ingest`, `run_rules`, `request_review`, `review_run` | retries, racing reviewers, three transactions per request, two reads per run | one effect per key, final decisions, four eyes |
| Tax rules (`tax_rules.py`) | none | `validate_rule_pack`, `evaluate_rule` | rounding at half cents against a tolerance | what is flagged is due, what is due is flagged |
| ControlPulse (`controlpulse.py`) | events, cases with a version, transitions | `ingest_and_evaluate`, `transition_case` | racing transitions, one event id with two contents | gapless histories, independent closing |
| Event stream (`event_stream.py`) | a JSONL file, a checkpoint file | `append`, `process_available`, `replay` | threads, two processors on one checkpoint, crashes between files | the stream verifies, nothing is skipped |
| Evidence (`evidence.py`, `evidence_service.py`) | a file per run, without managed evidence | `build_tax_run_package`, `preserve_tax_run`, `export_tax_run`, `verify_evidence_package` | a snapshot read in four statements, a put that does not roll back; exports that overwrite a file others stream | the package is complete and stays readable; a torn one does not verify |
| Object store (`object_store.py`) | files with metadata | `put_immutable`, `get` | crash between data and metadata, racing equal puts | what was put whole stays whole |
| Backup (`backup.py`) | stored envelopes | `create`, `restore`, `verify` | tables read one by one beside commits | every backup restores |
| RiskGraph (`riskgraph.py`) | entities, edges | `add_entities`, `add_edges`, `investigate` | two reads beside writers, cycle search, row locks taken in the request's order | reports are true and complete, requests end |
| Operations (`operations.py`) | a restore file per backup | `main`, `_execute` | crashes between the store, the restore file and the metric | a reported success can be restored from |
| Operation metrics (`operation_metrics.py`) | a text file per operation | `record_operation` | read-merge-replace by overlapping runs | the last success is true, and is kept |
| RegIntel (`regintel.py`) | document versions | `add_document`, `search`, `hybrid_search`, `answer` | two reads of the documents for one answer | answers cite what is stored, refusals are due |
| Admission (`admission.py`) | the files met so far | `verify_admission` | what a control may use depends on those before it | no release is admitted on shared, stale or foreign evidence |
| Request counters (`observability.py`) | two counters | `observe_request`, `render` | threads | an exposition is of one moment |
| Risk model (`risk_model.py`) | model files | training | floating point | - |
| Entry points, auth, signing, telemetry, preflight (`fastapi_app.py`, `server.py`, `cli.py`, `auth.py`, ...) | - | request handling, checks | - | - |

Interactions. A request handler opens one or more transactions through a
service; nearly every service appends to the audit chain in its transaction,
and every audit event is also an outbox row. The worker moves outbox rows to
the broker; consumers take them from there. The stream processor calls
ControlPulse. Evidence reads TaxFlow's tables and the audit chain, writes to the
object store, then appends to the audit chain. Backups read every table; the
operations command line runs them, names them in restore files, and leaves a
metric for the monitoring to read.

## Modules

| Module | Models | State and actions against the code |
|---|---|---|
| `EventDelivery` | abstract: what the outbox promises | `stored`, `delivered`, `published`, `dead`; `Store`, `Deliver`, `Settle`, `PutBack` |
| `Outbox` | outbox, worker, dead letters | rows as sets `stored`, `published`, `dead` with `attempts` and `dlq`; `Select`, then `Publish` and `Record` per row, then `Commit`; `RecordRaises` is an exception in the batch, `Crash`/`Restart` the process; `ReplayRead`/`ReplayWrite` the two statements of a replay; `BufferDelivers`/`BufferDrops` the Kafka producer's own thread |
| `IdempotentConsumer` | `IdempotentConsumer.process` | a `cpc` per thread: select, handle, insert, commit; effects are visible at commit |
| `DeliveryPipeline` | composition of `EventDelivery` and `IdempotentConsumer` | the broker may hand out any delivered event again |
| `EndToEnd` | composition of `Outbox` and `IdempotentConsumer` | the consumers take from the broker's log what `DeliveryPipeline` gives them by promise |
| `AuditChain` | `append_audit_event` under concurrent transactions | `Begin`, `Lock`, `ReadHead`, `Insert` (takes an id), `Commit` or `RollBack`; `Postgres` chooses between the advisory lock and SQLite's write lock |
| `EvidenceCustody` | extends `AuditChain` with reviews, packages and the store | a session with a `job`: the package is read, put step by step (`Look`, `Create`, `WriteData`, `WriteMetadata`), then audited; `Fail` at any point keeps the files |
| `TaxFlow` | TaxFlow and its endpoints, both databases | one action per statement other calls can come between; `idem` is the idempotency table, by operation and key |
| `TaxFlowInitiator` | `TaxFlow` and a history variable | who had each run made |
| `ControlPulse` | events, cases, transitions | the SELECT and the write of each operation apart |
| `EventStream` | stream and processor | `AppendRead`/`AppendWrite` under the lock; `Start`, `Ingest`, `OpenTemp` and `FillTemp` (the two halves of `write_text`), `Replace`; `opened` follows a file that another processor's replace moves while it is being written; a batch is the numbers of the lines still to be ingested, taken least first |
| `LogicalBackup` | `create`, by several callers at once, and `restore` | `ReadTable` once per table, `Put`, `EndCreate`; `Restore`, `RestoreFails` on a foreign key, `RestoreUnverified` where the verification after the commit meets a chain that has forked on SQLite |
| `OperationMetrics` | `record_operation` in overlapping runs | a `phase` per run: `ReadMetric`, `Stamp` (the time is taken after the read), `ReplaceMetric`; `Die` anywhere; `overtaken` and `succeeded` are history |
| `Operations` | `main` and `_execute`, extends both | a create is `CreateReads` per table and for its put, `OpenRestoreFile` and `FillRestoreFile` (the two halves of `write_text`), then its metric; any id may be taken at any time, again or by two creates at once; a restore goes through a restore file; `spoiled` is history |
| `RiskGraph` | the graph and `investigate` | `ReadEntities`, `ReadEdges`; the search as operators |
| `GraphUpsert` | `add_entities` under PostgreSQL's row locks | `WriteRow` per row in the request's order, `Audit`, `CommitUpsert`; `Victim` is the deadlock detection, `Repeated` the statement that meets a row twice |
| `EvidenceExport` | `export_tax_run` to a path and its response | `Open` empties the file, `Write` fills it, `Stat` and `StreamBlock` are the response; `undisturbed` is history |
| `RegIntel` | `add_document`, `answer` | `ReadCorpus` and `SearchAndAnswer` are the two reads; scores as operators over two tables |
| `TaxRules` | a pack applied to a stored row | `Refuse` or `Judge`; decimals as integers |
| `Admission` | `verify_admission` | one step per control, in the order of their names |
| `RequestMetrics` | `Metrics` | `Acquire`, then the two additions or the two listings |
| `MC*` | instances for TLC | constants and symmetry; `MCSideBySide` and `MCCasesAndUpserts` see below |
| `*Proofs` | theorems: `Outbox`-, `DeliveryPipeline`-, `EvidenceCustody`-, `TaxFlow`-, `ControlPulse`-, `RiskGraph`- and `OperationsProofs` of the modules they are named after and those these extend (`OutboxProofs` also of `EndToEnd`, `RiskGraphProofs` of `GraphUpsert`), `SideBySideProofs` of the other parts of `MCSideBySide` and of all of them together | see below |

Abstractions that run through all of them: SHA-256 is injective, so a hash is
what it covers; names, amounts, texts and times are model values; a transaction's
writes appear at its commit, and on PostgreSQL each statement sees what has
committed by then (READ COMMITTED, the default the code leaves in place).

## Runs

| Run | Question | Bounds |
|---|---|---|
| `outbox_safety` | Do rows and dead letters stay in step, is no row lost or published after it was settled, and does the outbox implement `EventDelivery`? | 2 events, 2 workers, 2 operators, 2 attempts, 1 crash, 2 replays |
| `outbox_liveness` | Is every stored event at last published or parked? | as above without replays; flush may time out |
| `outbox_poison` | The same with a replay: **violated** | 1 replay, no crash |
| `outbox_flush` | Has every published event reached the broker? **violated** | 1 crash, flush may time out |
| `end_to_end` | Behind the outbox itself, does an event have one effect per consumer name with a receipt, none without, none unless its transaction committed, is an acknowledged one handled, and do consumers see the promise of delivery and no more? | 2 events, 1 worker, 1 operator, 2 attempts, 2 crashes, 1 replay, 2 consumer names, 2 threads |
| `evidence_custody` | Do the chains verify and only grow, and is evidence complete and readable, with everything interleaved and failing? | 3 sessions, 2 tenants, 1 run, 3 ids |
| `audit_sqlite` | Does the chain verify on SQLite? **violated** | 2 sessions |
| `taxflow` | Keys, replays, duplicates, final decisions, and a reviewer who is another than the requester, on both databases | 2 calls, 2 users, 1 key, 2 packs, 2 transactions |
| `taxflow_initiator` | Is the reviewer another than the initiator? **violated** | 2 calls, 2 users, 1 run |
| `cases_and_upserts` | Cases, histories, independent closing. Is a row or a chain never locked by two upserts, and does each that has begun come to an end? | 2 calls, 2 users, 1 event, versions to 6; or 3 upserts, 6 lists over 3 rows: opposite orders, a circle of three, a repeated row, an empty list |
| `side_by_side` | Do the components that share no state with others keep their promises, each with its own actors? | part by part, see below |
| `backup_torn` | Does every backup restore? **violated** | 1 batch, 1 run |

Why the bounds are enough for what they are to show. Every hazard listed in
`PROJECT.json` is a race of two actors, or of one actor with a crash, about one
or two rows; each run has at least two of every actor and as many rows as it
takes for one to be settled while the other is not. Only `end_to_end` has one
worker and one operator, as `outbox_safety` has two of each: what its consumers
add is a delivery after a crash or a replay that meets calls still under way.
Two attempts are the fewest with a retry; six versions take a case round its
whole cycle and beyond, so that a stale status recurs; three audit ids let a
rolled-back one leave a gap between two committed ones. Each property is also
shown to be breakable: a named mutant of a definition (a lock left out, an
attempt too many, a guard dropped) makes TLC find it violated under the same
bounds. The theorems below remove the bounds where they apply.

`side_by_side` explores nine parts in one run. Its initial states pick a
`part` and every step belongs to that part, so the states of the parts add up
and do not multiply; no behaviour mixes two parts, which share no variable but
`LogicalBackup`'s and `OperationMetrics`', and those are composed in
`Operations`. The bounds, and what they let happen:

| Part | Bounds | Least that shows |
|---|---|---|
| stream | 2 appenders, 2 processors, 3 records, 1 poison event | checkpoints that overtake each other across a record, one left empty or mixed |
| graph | 3 entities, 5 batches of edges, 1 investigation | a cycle over two requests, an edge to itself, two owners |
| metrics | 2 runs of one operation, times 1 to 3 | a failure that overwrites a success it has not read |
| operations | 1 tax run on SQLite, 1 backup id, 1 stored backup; one run at a time of either command at times 1 and 2 (`OneRun`, `ShortClock`), or two creates at once while no time passes (`OneOperation`, `ClockStands`) | a crash at each step of a create that takes its id again, two creates in one restore file, a restore that does not verify |
| exports | 2 exports, trails of up to 2 events | a short package written into a longer one while it is streamed |
| regulations | 3 texts under 2 keys and 2 URLs, 3 versions, 1 call | a version added between the two reads that changes limit, greatest score or both |
| rules | 5 packs, 2160 rows about the half cents of 13 and 100 per cent | ties, a tax off by exactly the tolerance |
| admission | 2 controls, 3 files of which 1 unusable, items with at most one other fault | one file for two controls, with either first |
| requests | 3 threads, counters to 2 | two threads between the counters while a third renders |

`OneOperation`, `OneRun`, `ShortClock` and `ClockStands` name what `metrics` and
`operations` leave out of each other's part: overlapping runs of one operation that
report at different times are explored in `metrics`. Processors and slots of runs
are interchangeable, and `side_by_side` has no liveness property, so it takes both
for symmetric. The inputs in `MCSideBySide` are
states the program can be in: batches a request may carry, rows the columns can
hold, manifests somebody can write. Where every request has been answered and
every input judged a part ends, and `Ended` stutters there, so that deadlock
stays checked everywhere else.

`cases_and_upserts` too picks a part, the cases or the upserts; they share no
variable. While the cases move no upsert has come, so nothing that
`UpsertFairness` asks for is enabled. It has no symmetry, as `UpsertsEnd` is a
liveness property.

Only `cases_and_upserts` may come to a stop, so it alone does not check deadlock: at
the bound on versions every call is refused, and in the end every upsert has been
answered. That upserts do not stop before is `UpsertsEnd`.

Fairness. `outbox_liveness`, `outbox_poison` and `cases_and_upserts` assume some.
For the upserts, `UpsertFairness`: a request that can go on does (its thread
runs, and blocked statements wake when the lock is free), and a circle of
waiting requests ends for each of them in time, by its own turn or as the
victim of PostgreSQL's deadlock detection, on by default; no request has to come
and no connection to be lost. In the outbox runs: a worker in its
loop goes on (`run_outbox_worker` never ends by itself), a worker that stopped
is started again, and the producer resolves what is in its buffer. The second
is an assumption about the deployment, as compose.yaml gives the worker no
restart policy; it is assumed in favour of the code in `outbox_poison`, whose
counterexample restarts for ever, and with the single crash of `outbox_liveness`
the second worker would do. Publishing is not assumed to succeed.

## What the violated runs show

- `outbox_poison`: `dead_letter_events.outbox_id` is unique and `replay_dead_letter`
  keeps the row. A replayed event that fails again cannot be parked a second
  time: the insert raises, the batch rolls back, and every later batch with
  this row does the same.
- `outbox_flush`: `flush(10)` reports what it left in the buffer by its result,
  which `publish` drops; the row counts as published.
- `audit_sqlite`: SQLite begins a transaction at its first write. Two requests
  that write nothing before the audit event read the same head.
- `taxflow_initiator`: run and review request are two transactions. A retry by
  another user of the tenant, after a crash between them, becomes `requested_by`.
- `backup_torn`: `create` reads `tax_rule_runs` before `tax_findings` in separate
  snapshots; restore then meets findings without a run.

## What the passing runs mark out

Some properties hold in the form stated here and would not in a stronger one
that one might expect:

- `SuccessSurvives` excepts a run that was overtaken: two overlapping runs of
  one operation can drop the last success from the metric, or put an older one
  back, though docs/production-runbook.md has every command preserve the
  last-success time after failure. It does when runs do not overlap. This and
  `MetricIsTrue` take the clock not to step back, which `time.time()` does not promise.
- `SuccessMeansReachable` excepts an id that is taken again. The create that does so
  empties the restore file of the earlier success before it fills it: if it dies in
  between, the metric still shows that success and the file is empty; two creates at
  once may leave a mixture of two texts. The model has both, and `spoiled` is what the
  property excepts. The runbook shows a dated id; nothing states that ids are used
  once, and `tests/test_operations.py:19` has a plain `nightly`.
- `StreamVerifies` is about a stream without half a record. After a write that failed
  half-way `verify` raises, as every reader does; the lines before it stay chained.
- `NoRecordSkipped` does not say that processing goes on. Two processors that share a
  checkpoint can leave it empty or mixed of two numbers; it then does not parse, and
  no run starts until a replay writes it anew.
- `AnswersAreGrounded` excepts a call between whose two reads a version was
  added: its answer may be refused although a document matched, because the
  second read is limited to as many hits as the first has rows, and its
  greatest score may be that of a version the first read has not.
- `ResponseIsPackage` excepts a disturbed response. What can reach a client then
  is a file that fails verification, never another package that passes for an
  approved one unless it is one.
- `CyclesReported` lets an edge of an entity to itself make a pair pass for a
  cycle of three.
- `UpsertsEnd` says that every request ends, not that it succeeds: nothing
  sorts the entities of a request, and no caller retries the victim.
- `FindingsAreDue` holds with the tolerance of the default pack, a cent; with a
  tolerance of zero a tax rounded half to even would be flagged.

## What is proved

Every safety property of the passing runs is a theorem, for every number of events,
workers, operators, sessions, tenants, threads and so on; of one violated run, the
theorem says what it takes for its property to hold. By module:

- `OutboxProofs`. `TypeCorrect`, then with PostgreSQL `NeverRepublished`,
  `DeadLettersAlwaysAgree` and `NoRowEverStranded` from one inductive invariant,
  `PgInv`: types; `ClaimInv`, that no two running batches claim a row and that
  what a batch has read of a claimed row is still so; and `RowInv`, that parked
  rows and open letters agree and an unsettled row has attempts left. The claims
  are needed because a batch writes at its commit what it computed from its
  SELECT. `OutboxImplementsDelivery` adds (`RefInv`) that what a batch holds as
  sent is at the broker, which fails when flush may time out: hence its second
  assumption. `AtLeastOnceWhenFlushWaits` shows that this time-out is all there is to
  `outbox_flush`: without it a published event is at the broker on either
  database, from an invariant (`DeliveredInv`) that needs no claims.
  `OutboxPublishingIsFinal`: no replay or dead letter takes `published_at` back.
  Then the composition. `EndToEndImplementsPipeline`: the refinement of the promise
  carries over when consumers run beside the outbox, as the two share the broker
  only. With the theorems about the pipeline this gives `EndToEndExactlyOnce`,
  what the whole chain from `append_outbox_event` to `process` is for: through
  crashes, repeated batches, dead letters, replays and racing calls an event has at
  most one effect in a consumer, exactly one once some call has answered for it, and
  none before its transaction committed.
- `DeliveryPipelineProofs`. `ExactlyOnceAlways`, `AckedAlwaysHandled` and
  `PipelineTypeCorrect`. The invariant adds that receipts inserted and not yet
  committed are of different keys, none of which has a committed one
  (`InsertsExclusive`, what the primary key of `consumer_receipts` gives), and that
  only a receipt lets a call return. `EffectsAreOfStoredEvents`: a consumer acts on
  stored events only, as only these are delivered. `PublishedAlwaysDelivered` and
  `PublishingIsFinal` are about the promise `EventDelivery` itself.
- `EvidenceCustodyProofs`. First the chain alone: `TypeCorrect` on both databases,
  `ChainAlwaysVerifies` and `ChainGrowsAtTheEnd` with PostgreSQL. The invariant
  `IInv` says that one session per tenant is past the lock, that ids grow, and that
  the head its holder read is still the chain's last. `CustodyImplementsChain` is
  the refinement `CustodySpec => Spec`: a review, an export and every failure of
  theirs is a step of some request or a stutter of the chain. So the chain's
  theorems hold beside custody (`ChainVerifiesInCustody`), and its invariant is at
  hand in the proofs of three more:
  - `PreservedAlwaysReadable`, on either database, from `StoreInv`: O_EXCL lets one
    session write a file, a whole file is not written again, and a put that is
    done has a whole file. It is what makes an error between the put and the audit
    event harmless.
  - `TrailAlwaysPrefix`, with PostgreSQL, from `TrailInv`: the claim is made of every
    package in use, that is stored or on its way to the store, and with it that its
    trail holds committed events only. Later events come at the end of the chain
    (`ChainGrowsAtTheEnd`), so they are after each of these.
  - `DecisionAlwaysPackaged`, with PostgreSQL, from `DecisionInv`: one reviewer at a
    time decides on a run, a decision is a committed event and never changes, and a
    package is read only of a decided run.
- `TaxFlowProofs`. `TypeCorrect` needs `CallFits` and `RecordFits`, that a call and a
  record name runs which exist and were made of the pack asked for, and
  `IdsInOrder`. `AnswerAlwaysFits` follows from them. `OneEffectAlways`: a keyed row
  and its idempotency record come and go in one commit, so there is no row without
  the record and no second one beside it. `KeysNeverConflict` is for PostgreSQL
  (the property is about that database): `LockHeld`, that two calls are never in
  the same operation's transaction with one key; who is in a transaction
  has seen no record, and none can have come since. `DuplicatesNeverMissed`, from
  `DuplicateInv`: the second read covers what the first one did, and ids ingested
  later are none of them. `DecisionAlwaysStands` puts
  an action property and an invariant together: `DecisionAlwaysFinal`, and
  `ReviewerAlwaysAnother`, from `SeparateInv`: between a reviewer's check and the
  conditional UPDATE the requester of a workflow does not change.
- `ControlPulseProofs`. `TypeCorrect`, `CasesAlwaysFitEvents`, `HistoryAlwaysComplete`
  and `AlwaysClosedIndependently`. The invariant adds that a transition under way
  was allowed on the status it has read, that its case exists and that whoever
  closes is not the event's actor (`Vetted`: the event cannot change once it has
  cases), and that a case not yet opened has no history. The version compared by
  the UPDATE ties what was read to what is written.
- `RiskGraphProofs`. `CyclesAreReal` and `EveryCycleIsFoundOnce` about
  `_cycles_of_three` on any graph, `PairPassesForCycle` about the case the first
  excludes (an entity with an edge to itself and a pair of opposite edges are
  reported as a cycle of three), `ReportsAlwaysStayTrue`, that the two reads of
  `investigate` never report what is not there, and `CyclesAlwaysReported`, which
  brings the first two into the specification: every investigation answers with
  the cycles it has read, each once. `GraphTypeCorrect` for the types.
  Of `GraphUpsert`, `UpsertTypeCorrect` (a row is locked by one transaction) and the
  safety half of `UpsertsEnd`. `UpsertsNeverAllStuck`: while requests run one of them can
  go on, because if each waited for another, all of them together would be a circle,
  of which the database ends one. `EveryUpsertStepCounts`: a step starts a request or
  takes from what one has left to do (`Work`), and none is taken up again. What
  `UpsertsEnd` has beyond these two is fairness.
- `OperationsProofs`. Of backups, `AuditedRowsAlwaysPresent`: what a backup's audit
  trail speaks of is in the backup. The trail is the first table read, a request's
  rows commit together, so they are still to be read (`DumpCatchesUp`). It is the
  half of consistency that `create` does give; `backup_torn` shows the other half.
  Of metrics, `MetricsTypeCorrect`, `MetricAlwaysTrue` and `SuccessAlwaysSurvives`. The
  invariant says of a file that it shows the truth (`ShownTruly`) and of a run that
  what it carries is still true when it writes it (`CarriedTruly`): the last success
  it has read is one of the operation and, unless it was overtaken, the one the
  file still shows; the time it has taken is no earlier, because it is taken after
  the read. Of the command line, `CommandLineImplementsParts`: each of its steps is
  a step of the backup and of the metrics or leaves them alone, so the theorems
  above hold of it (`OperationsKeepTheirParts`, `OperationsTypeCorrect`). `SuccessAlwaysReachable` uses both:
  once a success is known to anyone (`SuccessKnown`) some restore file has been whole
  and is so still, unless a create that took its id again spoiled it (`Written`); a
  whole file names a stored backup, and a create has filled its own before it reports
  anything (`CreateFits`).
- `SideBySideProofs`.
  - `ExpositionsAlwaysAgree`: between the two additions of `observe_request` a route
    is one request ahead, and the thread that is there holds the lock
    (`CountersAgree`); a half-made exposition is that of the counters
    (`HalfShown`). `RequestTypeCorrect` counts the requests that were let in and are
    not yet counted (`Uncounted`) to keep the counters within their bounds, for any
    finite number of threads.
  - `StreamTypeCorrect`; `StreamAlwaysVerifies`: the complete lines are chained whatever
    fails (`LinesChained`), so a stream without half a record verifies; and
    `NoRecordEverSkipped`: every offset a processor holds, the one in the checkpoint and the one in the temporary file are
    numbers of lines all ingested (`Covered`), whoever wrote them last; a batch
    leaves out before one of its lines only what has been ingested (`BatchFits`).
  - `FindingsAlwaysDue`, for any integers as amounts, rates and taxes: a tax
    rounded to the cent either way stays within the tolerance
    (`NeighboursTolerated`), one off by more than a cent and a half does not
    (`FarIsFlagged`).
  - `AdmissionAlwaysOnOwnEvidence`: the release is admitted exactly when there is a
    way to give each control a file of its own. `AdmissionInv` says of the
    controls gone through what a reader of the whole manifest would, so their order
    makes no difference.
  - `ResponseAlwaysPackage`: no block in the file or in a response is of a run that
    was not approved (`BuiltInv`), and an undisturbed request has the file for
    itself from its opening to its last block (`OwnFile`). `ExportTypeCorrect`:
    the file never outgrows the largest package, nor a client its Content-Length.
  - `AnswersAlwaysGrounded`, for any corpus and scores: rankings have a first hit
    with the greatest score (`BestIsOnTop`, `MaximumIsMember`), so where a document
    matched in the first read the second, of the same documents, answers
    (`MatchIsAnswered`). `LeastExists`, that a set of naturals has a least
    element, comes from the library's well-founded order on finite sets, as its
    induction cannot be used here.
    `RegTypeCorrect` has the unique key of the documents: an insertion at any place
    keeps it (`InsertedUnique`).
  - `RulesTypeCorrect` and `AdmissionTypeCorrect` for the remaining types.
  - Of all parts together, `PartsKeepTheirSpecs`: a behaviour of `MCSideBySide` is one of
    every part's own specification, which is what exploring them side by side rests
    on. So `SideBySideTypeCorrect`, and `SideBySideKeepsPromises`, the run's other safety
    properties. `CommandInv` is about the one state that two parts move: where only
    metrics move no create has run (`CreatesRest`).

The assumptions are those the constants declare, in each module (`TaxAssumption`,
`AuditAssumption`, `AdmissionAssumption` and so on: bounds are naturals, what
stands for nothing is none of the values, `Operation` is the two commands of
`operations.py`, an admission's items are records a JSON object can be, of a
finite set of controls, threads are finitely many), and those a theorem names:
`Postgres`, `~FlushMayTimeOut`, integers as ranks of entity ids, and that there is
some rule pack and some row to judge.

Only model-checked: `Settled` and `UpsertsEnd`, as liveness under fairness and
ENABLED are out of TLAPS's reach, and the refutations of the violated runs. What a
recursive definition computes on every input could not be proved either; no module
here needs one.

## Not modelled

The risk model and `RegIntelService.evaluate` (floating point, run offline),
tokens and TF-IDF (text; their scores are constants of `RegIntel`),
authentication, authorization and signing (pure checks and library calls),
preflight (independent checks of settings and catalogue rows), the log formatter
and exporters, the legacy server and the demo command line (the same services
behind another door), migrations, the frontend and deployment files, row-level
security, the S3 adapter, encryption and retention. In the stream: appends by
several processes or stream objects, which nothing excludes. In the object store,
the stream and the restore files: a loss of power that takes back what a process has
written, as metadata and text files are not fsynced; crashes are of processes. In
`OperationMetrics`: a wall clock that steps back.

## Plan

1. Done: delivery end to end, audit chain, TaxFlow, ControlPulse, stream, custody, backup
   and its command line, metrics, graph and its upserts, exports, RegIntel, tax
   rules, admission, request counters.
2. Next in the model: the remaining tables of a backup; `create` with tables of
   several tenants; the S3 adapter beside the local store.
3. Next in the proofs: nothing a run checks is left but liveness. What an extended
   model would call for first is `BackupsRestore` with a snapshot for all reads of
   `create`, the repair `backup_torn` suggests.
