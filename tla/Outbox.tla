------------------------------- MODULE Outbox -------------------------------
(***************************************************************************)
(* The transactional outbox: outbox.py (OutboxPublisher, KafkaPublisher),  *)
(* worker.py and append_outbox_event of core.py, over the tables           *)
(* outbox_events and dead_letter_events of sql_models.py.                  *)
(*                                                                         *)
(* Workers run publish_batch concurrently.  A batch is one transaction: it *)
(* reads the due rows, calls the publisher for each in id order, stages an *)
(* UPDATE (and perhaps an INSERT of a dead letter) after each call, and    *)
(* commits at the end; nothing it staged is visible before.  A publisher   *)
(* call is visible at once and survives a rollback.  Operators run         *)
(* replay_dead_letter beside the workers.                                  *)
(*                                                                         *)
(* Row columns are one variable each, keyed by the row id.  dead letters   *)
(* are keyed by outbox_id, which the table declares UNIQUE.                *)
(***************************************************************************)
EXTENDS Naturals, FiniteSets

CONSTANTS
    NEvents,          \* outbox rows ever inserted: ids 1 .. NEvents
    Worker,           \* worker processes
    Operator,         \* sessions that run replay_dead_letter
    MaxAttempts,      \* OutboxPublisher.max_attempts
    BatchLimit,       \* the limit argument of publish_batch
    Postgres,         \* TRUE: FOR UPDATE SKIP LOCKED; FALSE: SQLite
    FlushMayTimeOut,  \* TRUE: flush(10) may return with the message queued
    MaxCrashes,       \* bound on worker crashes
    MaxReplays        \* bound on replay_dead_letter calls that find a row

ASSUME OutboxAssumption ==
    /\ NEvents \in Nat
    /\ MaxAttempts \in Nat \ {0}
    /\ BatchLimit \in Nat \ {0}
    /\ Postgres \in BOOLEAN
    /\ FlushMayTimeOut \in BOOLEAN
    /\ MaxCrashes \in Nat
    /\ MaxReplays \in Nat

Event == 1 .. NEvents
NoEvent == 0

VARIABLES
    stored,     \* rows whose inserting transaction committed
    attempts,   \* OutboxEvent.attempts
    published,  \* rows with published_at set
    dead,       \* rows with dead_lettered_at set
    dlq,        \* the dead letter of each row: "none", "open", "replayed"
    pc,         \* where each worker stands
    todo,       \* the selected rows each worker has not finished
    seen,       \* the attempts column as each worker's SELECT read it
    result,     \* what the publisher call in progress returned
    staged,     \* the statements each worker's transaction has executed
    buffer,     \* messages still in each worker's Kafka producer queue
    broker,     \* events the broker has stored
    replaying,  \* the dead letter each operator read as not replayed
    crashes, replays

rowVars == <<stored, attempts, published, dead, dlq>>
workerVars == <<pc, todo, seen, result, staged>>
vars == <<rowVars, workerVars, buffer, broker, replaying, crashes, replays>>

TypeOK ==
    /\ stored \subseteq Event
    /\ attempts \in [Event -> 0 .. MaxAttempts]
    /\ published \subseteq Event
    /\ dead \subseteq Event
    /\ dlq \in [Event -> {"none", "open", "replayed"}]
    /\ pc \in [Worker -> {"idle", "publish", "record", "stopped"}]
    /\ todo \in [Worker -> SUBSET Event]
    /\ seen \in [Worker -> [Event -> 0 .. MaxAttempts]]
    /\ result \in [Worker -> {"none", "ok", "failed"}]
    /\ staged \in [Worker -> [Event -> {"none", "ok", "failed"}]]
    /\ buffer \in [Worker -> SUBSET Event]
    /\ broker \subseteq Event
    /\ replaying \in [Operator -> Event \cup {NoEvent}]
    /\ crashes \in 0 .. MaxCrashes
    /\ replays \in 0 .. MaxReplays

Untouched == [e \in Event |-> "none"]

Init ==
    /\ stored = {}
    /\ attempts = [e \in Event |-> 0]
    /\ published = {}
    /\ dead = {}
    /\ dlq = [e \in Event |-> "none"]
    /\ pc = [w \in Worker |-> "idle"]
    /\ todo = [w \in Worker |-> {}]
    /\ seen = [w \in Worker |-> [e \in Event |-> 0]]
    /\ result = [w \in Worker |-> "none"]
    /\ staged = [w \in Worker |-> Untouched]
    /\ buffer = [w \in Worker |-> {}]
    /\ broker = {}
    /\ replaying = [o \in Operator |-> NoEvent]
    /\ crashes = 0
    /\ replays = 0

----------------------------------------------------------------------------
(* Locks.  PostgreSQL holds a row lock on everything the SELECT returned   *)
(* until the transaction ends.  SQLite (pysqlite) opens the transaction at *)
(* the first write, which takes the one write lock of the database.        *)

Written(w) == {e \in Event : staged[w][e] # "none"}

Holds(w) ==
    IF Postgres THEN todo[w] \cup Written(w)
    ELSE IF Written(w) # {} THEN Event ELSE {}

HeldByOther(w) == UNION {Holds(v) : v \in Worker \ {w}}

\* The WHERE clause of the SELECT.
Due == {e \in stored : e \notin published /\ e \notin dead
                        /\ attempts[e] < MaxAttempts}

\* Mutants: no SKIP LOCKED; no filter on dead_lettered_at and attempts.
SelectableWithoutSkipLocked(w) == Due
SelectableWithDeadRows(w) == (stored \ published) \ HeldByOther(w)

Selectable(w) == IF Postgres THEN Due \ HeldByOther(w) ELSE Due

\* ORDER BY id LIMIT BatchLimit.
Batch(w) == {e \in Selectable(w) :
                Cardinality({f \in Selectable(w) : f < e}) < BatchLimit}

\* The row whose turn it is in worker w's loop.
IsNext(w, e) == e \in todo[w] /\ \A f \in todo[w] : e <= f

----------------------------------------------------------------------------
(* A business transaction commits with its event.  Ids are handed out      *)
(* before the commit, so rows can appear out of id order.                  *)
AppendOutboxEvent(e) ==
    /\ e \notin stored
    /\ stored' = stored \cup {e}
    /\ UNCHANGED <<attempts, published, dead, dlq, workerVars, buffer, broker,
                   replaying, crashes, replays>>

Select(w) ==
    /\ pc[w] = "idle"
    /\ Batch(w) # {}
    /\ pc' = [pc EXCEPT ![w] = "publish"]
    /\ todo' = [todo EXCEPT ![w] = Batch(w)]
    /\ seen' = [seen EXCEPT ![w] = attempts]
    /\ UNCHANGED <<rowVars, result, staged, buffer, broker, replaying,
                   crashes, replays>>

\* The batch is empty: the worker sleeps poll_seconds and asks again.
Poll(w) ==
    /\ pc[w] = "idle"
    /\ Batch(w) = {}
    /\ UNCHANGED vars

\* The publisher call returns r.
Returns(w, r) ==
    /\ pc[w] = "publish"
    /\ pc' = [pc EXCEPT ![w] = "record"]
    /\ result' = [result EXCEPT ![w] = r]
    /\ UNCHANGED <<rowVars, todo, seen, staged, replaying, crashes, replays>>

\* flush returns early only when the producer queue is empty.
PublishDelivers(w) ==
    \E e \in Event :
        /\ IsNext(w, e)
        /\ buffer[w] = {}
        /\ Returns(w, "ok")
        /\ broker' = broker \cup {e}
        /\ UNCHANGED buffer

\* produce raised, or the delivery callback reported an error; the broker may
\* have stored the message all the same.
PublishFails(w) ==
    \E e \in Event :
        /\ IsNext(w, e)
        /\ Returns(w, "failed")
        /\ broker' \in {broker, broker \cup {e}}
        /\ UNCHANGED buffer

\* flush(10) gives up; publish looks only at the callback's error list and
\* returns as if the message had been delivered.
PublishTimesOut(w) ==
    \E e \in Event :
        /\ FlushMayTimeOut
        /\ IsNext(w, e)
        /\ Returns(w, "ok")
        /\ buffer' = [buffer EXCEPT ![w] = @ \cup {e}]
        /\ UNCHANGED broker

Publish(w) == PublishDelivers(w) \/ PublishFails(w) \/ PublishTimesOut(w)

\* The producer's background thread delivers a queued message.
BufferDelivers(w, e) ==
    /\ e \in buffer[w]
    /\ buffer' = [buffer EXCEPT ![w] = @ \ {e}]
    /\ broker' = broker \cup {e}
    /\ UNCHANGED <<rowVars, workerVars, replaying, crashes, replays>>

\* Or gives it up; the callback's error lands in a list nobody reads any more.
BufferDrops(w, e) ==
    /\ e \in buffer[w]
    /\ buffer' = [buffer EXCEPT ![w] = @ \ {e}]
    /\ UNCHANGED <<rowVars, workerVars, broker, replaying, crashes, replays>>

----------------------------------------------------------------------------
\* Mutant: parks a row one attempt too late.
ExhaustedTooLate(w, e) == seen[w][e] + 1 > MaxAttempts

\* The failure branch parks the row as a dead letter.
Exhausted(w, e) == seen[w][e] + 1 >= MaxAttempts

\* The INSERT of a dead letter whose outbox_id is already in the table.
Collides(w, e) == result[w] = "failed" /\ Exhausted(w, e) /\ dlq[e] # "none"

\* Mutant: the except branch falls through to the success update.
StagedAlwaysOk(w, e) == [staged EXCEPT ![w][e] = "ok"]

StagedAfter(w, e) == [staged EXCEPT ![w][e] = result[w]]

(* The statements after the publisher call.  They wait while another       *)
(* transaction holds the row.                                              *)
Record(w) ==
    \E e \in Event :
        /\ pc[w] = "record"
        /\ IsNext(w, e)
        /\ e \notin HeldByOther(w)
        /\ ~Collides(w, e)
        /\ staged' = StagedAfter(w, e)
        /\ todo' = [todo EXCEPT ![w] = @ \ {e}]
        /\ result' = [result EXCEPT ![w] = "none"]
        /\ pc' = [pc EXCEPT ![w] = "publish"]
        /\ UNCHANGED <<rowVars, seen, buffer, broker, replaying, crashes,
                       replays>>

\* The process is gone: its transaction rolls back, its producer queue is lost.
Vanish(w) ==
    /\ pc' = [pc EXCEPT ![w] = "stopped"]
    /\ todo' = [todo EXCEPT ![w] = {}]
    /\ result' = [result EXCEPT ![w] = "none"]
    /\ staged' = [staged EXCEPT ![w] = Untouched]
    /\ buffer' = [buffer EXCEPT ![w] = {}]
    /\ UNCHANGED <<rowVars, seen, broker, replaying>>

(* IntegrityError leaves publish_batch and run_outbox_worker: neither has  *)
(* a handler for it.                                                       *)
RecordRaises(w) ==
    \E e \in Event :
        /\ pc[w] = "record"
        /\ IsNext(w, e)
        /\ e \notin HeldByOther(w)
        /\ Collides(w, e)
        /\ Vanish(w)
        /\ UNCHANGED <<crashes, replays>>

(* The transaction commits.  Both updates are guarded by published_at IS   *)
(* NULL, the INSERT of the dead letter is not.                             *)
Succeeded(w) == {e \in Written(w) : staged[w][e] = "ok"}
Parked(w) == {e \in Written(w) : staged[w][e] = "failed" /\ Exhausted(w, e)}
Retried(w) == {e \in Written(w) : staged[w][e] = "failed"} \ Parked(w)

Commit(w) ==
    /\ pc[w] = "publish"
    /\ todo[w] = {}
    /\ attempts' = [e \in Event |->
                       IF e \in Written(w) \ published
                       THEN seen[w][e] + 1 ELSE attempts[e]]
    /\ published' = published \cup Succeeded(w)
    /\ dead' = (dead \ (Retried(w) \ published)) \cup (Parked(w) \ published)
    /\ dlq' = [e \in Event |-> IF e \in Parked(w) THEN "open" ELSE dlq[e]]
    /\ staged' = [staged EXCEPT ![w] = Untouched]
    /\ pc' = [pc EXCEPT ![w] = "idle"]
    /\ UNCHANGED <<stored, todo, seen, result, buffer, broker, replaying,
                   crashes, replays>>

\* Any time, SIGTERM between batches included: main ends without a last flush.
Crash(w) ==
    /\ pc[w] # "stopped"
    /\ crashes < MaxCrashes
    /\ Vanish(w)
    /\ crashes' = crashes + 1
    /\ UNCHANGED replays

Restart(w) ==
    /\ pc[w] = "stopped"
    /\ pc' = [pc EXCEPT ![w] = "idle"]
    /\ UNCHANGED <<rowVars, todo, seen, result, staged, buffer, broker,
                   replaying, crashes, replays>>

----------------------------------------------------------------------------
(* replay_dead_letter: a plain SELECT, then two updates and the commit.    *)
(* Both updates go by id alone, so an operator that read the letter before *)
(* another one's commit still writes.                                      *)
ReplayRead(o, e) ==
    /\ replaying[o] = NoEvent
    /\ dlq[e] = "open"
    /\ replays < MaxReplays
    /\ replaying' = [replaying EXCEPT ![o] = e]
    /\ replays' = replays + 1
    /\ UNCHANGED <<rowVars, workerVars, buffer, broker, crashes>>

\* Mutant: the letter is marked replayed, the outbox row stays parked.
ReplayKeepsDead(o) ==
    \E e \in Event :
        /\ replaying[o] = e
        /\ \A w \in Worker : e \notin Holds(w)
        /\ attempts' = [attempts EXCEPT ![e] = 0]
        /\ dlq' = [dlq EXCEPT ![e] = "replayed"]
        /\ replaying' = [replaying EXCEPT ![o] = NoEvent]
        /\ UNCHANGED <<stored, published, dead, workerVars, buffer, broker,
                       crashes, replays>>

ReplayWrite(o) ==
    \E e \in Event :
        /\ replaying[o] = e
        /\ \A w \in Worker : e \notin Holds(w)
        /\ attempts' = [attempts EXCEPT ![e] = 0]
        /\ dead' = dead \ {e}
        /\ dlq' = [dlq EXCEPT ![e] = "replayed"]
        /\ replaying' = [replaying EXCEPT ![o] = NoEvent]
        /\ UNCHANGED <<stored, published, workerVars, buffer, broker, crashes,
                       replays>>

----------------------------------------------------------------------------
\* What a worker process does by itself while it runs.
WorkerStep(w) == Select(w) \/ Publish(w) \/ Record(w) \/ RecordRaises(w) \/ Commit(w)

Next ==
    \/ \E e \in Event : AppendOutboxEvent(e)
    \/ \E w \in Worker : WorkerStep(w) \/ Poll(w) \/ Crash(w) \/ Restart(w)
    \/ \E w \in Worker, e \in Event : BufferDelivers(w, e) \/ BufferDrops(w, e)
    \/ \E o \in Operator, e \in Event : ReplayRead(o, e)
    \/ \E o \in Operator : ReplayWrite(o)

Spec == Init /\ [][Next]_vars

(* The worker loop never stops by itself, a stopped container is started   *)
(* again, and a producer resolves what is in its queue.                    *)
Fairness ==
    /\ \A w \in Worker : WF_vars(WorkerStep(w)) /\ WF_vars(Restart(w))
    /\ \A w \in Worker, e \in Event :
            WF_vars(BufferDelivers(w, e) \/ BufferDrops(w, e))

FairSpec == Spec /\ Fairness

----------------------------------------------------------------------------
(* No worker hands over an event that another worker's committed batch has *)
(* already published: SKIP LOCKED keeps the row from being claimed twice   *)
(* (outbox.py, publish_batch).                                             *)
NoRepublish ==
    \A w \in Worker, e \in Event :
        pc[w] = "publish" /\ IsNext(w, e) => e \notin published

(* The two tables agree: a row is parked exactly while its dead letter is  *)
(* open, and a parked row was not published.  Operators that replay the    *)
(* same letter twice must not break this.                                  *)
DeadLettersAgree ==
    /\ \A e \in Event : e \in dead <=> dlq[e] = "open"
    /\ dead \cap published = {}

(* Every row that is neither published nor parked is still due, so that    *)
(* the SELECT of some later batch returns it.                              *)
NoRowStranded == stored \ (published \cup dead) \subseteq Due

(* At-least-once: a row that counts as published reached the broker        *)
(* (docstring of OutboxPublisher).                                         *)
AtLeastOnce == published \subseteq broker \cup UNION {buffer[w] : w \in Worker}

(* Bounded retries: every stored event is at last published or parked.     *)
Settled == \A e \in Event : e \in stored ~> e \in published \cup dead

(* The outbox implements the abstract delivery promise, the broker's log   *)
(* being what is delivered.                                                *)
Delivery == INSTANCE EventDelivery WITH delivered <- broker
ImplementsDelivery == Delivery!DeliverySpec
=============================================================================
