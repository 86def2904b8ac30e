------------------------------ MODULE TaxFlow ------------------------------
(***************************************************************************)
(* TaxFlowService of taxflow.py behind the endpoints of fastapi_app.py:    *)
(* idempotent ingestion and rule runs, the review workflow, and the three  *)
(* transactions POST /tax/runs makes of one request.  One tenant.  A call  *)
(* is one request thread; between its statements other calls commit.       *)
(*                                                                         *)
(* On PostgreSQL (READ COMMITTED) a statement sees what has committed by   *)
(* then, and calls with one idempotency key queue on an advisory lock.  On *)
(* SQLite reads take no lock, and the first write takes the database's.    *)
(***************************************************************************)
EXTENDS Naturals, FiniteSets

CONSTANTS
    Call,       \* concurrent requests
    User,       \* claims["sub"]
    Key,        \* idempotency keys
    Invoice,    \* invoice_id values: the body of an ingest
    Pack,       \* rule packs and versions: the body of a run
    RunId,      \* uuid4 values
    MaxTx,      \* bound on ingested transactions
    None        \* no row

NoKey == "no key"
NoRun == "no run"
NoUser == "nobody"

\* No row is none of the rows, no user none of the users, and so on.
ASSUME TaxAssumption ==
    /\ MaxTx \in Nat
    /\ NoKey \notin Key /\ NoUser \notin User /\ NoRun \notin RunId

TxId == 1 .. MaxTx
Dialect == {"postgresql", "sqlite"}
Body == Invoice \cup Pack

VARIABLES
    dialect,    \* Database.dialect, fixed at start
    txs,        \* tax_transactions
    runs,       \* tax_rule_runs with their findings, by run_id
    workflow,   \* tax_run_workflow, by run_id
    idem,       \* idempotency_records, by operation and key
    pc,         \* where each call stands
    call        \* what each call has been given and has read

vars == <<dialect, txs, runs, workflow, idem, pc, call>>

Tx == [id : TxId, invoice : Invoice, key : Key \cup {NoKey}]

Run == [key : Key \cup {NoKey}, pack : Pack,
        rows : SUBSET TxId, flagged : SUBSET TxId]

Workflow == [requested_by : User, reviewed_by : User \cup {NoUser}, version : 1 .. 2,
             status : {"PENDING_REVIEW", "APPROVED", "REJECTED"}]

Record == [body : Body, run : RunId \cup {NoRun}]

CallState == [user : User \cup {NoUser}, key : Key \cup {NoKey}, body : Body \cup {None},
              run : RunId \cup {NoRun}, rows : SUBSET TxId, flagged : SUBSET TxId]

Blank == [user |-> NoUser, key |-> NoKey, body |-> None, run |-> NoRun,
          rows |-> {}, flagged |-> {}]

Operation == {"tax.ingest", "tax.run_rules"}

ASSUME NoneAssumption == None \notin Run \cup Workflow \cup Record

TypeOK ==
    /\ dialect \in Dialect
    /\ txs \subseteq Tx
    /\ runs \in [RunId -> Run \cup {None}]
    /\ workflow \in [RunId -> Workflow \cup {None}]
    /\ idem \in [Operation -> [Key -> Record \cup {None}]]
    /\ pc \in [Call -> {"idle", "ingest", "run", "duplicates", "store", "ran",
                        "request", "review"}]
    /\ call \in [Call -> CallState]

Init ==
    /\ dialect \in Dialect
    /\ txs = {}
    /\ runs = [r \in RunId |-> None]
    /\ workflow = [r \in RunId |-> None]
    /\ idem = [op \in Operation |-> [k \in Key |-> None]]
    /\ pc = [c \in Call |-> "idle"]
    /\ call = [c \in Call |-> Blank]

----------------------------------------------------------------------------
(* Locks and idempotency records.                                          *)

InTransaction(op) ==
    IF op = "tax.ingest" THEN {"ingest"} ELSE {"run", "duplicates", "store"}

\* Mutant: pg_advisory_xact_lock left out.
KeyLockAlwaysFree(c, op, k) == TRUE

KeyLockFree(c, op, k) ==
    dialect = "postgresql" /\ k # NoKey =>
        \A d \in Call \ {c} : call[d].key = k => pc[d] \notin InTransaction(op)

\* run_rules writes first, so on SQLite it keeps the write lock to its end.
WriteLockFree(c) ==
    dialect = "sqlite" =>
        \A d \in Call \ {c} : pc[d] \notin {"duplicates", "store"}

Recorded(op, k) == IF k = NoKey THEN None ELSE idem[op][k]

\* Mutant: the record is not stored with the effect.
StoredNowhere(op, k, body, run) == idem

Stored(op, k, body, run) ==
    IF k = NoKey THEN idem
    ELSE [idem EXCEPT ![op][k] = [body |-> body, run |-> run]]

Goto(c, place, state) ==
    /\ pc' = [pc EXCEPT ![c] = place]
    /\ call' = [call EXCEPT ![c] = state]
    /\ UNCHANGED dialect

Return(c) == Goto(c, "idle", Blank)

----------------------------------------------------------------------------
(* ingest.  A batch is one transaction row.  A recorded key ends the call  *)
(* without a change, with the stored answer or with "different request".   *)
IngestCheck(c, k, i) ==
    /\ pc[c] = "idle"
    /\ KeyLockFree(c, "tax.ingest", k)
    /\ Recorded("tax.ingest", k) = None
    /\ Goto(c, "ingest", [Blank EXCEPT !.key = k, !.body = i])
    /\ UNCHANGED <<txs, runs, workflow, idem>>

\* Insert the rows, append the audit event, insert the record, commit.
IngestCommit(c) ==
    /\ pc[c] = "ingest"
    /\ Cardinality(txs) < MaxTx
    /\ WriteLockFree(c)
    /\ Recorded("tax.ingest", call[c].key) = None
    /\ txs' = txs \cup {[id |-> Cardinality(txs) + 1, invoice |-> call[c].body,
                         key |-> call[c].key]}
    /\ idem' = Stored("tax.ingest", call[c].key, call[c].body, NoRun)
    /\ Return(c)
    /\ UNCHANGED <<runs, workflow>>

----------------------------------------------------------------------------
(* run_rules.                                                              *)
RunCheck(c, u, k, p) ==
    /\ pc[c] = "idle"
    /\ KeyLockFree(c, "tax.run_rules", k)
    /\ Recorded("tax.run_rules", k) = None
    /\ Goto(c, "run", [Blank EXCEPT !.user = u, !.key = k, !.body = p])
    /\ UNCHANGED <<txs, runs, workflow, idem>>

\* Mutant: the request hash is not compared.
Replayable(k, p) == Recorded("tax.run_rules", k) # None

\* The key is known and the request hash the same.
SameRequest(k, p) ==
    /\ Recorded("tax.run_rules", k) # None
    /\ Recorded("tax.run_rules", k).body = p

\* The recorded run is the answer.
RunReplay(c, u, k, p) ==
    /\ pc[c] = "idle"
    /\ KeyLockFree(c, "tax.run_rules", k)
    /\ SameRequest(k, p)
    /\ Goto(c, "ran", [Blank EXCEPT !.user = u, !.body = p,
                                    !.run = Recorded("tax.run_rules", k).run])
    /\ UNCHANGED <<txs, runs, workflow, idem>>

\* The run's INSERT, invisible to others but for SQLite's lock, and the first
\* SELECT.
ReadRows(c) ==
    /\ pc[c] = "run"
    /\ WriteLockFree(c)
    /\ Goto(c, "duplicates", [call[c] EXCEPT !.rows = {x.id : x \in txs}])
    /\ UNCHANGED <<txs, runs, workflow, idem>>

\* A later statement: it may see transactions ReadRows did not.
DuplicateIds == {x.id : x \in {x \in txs : \E y \in txs :
                                   y.id # x.id /\ y.invoice = x.invoice}}

ReadDuplicates(c) ==
    /\ pc[c] = "duplicates"
    /\ Goto(c, "store", [call[c] EXCEPT !.flagged = call[c].rows \cap DuplicateIds])
    /\ UNCHANGED <<txs, runs, workflow, idem>>

\* Mutant: the run counts the transactions again at its end.
RunOfFreshCount(c) ==
    [key |-> call[c].key, pack |-> call[c].body,
     rows |-> {x.id : x \in txs}, flagged |-> call[c].flagged]

RunOf(c) ==
    [key |-> call[c].key, pack |-> call[c].body,
     rows |-> call[c].rows, flagged |-> call[c].flagged]

RunCommit(c) ==
    /\ pc[c] = "store"
    /\ Recorded("tax.run_rules", call[c].key) = None
    /\ \E r \in RunId :
          /\ runs[r] = None
          /\ runs' = [runs EXCEPT ![r] = RunOf(c)]
          /\ idem' = Stored("tax.run_rules", call[c].key, call[c].body, r)
          /\ Goto(c, "ran", [Blank EXCEPT !.user = call[c].user, !.body = call[c].body,
                                          !.run = r])
    /\ UNCHANGED <<txs, workflow>>

(* The rest of POST /tax/runs: workflow() in a transaction of its own, then *)
(* request_review() in another one.                                        *)
ReadWorkflow(c) ==
    /\ pc[c] = "ran"
    /\ IF workflow[call[c].run] = None THEN Goto(c, "request", call[c])
                                       ELSE Return(c)
    /\ UNCHANGED <<txs, runs, workflow, idem>>

\* Mutant: an upsert in place of the INSERT.
RequestReviewOver(c) ==
    /\ pc[c] = "request"
    /\ workflow' = [workflow EXCEPT ![call[c].run] =
                        [requested_by |-> call[c].user, reviewed_by |-> NoUser,
                         version |-> 1, status |-> "PENDING_REVIEW"]]
    /\ Return(c)
    /\ UNCHANGED <<txs, runs, idem>>

(* Two calls that both find no row race for the primary key; the loser     *)
(* gets IntegrityError where a later one gets the row.  Neither writes.    *)
RequestReview(c) ==
    /\ pc[c] = "request"
    /\ workflow' = IF workflow[call[c].run] # None THEN workflow
                   ELSE [workflow EXCEPT ![call[c].run] =
                            [requested_by |-> call[c].user, reviewed_by |-> NoUser,
                             version |-> 1, status |-> "PENDING_REVIEW"]]
    /\ Return(c)
    /\ UNCHANGED <<txs, runs, idem>>

----------------------------------------------------------------------------
(* review_run: the checks on what the SELECT returned, then the UPDATE     *)
(* guarded by status and version.  A pending row always has version 1.     *)
ReviewRead(c, u, r) ==
    /\ pc[c] = "idle"
    /\ workflow[r] # None
    /\ workflow[r].status = "PENDING_REVIEW"
    /\ workflow[r].requested_by # u
    /\ Goto(c, "review", [Blank EXCEPT !.user = u, !.run = r])
    /\ UNCHANGED <<txs, runs, workflow, idem>>

\* Mutant: UPDATE ... WHERE run_id = ... alone.
UpdatedUnguarded(r) == TRUE

UpdateFindsRow(r) == workflow[r].status = "PENDING_REVIEW" /\ workflow[r].version = 1

\* Mutant: the caller's decision is written to the column unchecked.
DecisionsUnchecked == {"APPROVED", "REJECTED", "APPROVE"}

Decisions == {"APPROVED", "REJECTED"}

ReviewWrite(c) ==
    /\ pc[c] = "review"
    /\ IF UpdateFindsRow(call[c].run)
       THEN \E d \in Decisions :
               workflow' = [workflow EXCEPT
                               ![call[c].run] = [@ EXCEPT !.status = d, !.version = 2,
                                                          !.reviewed_by = call[c].user]]
       ELSE UNCHANGED workflow
    /\ Return(c)
    /\ UNCHANGED <<txs, runs, idem>>

\* IntegrityError on the idempotency record, any other exception, a crash.
RollBack(c) ==
    /\ pc[c] # "idle"
    /\ Return(c)
    /\ UNCHANGED <<txs, runs, workflow, idem>>

----------------------------------------------------------------------------
Next ==
    \E c \in Call :
        \/ \E k \in Key \cup {NoKey}, i \in Invoice : IngestCheck(c, k, i)
        \/ IngestCommit(c)
        \/ \E u \in User, k \in Key \cup {NoKey}, p \in Pack :
              RunCheck(c, u, k, p) \/ RunReplay(c, u, k, p)
        \/ ReadRows(c) \/ ReadDuplicates(c) \/ RunCommit(c)
        \/ ReadWorkflow(c) \/ RequestReview(c)
        \/ \E u \in User, r \in RunId : ReviewRead(c, u, r)
        \/ ReviewWrite(c) \/ RollBack(c)

Spec == Init /\ [][Next]_vars

----------------------------------------------------------------------------
Final(r) == workflow[r] # None /\ workflow[r].status # "PENDING_REVIEW"

(* A key has one effect: one batch, one run, and the record that replays   *)
(* it names that run (_idempotent_response, _store_idempotent_response).   *)
OneEffectPerKey ==
    \A k \in Key :
        /\ Cardinality({x \in txs : x.key = k})
              = IF idem["tax.ingest"][k] = None THEN 0 ELSE 1
        /\ {r \in RunId : runs[r] # None /\ runs[r].key = k}
              = IF idem["tax.run_rules"][k] = None THEN {}
                ELSE {idem["tax.run_rules"][k].run}

(* A call is answered with a run of the very rule pack it asked for, also  *)
(* when its key replays an earlier run.                                    *)
AnswerFitsRequest ==
    \A c \in Call : pc[c] \in {"ran", "request"} =>
        runs[call[c].run] # None /\ runs[call[c].run].pack = call[c].body

(* On PostgreSQL the advisory lock turns a concurrent retry into a replay: *)
(* no call gets as far as the primary key of a record that is taken.       *)
NoKeyConflict ==
    dialect = "postgresql" =>
        \A c \in Call, op \in Operation :
            pc[c] \in InTransaction(op) => Recorded(op, call[c].key) = None

(* A run flags every transaction it counted that shares its invoice with   *)
(* another one it counted, although rows and duplicates are read by two    *)
(* statements with ingests between them.                                   *)
NoMissedDuplicate ==
    \A r \in RunId : runs[r] # None =>
        \A x, y \in txs :
            /\ x.id # y.id /\ x.invoice = y.invoice
            /\ {x.id, y.id} \subseteq runs[r].rows
            => {x.id, y.id} \subseteq runs[r].flagged

(* Who requested a review is never who decides on it, although the check   *)
(* and the UPDATE are two statements and calls race to make the request    *)
(* (request_review, review_run).                                           *)
ReviewerIsAnother ==
    \A r \in RunId : Final(r) => workflow[r].reviewed_by # workflow[r].requested_by

(* The first decision stands: racing reviewers, retries of the endpoint    *)
(* and stale reads never change a decided workflow (review_run).           *)
DecisionIsFinal ==
    [][\A r \in RunId : Final(r) => workflow'[r] = workflow[r]]_vars

(* So a decision stands: it is another's than the requester's, for good.   *)
DecisionStands == []ReviewerIsAnother /\ DecisionIsFinal
=============================================================================
