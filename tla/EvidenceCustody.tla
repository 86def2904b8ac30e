-------------------------- MODULE EvidenceCustody --------------------------
(***************************************************************************)
(* GET /evidence/tax/{run_id} with managed evidence: the endpoint of       *)
(* fastapi_app.py, preserve_tax_run of evidence_service.py, the package of *)
(* evidence.py and LocalWormObjectStore of object_store.py, beside the     *)
(* audit chain they read from and append to (AuditChain).                  *)
(*                                                                         *)
(* A preserve session reads the package, puts it into the store and        *)
(* appends EVIDENCE_PRESERVED, all before its database transaction         *)
(* commits; the store's files do not roll back.  A file is named by the    *)
(* digest of its content, so a package stands for its version_path and the *)
(* metadata file beside it.                                                *)
(***************************************************************************)
EXTENDS AuditChain

CONSTANTS
    TaxRun,      \* run_id values
    TenantOf,    \* the tenant of each run
    Instant,     \* utc_now() in milliseconds
    None         \* no job, no package

ASSUME CustodyAssumption == TenantOf \in [TaxRun -> Tenant]

VARIABLES
    decided,    \* the id of each run's approving REVIEW_DECIDED event, or Genesis
    preserved,  \* committed EVIDENCE_PRESERVED events: the objects they name
    store,      \* the files: "open" (data unfinished), "data" (metadata
                \* unfinished) or "whole", by package
    job,        \* the run each session reviews or preserves
    put,        \* where its put_immutable stands
    package     \* what it is putting

custodyVars == <<decided, preserved, store, job, put, package>>
custodyAll == <<vars, custodyVars>>

Package == [run : TaxRun, trail : SUBSET Id, at : Instant]
Job == [kind : {"review", "preserve"}, run : TaxRun]

ASSUME NoneAssumption == None \notin Package \cup Job

CustodyTypeOK ==
    /\ TypeOK
    /\ decided \in [TaxRun -> Id \cup {Genesis}]
    /\ preserved \subseteq Package
    /\ DOMAIN store \subseteq Package
    /\ \A p \in DOMAIN store : store[p] \in {"open", "data", "whole"}
    /\ job \in [Session -> Job \cup {None}]
    /\ put \in [Session -> {"none", "read", "look", "create", "data", "metadata", "done"}]
    /\ package \in [Session -> Package \cup {None}]

CustodyInit ==
    /\ Init
    /\ decided = [r \in TaxRun |-> Genesis]
    /\ preserved = {}
    /\ store = <<>>
    /\ job = [s \in Session |-> None]
    /\ put = [s \in Session |-> "none"]
    /\ package = [s \in Session |-> None]

----------------------------------------------------------------------------
\* The UPDATE of a pending workflow row; its row lock keeps other reviewers out.
BeginReview(s, r) ==
    /\ decided[r] = Genesis
    /\ \A u \in Session : job[u] # [kind |-> "review", run |-> r]
    /\ Begin(s, TenantOf[r], TRUE)
    /\ job' = [job EXCEPT ![s] = [kind |-> "review", run |-> r]]
    /\ UNCHANGED <<decided, preserved, store, put, package>>

\* Mutant: the endpoint does not ask for the approval.
MayExportAnything(r) == TRUE

\* Read in a transaction of its own, but a decision is final (TaxFlow).
MayExport(r) == decided[r] # Genesis

BeginPreserve(s, r) ==
    /\ MayExport(r)
    /\ Begin(s, TenantOf[r], FALSE)
    /\ job' = [job EXCEPT ![s] = [kind |-> "preserve", run |-> r]]
    /\ put' = [put EXCEPT ![s] = "read"]
    /\ UNCHANGED <<decided, preserved, store, package>>

\* The run, its findings and its decided review no longer change; of the four
\* SELECTs only that of the audit events depends on when it runs.
ReadPackage(s, now) ==
    /\ put[s] = "read"
    /\ package' = [package EXCEPT ![s] =
                      [run |-> job[s].run, at |-> now,
                       trail |-> {q.id : q \in RowsOf(tenant[s])}]]
    /\ put' = [put EXCEPT ![s] = "look"]
    /\ UNCHANGED <<vars, decided, preserved, store, job>>

----------------------------------------------------------------------------
(* put_immutable.  Where it raises, the session rolls back.                *)
Missing(s) == package[s] \notin DOMAIN store

Step(s, place) ==
    /\ put' = [put EXCEPT ![s] = place]
    /\ UNCHANGED <<vars, decided, preserved, job, package>>

Write(s, status) ==
    store' = [p \in (DOMAIN store) \cup {package[s]} |->
                 IF p = package[s] THEN status ELSE store[p]]

\* A file that is there must have the digest its name says and metadata.
Look(s) ==
    /\ put[s] = "look"
    /\ \/ Missing(s) /\ Step(s, "create")
       \/ ~Missing(s) /\ store[package[s]] = "whole" /\ Step(s, "done")
    /\ UNCHANGED store

\* Mutant: opened without O_EXCL.
CreateOver(s) ==
    /\ put[s] = "create"
    /\ Write(s, "open")
    /\ Step(s, "data")

\* O_CREAT | O_EXCL.
Create(s) ==
    /\ put[s] = "create"
    /\ Missing(s)
    /\ Write(s, "open")
    /\ Step(s, "data")

WriteData(s) ==
    /\ put[s] = "data"
    /\ Write(s, "data")
    /\ Step(s, "metadata")

WriteMetadata(s) ==
    /\ put[s] = "metadata"
    /\ Write(s, "whole")
    /\ Step(s, "done")

PutImmutable(s) == Look(s) \/ Create(s) \/ WriteData(s) \/ WriteMetadata(s)

----------------------------------------------------------------------------
\* append_audit_event comes after the put.
Append(s) ==
    /\ put[s] \in {"none", "done"}
    /\ Lock(s) \/ ReadHead(s) \/ Insert(s)
    /\ UNCHANGED custodyVars

Forget(s) ==
    /\ job' = [job EXCEPT ![s] = None]
    /\ put' = [put EXCEPT ![s] = "none"]
    /\ package' = [package EXCEPT ![s] = None]
    /\ UNCHANGED store

CommitJob(s) ==
    /\ Commit(s)
    /\ decided' = IF job[s] # None /\ job[s].kind = "review"
                  THEN [decided EXCEPT ![job[s].run] = row[s]] ELSE decided
    /\ preserved' = IF put[s] = "done" THEN preserved \cup {package[s]} ELSE preserved
    /\ Forget(s)

\* An exception of any step, or a crash: the files stay as they are.
Fail(s) ==
    /\ RollBack(s)
    /\ Forget(s)
    /\ UNCHANGED <<decided, preserved>>

CustodyNext ==
    \E s \in Session :
        \/ \E t \in Tenant, w \in BOOLEAN : Begin(s, t, w) /\ UNCHANGED custodyVars
        \/ \E r \in TaxRun : BeginReview(s, r) \/ BeginPreserve(s, r)
        \/ \E now \in Instant : ReadPackage(s, now)
        \/ PutImmutable(s) \/ Append(s) \/ CommitJob(s) \/ Fail(s)

CustodySpec == CustodyInit /\ [][CustodyNext]_custodyAll

----------------------------------------------------------------------------
(* An EVIDENCE_PRESERVED event names an object that get still returns: the *)
(* put is whole before the event commits, and no later put of the same     *)
(* content, crashed or racing, damages it (put_immutable).                 *)
PreservedIsReadable ==
    \A p \in preserved : p \in DOMAIN store /\ store[p] = "whole"

(* The audit trail in a package is the tenant's chain up to a point, with  *)
(* no event missing: it verifies by itself (build_tax_run_package).        *)
TrailIsPrefix ==
    \A p \in DOMAIN store : \A q \in RowsOf(TenantOf[p.run]) :
        (\E i \in p.trail : q.id <= i) => q.id \in p.trail

(* The trail in a package holds the decision the package certifies: the    *)
(* run was approved, and the approving event is in its own evidence.       *)
DecisionIsPackaged ==
    \A p \in DOMAIN store : decided[p.run] \in p.trail
=============================================================================
