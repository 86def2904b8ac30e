---------------------------- MODULE GraphUpsert ----------------------------
(***************************************************************************)
(* add_entities of riskgraph.py on PostgreSQL, row by row: its one INSERT  *)
(* .. ON CONFLICT DO UPDATE locks the rows in the order in which the       *)
(* request lists them, and holds them to the end of the transaction; the   *)
(* audit event at its end waits for the tenant's advisory lock.  Nothing   *)
(* sorts the list, so requests may wait for each other in a circle, and    *)
(* the database ends one of them.  RiskGraph.tla has the same operation as *)
(* one step.                                                               *)
(***************************************************************************)
EXTENDS Naturals, Sequences

CONSTANTS
    Upsert,     \* requests, each for one batch
    Batches     \* the lists of entity_id they may bring

ASSUME UpsertAssumption == \A list \in Batches : Len(list) \in Nat

VARIABLES
    stage,      \* where each request stands
    wanted,     \* its list
    written     \* how many rows of it are written and locked

upsertVars == <<stage, wanted, written>>

Running == {u \in Upsert : stage[u] \in {"rows", "audit"}}
Locked(u) == {wanted[u][i] : i \in 1 .. written[u]}

UpsertTypeOK ==
    /\ stage \in [Upsert -> {"idle", "rows", "audit", "committed", "failed"}]
    /\ wanted \in [Upsert -> Batches \cup {<<>>}]
    /\ \A u \in Upsert : written[u] \in 0 .. Len(wanted[u])
    \* A row is locked by one transaction, the audit chain too.
    /\ \A u, v \in Upsert : u # v => Locked(u) \cap Locked(v) = {}
    /\ \A u, v \in Upsert : stage[u] = "audit" /\ stage[v] = "audit" => u = v

UpsertInit ==
    /\ stage = [u \in Upsert |-> "idle"]
    /\ wanted = [u \in Upsert |-> <<>>]
    /\ written = [u \in Upsert |-> 0]

----------------------------------------------------------------------------
Submit(u, list) ==
    /\ stage[u] = "idle"
    /\ stage' = [stage EXCEPT ![u] = "rows"]
    /\ wanted' = [wanted EXCEPT ![u] = list]
    /\ UNCHANGED written

\* The row its INSERT comes to next.
NextRow(u) == wanted[u][written[u] + 1]
HasRow(u) == stage[u] = "rows" /\ written[u] < Len(wanted[u])
Holders(row) == {v \in Upsert : row \in Locked(v)}

WriteRow(u) ==
    /\ HasRow(u)
    /\ Holders(NextRow(u)) = {}
    /\ written' = [written EXCEPT ![u] = @ + 1]
    /\ UNCHANGED <<stage, wanted>>

\* Mutant: the audit chain's lock is not waited for.
AuditUnlocked(u) ==
    /\ stage[u] = "rows"
    /\ written[u] = Len(wanted[u])
    /\ stage' = [stage EXCEPT ![u] = "audit"]
    /\ UNCHANGED <<wanted, written>>

\* append_audit_event, once its advisory lock is free.
Audit(u) ==
    /\ stage[u] = "rows"
    /\ written[u] = Len(wanted[u])
    /\ \A v \in Upsert : stage[v] # "audit"
    /\ stage' = [stage EXCEPT ![u] = "audit"]
    /\ UNCHANGED <<wanted, written>>

\* The end of a transaction frees what it has locked.
End(u, how) ==
    /\ stage' = [stage EXCEPT ![u] = how]
    /\ wanted' = [wanted EXCEPT ![u] = <<>>]
    /\ written' = [written EXCEPT ![u] = 0]

CommitUpsert(u) == stage[u] = "audit" /\ End(u, "committed")

\* Mutant: an error that leaves the transaction open.
KeepOpen(u) ==
    /\ stage' = [stage EXCEPT ![u] = "failed"]
    /\ UNCHANGED <<wanted, written>>

\* connect rolls back and the request is answered with an error.
RollBackUpsert(u) == End(u, "failed")

\* The statement may not touch one row twice.
Repeated(u) == HasRow(u) /\ NextRow(u) \in Locked(u) /\ RollBackUpsert(u)

\* Requests of which each waits for a row that another of them has.
Circle(set) ==
    set # {} /\ \A u \in set : HasRow(u) /\ Holders(NextRow(u)) \cap (set \ {u}) # {}

\* PostgreSQL's deadlock detection raises in one of them.
Victim(u) ==
    /\ \E set \in SUBSET Running : u \in set /\ Circle(set)
    /\ RollBackUpsert(u)

\* The connection is lost.
Disconnect(u) == u \in Running /\ RollBackUpsert(u)

Go(u) == WriteRow(u) \/ Audit(u) \/ CommitUpsert(u) \/ Repeated(u) \/ Victim(u)

UpsertNext ==
    \E u \in Upsert : Go(u) \/ Disconnect(u) \/ \E list \in Batches : Submit(u, list)

\* A request's thread goes on, and deadlock detection is on; none must come or be lost.
UpsertFairness == \A u \in Upsert : WF_upsertVars(Go(u))

UpsertSpec == UpsertInit /\ [][UpsertNext]_upsertVars /\ UpsertFairness

----------------------------------------------------------------------------
(* Whatever order requests list their entities in, and whichever of them   *)
(* wait for each other or fail, each that has begun comes to an end        *)
(* (add_entities, Database.connect).                                       *)
UpsertsEnd == \A u \in Upsert : u \in Running ~> u \notin Running
=============================================================================
