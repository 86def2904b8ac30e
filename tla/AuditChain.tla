----------------------------- MODULE AuditChain -----------------------------
(***************************************************************************)
(* The per-tenant hash chain of core.py: append_audit_event at the end of  *)
(* a business transaction, and verify_audit_chain.  A session is one       *)
(* request's transaction.  SHA-256 is taken as injective, so an event's    *)
(* hash is represented by its row id; GENESIS is 0.                        *)
(***************************************************************************)
EXTENDS Naturals

CONSTANTS
    Tenant,
    Session,
    Postgres,   \* TRUE: pg_advisory_xact_lock; FALSE: SQLite's write lock
    MaxId       \* bound on allocated ids (committed or rolled back)

ASSUME AuditAssumption == Postgres \in BOOLEAN /\ MaxId \in Nat

Genesis == 0
Id == 1 .. MaxId

VARIABLES
    rows,      \* committed AuditEvent rows
    nextId,    \* the id sequence
    pc,        \* where each session stands
    tenant,    \* whose chain it appends to
    writes,    \* has its transaction written before append_audit_event?
    head,      \* previous_hash as its SELECT found it
    row        \* the id of the row it has inserted

vars == <<rows, nextId, pc, tenant, writes, head, row>>

Row == [id : Id, tenant : Tenant, prev : Id \cup {Genesis}]

TypeOK ==
    /\ rows \subseteq Row
    /\ nextId \in 1 .. MaxId + 1
    /\ pc \in [Session -> {"idle", "business", "locked", "read", "inserted"}]
    /\ tenant \in [Session -> Tenant]
    /\ writes \in [Session -> BOOLEAN]
    /\ head \in [Session -> Id \cup {Genesis}]
    /\ row \in [Session -> Id \cup {Genesis}]

Init ==
    /\ rows = {}
    /\ nextId = 1
    /\ pc = [s \in Session |-> "idle"]
    /\ tenant \in [Session -> Tenant]
    /\ writes = [s \in Session |-> FALSE]
    /\ head = [s \in Session |-> Genesis]
    /\ row = [s \in Session |-> Genesis]

----------------------------------------------------------------------------
RowsOf(t) == {r \in rows : r.tenant = t}

\* h is what "ORDER BY id DESC LIMIT 1" would see before id i.
IsHashBefore(t, h, i) ==
    \/ /\ h = Genesis
       /\ \A r \in RowsOf(t) : r.id >= i
    \/ \E q \in RowsOf(t) :
          /\ q.id = h
          /\ q.id < i
          /\ \A r \in RowsOf(t) : r.id < i => r.id <= q.id

\* verify_audit_chain walks the rows in id order, each against the last.
Verifies(t) == \A r \in RowsOf(t) : IsHashBefore(t, r.prev, r.id)

\* Sessions whose transaction holds SQLite's write lock.
Writers == {s \in Session : pc[s] # "idle" /\ (writes[s] \/ pc[s] = "inserted")}

WriteLockFree(s) == Postgres \/ Writers \subseteq {s}

\* Mutant: no lock.
ChainLockAlwaysFree(s) == TRUE

\* pg_advisory_xact_lock(hashtext('audit:' || tenant)), held until the
\* transaction ends; nothing on SQLite.
ChainLockFree(s) ==
    Postgres => \A u \in Session \ {s} :
                    tenant[u] = tenant[s] => pc[u] \in {"idle", "business"}

----------------------------------------------------------------------------
(* The caller's own statements: rows, workflow or case updates (w), or, as *)
(* in preserve_tax_run and in calls with an empty batch, only reads.       *)
Begin(s, t, w) ==
    /\ pc[s] = "idle"
    /\ w => WriteLockFree(s)
    /\ pc' = [pc EXCEPT ![s] = "business"]
    /\ tenant' = [tenant EXCEPT ![s] = t]
    /\ writes' = [writes EXCEPT ![s] = w]
    /\ UNCHANGED <<rows, nextId, head, row>>

Lock(s) ==
    /\ pc[s] = "business"
    /\ ChainLockFree(s)
    /\ pc' = [pc EXCEPT ![s] = "locked"]
    /\ UNCHANGED <<rows, nextId, tenant, writes, head, row>>

\* Mutant: the event's own id is taken for its predecessor's.
ReadOwnHead(s) ==
    /\ pc[s] = "locked"
    /\ head' = [head EXCEPT ![s] = nextId]
    /\ pc' = [pc EXCEPT ![s] = "read"]
    /\ UNCHANGED <<rows, nextId, tenant, writes, row>>

ReadHead(s) ==
    /\ pc[s] = "locked"
    /\ \E h \in Id \cup {Genesis} :
          /\ IsHashBefore(tenant[s], h, nextId)
          /\ head' = [head EXCEPT ![s] = h]
    /\ pc' = [pc EXCEPT ![s] = "read"]
    /\ UNCHANGED <<rows, nextId, tenant, writes, row>>

\* Ids come from one sequence for all tenants and are not given back.
Insert(s) ==
    /\ pc[s] = "read"
    /\ nextId <= MaxId
    /\ WriteLockFree(s)
    /\ row' = [row EXCEPT ![s] = nextId]
    /\ nextId' = nextId + 1
    /\ pc' = [pc EXCEPT ![s] = "inserted"]
    /\ UNCHANGED <<rows, tenant, writes, head>>

Close(s) ==
    /\ pc' = [pc EXCEPT ![s] = "idle"]
    /\ writes' = [writes EXCEPT ![s] = FALSE]
    /\ head' = [head EXCEPT ![s] = Genesis]
    /\ row' = [row EXCEPT ![s] = Genesis]
    /\ UNCHANGED <<nextId, tenant>>

NewRow(s) == [id |-> row[s], tenant |-> tenant[s], prev |-> head[s]]

Commit(s) ==
    /\ pc[s] = "inserted"
    /\ rows' = rows \cup {NewRow(s)}
    /\ Close(s)

\* Any exception, or the loss of the session, rolls the transaction back.
RollBack(s) ==
    /\ pc[s] # "idle"
    /\ Close(s)
    /\ UNCHANGED rows

Next ==
    \E s \in Session :
        \/ \E t \in Tenant, w \in BOOLEAN : Begin(s, t, w)
        \/ Lock(s) \/ ReadHead(s) \/ Insert(s) \/ Commit(s) \/ RollBack(s)

Spec == Init /\ [][Next]_vars

----------------------------------------------------------------------------
(* verify_audit_chain accepts every tenant's chain in every state: racing  *)
(* requests and rolled-back ones leave no fork and no dangling hash.       *)
ChainIntact == \A t \in Tenant : Verifies(t)

(* The chain only grows at its end: a verified prefix stays as it was.     *)
GrowsAtTheEnd ==
    [][/\ rows \subseteq rows'
       /\ \A r \in rows' \ rows : \A q \in RowsOf(r.tenant) : q.id < r.id]_vars
=============================================================================
