---------------------------- MODULE LogicalBackup ----------------------------
(***************************************************************************)
(* BackupService of backup.py, as operations.py runs it: create reads the  *)
(* tables one statement after another while requests commit, and stores    *)
(* what it read; restore loads a stored backup into another database in    *)
(* one transaction, then verifies it.  Several creates may run beside each *)
(* other.  Tables stand for those with a rule the restore meets: *)
(* the audit trail, and the rows of tax runs with their foreign keys.  A   *)
(* row is named by the event of the transaction that inserted it.          *)
(***************************************************************************)
EXTENDS Naturals

CONSTANTS
    Batch,      \* ingested batches
    TaxRun,     \* run_id values
    Creator,    \* calls of create, each of which may come again
    ChainMayFork    \* does the source keep its audit chain on SQLite?

ASSUME BackupAssumption == ChainMayFork \in BOOLEAN

\* Mutant: the trail is read after the tables it speaks of.
OrderTrailLast == [audit_events |-> 5, tax_rule_runs |-> 1, tax_transactions |-> 2,
                   tax_findings |-> 3, tax_run_workflow |-> 4]

\* Base.metadata.sorted_tables: by name, tables with foreign keys after the rest.
Order == [audit_events |-> 1, tax_rule_runs |-> 2, tax_transactions |-> 3,
          tax_findings |-> 4, tax_run_workflow |-> 5]

Table == DOMAIN Order
Last == 5
Stored == Last + 2     \* of a call whose backup is in the store

\* The tables each audited transaction inserts into.
Inserts == [BATCH_INGESTED |-> {"audit_events", "tax_transactions"},
            RULE_RUN_COMPLETED |-> {"audit_events", "tax_rule_runs", "tax_findings"},
            REVIEW_REQUESTED |-> {"audit_events", "tax_run_workflow"}]
EventType == DOMAIN Inserts

Subject == Batch \cup TaxRun
Row == [table : Table, event : EventType, entity : Subject]

Rows(ev, x) == {[table |-> t, event |-> ev, entity |-> x] : t \in Inserts[ev]}

VARIABLES
    db,         \* committed rows of the source
    next,       \* the position of the table each create reads next
    dump,       \* the rows each has read
    stored,     \* the backups in the object store
    dest,       \* the rows of the restored database
    outcome     \* how the last restore ended

backupVars == <<db, next, dump, stored, dest, outcome>>

BackupTypeOK ==
    /\ db \subseteq Row
    /\ next \in [Creator -> 1 .. Stored]
    /\ dump \in [Creator -> SUBSET Row]
    /\ stored \subseteq SUBSET Row
    /\ dest \subseteq Row
    /\ outcome \in {"none", "valid", "failed", "unverified"}

BackupInit ==
    /\ db = {}
    /\ next = [c \in Creator |-> 1]
    /\ dump = [c \in Creator |-> {}]
    /\ stored = {}
    /\ dest = {}
    /\ outcome = "none"

----------------------------------------------------------------------------
Exists(rows, t, x) == \E row \in rows : row.table = t /\ row.entity = x

\* A request's transaction: its rows and its audit event at once.
Transact(ev, x) ==
    /\ x \in IF ev = "BATCH_INGESTED" THEN Batch ELSE TaxRun
    /\ Rows(ev, x) \cap db = {}
    /\ ev = "REVIEW_REQUESTED" => Exists(db, "tax_rule_runs", x)
    /\ db' = db \cup Rows(ev, x)
    /\ UNCHANGED <<next, dump, stored, dest, outcome>>

\* One SELECT of create: it sees what has committed by then.
ReadTable(c) ==
    /\ next[c] <= Last
    /\ dump' = [dump EXCEPT ![c] = @ \cup {row \in db : Order[row.table] = next[c]}]
    /\ next' = [next EXCEPT ![c] = @ + 1]
    /\ UNCHANGED <<db, stored, dest, outcome>>

\* The envelope's nonce is random: no two backups share a file.
Put(c) ==
    /\ next[c] = Last + 1
    /\ stored' = stored \cup {dump[c]}
    /\ next' = [next EXCEPT ![c] = Stored]
    /\ UNCHANGED <<db, dump, dest, outcome>>

\* The call returns, raises or dies; what it has read goes with it.
EndCreate(c) ==
    /\ next' = [next EXCEPT ![c] = 1]
    /\ dump' = [dump EXCEPT ![c] = {}]
    /\ UNCHANGED <<db, stored, dest, outcome>>

FitsForeignKeys(rows) ==
    \A row \in rows : row.table \in {"tax_findings", "tax_run_workflow"} =>
                          Exists(rows, "tax_rule_runs", row.entity)

\* Empties the destination and inserts the backup's rows; verify finds what
\* it has just loaded.
Restore(rows) ==
    /\ rows \in stored
    /\ FitsForeignKeys(rows)
    /\ dest' = rows
    /\ outcome' = "valid"
    /\ UNCHANGED <<db, next, dump, stored>>

\* Two audit events may have one predecessor (AuditChain on SQLite): verify
\* raises, but the transaction with the rows has committed.  Which events
\* forked is left open.
RestoreUnverified(rows) ==
    /\ rows \in stored
    /\ FitsForeignKeys(rows)
    /\ ChainMayFork
    /\ \E r, s \in rows : r # s /\ r.table = "audit_events" /\ s.table = "audit_events"
    /\ dest' = rows
    /\ outcome' = "unverified"
    /\ UNCHANGED <<db, next, dump, stored>>

\* IntegrityError: the transaction rolls back and restore raises.
RestoreFails(rows) ==
    /\ rows \in stored
    /\ ~FitsForeignKeys(rows)
    /\ outcome' = "failed"
    /\ UNCHANGED <<db, next, dump, stored, dest>>

BackupNext ==
    \/ \E ev \in EventType, x \in Subject : Transact(ev, x)
    \/ \E c \in Creator : ReadTable(c) \/ Put(c) \/ EndCreate(c)
    \/ \E rows \in stored : Restore(rows) \/ RestoreUnverified(rows) \/ RestoreFails(rows)

BackupSpec == BackupInit /\ [][BackupNext]_backupVars

----------------------------------------------------------------------------
(* Whatever create stored, restore can load into a clean database          *)
(* (BackupService: backups "with restore verification").                   *)
BackupsRestore == outcome # "failed"

(* A restored audit event finds the rows it speaks of: the audit trail     *)
(* is read before the tables it describes (create, sorted_tables).         *)
AuditedRowsArePresent ==
    \A rows \in stored \cup {dest} : \A row \in rows :
        row.table = "audit_events" => Rows(row.event, row.entity) \subseteq rows
=============================================================================
