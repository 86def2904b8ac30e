----------------------------- MODULE Operations -----------------------------
(***************************************************************************)
(* The operations command line (operations.py): backup-create and          *)
(* backup-restore over LogicalBackup, each run recording its outcome in    *)
(* OperationMetrics.  A create stores the backup, then writes a restore    *)
(* file that names it, in place; a restore finds its backup through that   *)
(* file alone.  Nothing keeps a create from taking an id again, after      *)
(* another create or beside it.                                            *)
(***************************************************************************)
EXTENDS FiniteSets, LogicalBackup, OperationMetrics

CONSTANTS
    BackupId,
    MaxStored   \* bound on the backups in the store

CreateRun == {r \in Run : OperationOf(r) = "backup_create"}
RestoreRun == {r \in Run : OperationOf(r) = "backup_restore"}

ASSUME OperationsAssumption ==
    Operation = {"backup_create", "backup_restore"} /\ Creator = CreateRun

VARIABLES
    restoreFile,    \* backup-<id>.restore.json
    named,          \* the backup a whole one names
    creating,       \* the runs that create, each with its id
    writing,        \* where the writing of its restore file stands
    spoiled         \* ids whose whole file has been emptied or mixed (history)

fileVars == <<restoreFile, named, spoiled>>
commandVars == <<fileVars, creating, writing>>
operationsVars == <<backupVars, metricsVars, commandVars>>

OperationsTypeOK ==
    /\ BackupTypeOK
    /\ MetricsTypeOK
    /\ restoreFile \in [BackupId -> {"absent", "empty", "mixed", "whole"}]
    /\ named \in [BackupId -> SUBSET Row]
    /\ creating \subseteq CreateRun \X BackupId
    /\ \A c \in creating : phase[c[1]] = "execute"
    /\ writing \in [CreateRun -> {"unopened", "open", "filled"}]
    /\ spoiled \subseteq BackupId

OperationsInit ==
    /\ BackupInit
    /\ MetricsInit
    /\ restoreFile = [id \in BackupId |-> "absent"]
    /\ named = [id \in BackupId |-> {}]
    /\ creating = {}
    /\ writing = [r \in CreateRun |-> "unopened"]
    /\ spoiled = {}

----------------------------------------------------------------------------
Request ==
    /\ \E ev \in EventType, x \in Subject : Transact(ev, x)
    /\ UNCHANGED <<metricsVars, commandVars>>

BeginCreate(r, id) ==
    /\ Begin(r)
    /\ creating' = creating \cup {<<r, id>>}
    /\ UNCHANGED <<backupVars, fileVars, writing>>

\* create: its SELECTs, one after the other, and put_immutable of what they read.
CreateReads(r) ==
    /\ \/ ReadTable(r)
       \/ Cardinality(stored \cup {dump[r]}) <= MaxStored /\ Put(r)
    /\ UNCHANGED <<metricsVars, commandVars>>

\* metadata.write_text: open empties a file that is there, ...
OpenRestoreFile(r, id) ==
    /\ next[r] = Stored
    /\ writing[r] = "unopened"
    /\ restoreFile' = [restoreFile EXCEPT ![id] = "empty"]
    /\ spoiled' = IF restoreFile[id] = "whole" THEN spoiled \cup {id} ELSE spoiled
    /\ writing' = [writing EXCEPT ![r] = "open"]
    /\ UNCHANGED <<backupVars, metricsVars, named, creating>>

\* Mutant: the result is reported while the file is still to be filled.
FillLater(r, id) ==
    /\ writing[r] = "open"
    /\ writing' = [writing EXCEPT ![r] = "filled"]
    /\ UNCHANGED <<backupVars, metricsVars, fileVars, creating>>

\* ... then it is filled.  Where another create has filled it in between, the
\* longer of the two texts keeps its end.
FillRestoreFile(r, id) ==
    /\ writing[r] = "open"
    /\ \/ /\ restoreFile' = [restoreFile EXCEPT ![id] = "whole"]
          /\ spoiled' = spoiled \ {id}
       \/ /\ restoreFile[id] \in {"whole", "mixed"}
          /\ restoreFile' = [restoreFile EXCEPT ![id] = "mixed"]
          /\ spoiled' = spoiled \cup {id}
    /\ named' = [named EXCEPT ![id] = dump[r]]
    /\ writing' = [writing EXCEPT ![r] = "filled"]
    /\ UNCHANGED <<backupVars, metricsVars, creating>>

\* What create has read goes with it; what it has stored and written stays.
Leave(r, id) ==
    /\ EndCreate(r)
    /\ creating' = creating \ {<<r, id>>}
    /\ writing' = [writing EXCEPT ![r] = "unopened"]
    /\ UNCHANGED fileVars

CreateReturns(r, id) == writing[r] = "filled" /\ Execute(r, TRUE) /\ Leave(r, id)
CreateRaises(r, id) == Execute(r, FALSE) /\ Leave(r, id)
CreateDies(r, id) == Die(r) /\ Leave(r, id)

Create(r, id) ==
    \/ CreateReads(r) \/ OpenRestoreFile(r, id) \/ FillRestoreFile(r, id)
    \/ CreateReturns(r, id) \/ CreateRaises(r, id) \/ CreateDies(r, id)

BeginRestore(r) ==
    /\ Begin(r)
    /\ UNCHANGED <<backupVars, commandVars>>

RestoreReturns(r, id) ==
    /\ restoreFile[id] = "whole"
    /\ Restore(named[id])
    /\ Execute(r, TRUE)
    /\ UNCHANGED commandVars

\* A foreign key or the verification fails, or the file does not parse.
RestoreRaises(r, id) ==
    /\ \/ /\ restoreFile[id] = "whole"
          /\ RestoreFails(named[id]) \/ RestoreUnverified(named[id])
       \/ restoreFile[id] # "whole" /\ UNCHANGED backupVars
    /\ Execute(r, FALSE)
    /\ UNCHANGED commandVars

\* Recording, and dying outside a create, touch nothing else.
RecordOrDie(r) ==
    /\ \/ Record(r)
       \/ /\ \A c \in creating : c[1] # r
          /\ Die(r)
    /\ UNCHANGED <<backupVars, commandVars>>

Passes == Tick /\ UNCHANGED <<backupVars, commandVars>>

OperationsNext ==
    \/ Request \/ Passes
    \/ \E r \in CreateRun, id \in BackupId : BeginCreate(r, id)
    \/ \E c \in creating : Create(c[1], c[2])
    \/ \E r \in RestoreRun : BeginRestore(r)
    \/ \E r \in RestoreRun, id \in BackupId : RestoreReturns(r, id) \/ RestoreRaises(r, id)
    \/ \E r \in Run : RecordOrDie(r)

OperationsSpec == OperationsInit /\ [][OperationsNext]_operationsVars

----------------------------------------------------------------------------
(* When a create has reported success, and as long as the metric shows     *)
(* one, a whole restore file names a backup that is in the store: no crash *)
(* between the store, the restore file and the metric leaves the operator  *)
(* with a success and nothing to restore from.  Only a create that takes   *)
(* the id again can: it has emptied or mixed the whole file under that id, *)
(* and none has filled it since (_execute, main).                          *)
SuccessMeansReachable ==
    (\/ metric["backup_create"].last # Never
     \/ \E r \in CreateRun : phase[r] # "execute" /\ valid[r])
        => \E id \in BackupId :
              \/ restoreFile[id] = "whole" /\ named[id] \in stored
              \/ id \in spoiled
=============================================================================
