--------------------------- MODULE OperationsProofs ---------------------------
(***************************************************************************)
(* Theorems about the operations command line: what the order of create's  *)
(* reads gives to backups, what record_operation keeps true of the metric  *)
(* files, and that the command line implements both at once, so that a     *)
(* success an operator sees is one he can restore from.                    *)
(***************************************************************************)
EXTENDS Operations, TLAPS

(* Backups: the audit trail is read first, so whatever it speaks of is     *)
(* still to be read and is committed.                                      *)

\* A request's rows commit together.
WholeTransactions == \A row \in db : Rows(row.event, row.entity) \subseteq db

\* A create reads committed rows.
DumpCommitted == \A c \in Creator : dump[c] \subseteq db

\* A dumped audit event has its rows in the tables read so far.
DumpCatchesUp ==
    \A c \in Creator : \A row \in dump[c] : row.table = "audit_events" =>
        \A x \in Rows(row.event, row.entity) : Order[x.table] < next[c] => x \in dump[c]

\* What a create has put is there.
DumpStored == \A c \in Creator : next[c] = Stored => dump[c] \in stored

BackupInv ==
    /\ BackupTypeOK
    /\ WholeTransactions
    /\ DumpCommitted
    /\ DumpCatchesUp
    /\ DumpStored
    /\ AuditedRowsArePresent

----------------------------------------------------------------------------
LEMMA RowsTyped ==
  ASSUME NEW ev \in EventType, NEW x \in Subject
  PROVE  Rows(ev, x) \subseteq Row
BY DEF Rows, Row, Inserts, EventType, Table, Order

\* Every table is before the end of the pass, the audit trail first.
LEMMA OrderRange ==
  ASSUME NEW t \in Table
  PROVE  Order[t] \in 1 .. Last /\ (t = "audit_events" => Order[t] = 1)
BY DEF Table, Order, Last

LEMMA RowsOfTransaction ==
  ASSUME NEW ev, NEW x, NEW row \in Rows(ev, x)
  PROVE  row.event = ev /\ row.entity = x
BY DEF Rows

LEMMA BackupInvInit == BackupInit => BackupInv
BY DEF BackupInit, BackupInv, BackupTypeOK, WholeTransactions, DumpCommitted, DumpCatchesUp,
       DumpStored, AuditedRowsArePresent, Last, Stored

LEMMA BackupTypeStep == BackupTypeOK /\ [BackupNext]_backupVars => BackupTypeOK'
<1> SUFFICES ASSUME BackupTypeOK, [BackupNext]_backupVars PROVE BackupTypeOK'
  OBVIOUS
<1> USE DEF BackupTypeOK
<1>1. ASSUME NEW ev \in EventType, NEW x \in Subject, Transact(ev, x) PROVE BackupTypeOK'
  BY <1>1, RowsTyped DEF Transact
<1>2. ASSUME NEW c \in Creator, ReadTable(c) PROVE BackupTypeOK'
  BY <1>2 DEF ReadTable, Last, Stored
<1>3. ASSUME NEW c \in Creator, Put(c) PROVE BackupTypeOK'
  BY <1>3 DEF Put, Last, Stored
<1>4. ASSUME NEW c \in Creator, EndCreate(c) PROVE BackupTypeOK'
  BY <1>4 DEF EndCreate, Last, Stored
<1>5. ASSUME NEW rows \in stored, Restore(rows) \/ RestoreUnverified(rows) PROVE BackupTypeOK'
  BY <1>5 DEF Restore, RestoreUnverified
<1>6. ASSUME NEW rows \in stored, RestoreFails(rows) PROVE BackupTypeOK'
  BY <1>6 DEF RestoreFails
<1>7. CASE UNCHANGED backupVars
  BY <1>7 DEF backupVars
<1> QED
  BY <1>1, <1>2, <1>3, <1>4, <1>5, <1>6, <1>7 DEF BackupNext

\* One SELECT keeps what is known of every create: its own rows catch up with the table
\* read, the others' stay as they are.
LEMMA ReadTableCatchesUp ==
  ASSUME BackupInv, NEW c \in Creator, ReadTable(c)
  PROVE  DumpCommitted' /\ DumpCatchesUp' /\ DumpStored'
<1>0. /\ next[c] \in 1 .. Last /\ next'[c] = next[c] + 1
      /\ dump'[c] = dump[c] \cup {row \in db : Order[row.table] = next[c]}
      /\ \A d \in Creator \ {c} : next'[d] = next[d] /\ dump'[d] = dump[d]
      /\ db' = db /\ stored' = stored /\ dump[c] \subseteq db /\ db \subseteq Row
  BY DEF ReadTable, BackupInv, BackupTypeOK, DumpCommitted, Last, Stored
<1>1. DumpCommitted'
  BY <1>0 DEF BackupInv, DumpCommitted
<1>2. ASSUME NEW row \in dump'[c], row.table = "audit_events",
             NEW x \in Rows(row.event, row.entity), Order[x.table] < next'[c]
      PROVE  x \in dump'[c]
  <2>1. row \in db /\ x \in db
    BY <1>0 DEF BackupInv, WholeTransactions
  <2>2. row.table \in Table /\ x.table \in Table
    BY <1>0, <2>1 DEF Row
  <2>3. Order[x.table] \in 1 .. Last /\ Order[row.table] = 1
    BY <1>2, <2>2, OrderRange
  <2>4. CASE Order[x.table] = next[c]
    BY <1>0, <2>1, <2>4
  <2>5. CASE Order[x.table] # next[c]
    <3>1. Order[x.table] < next[c]
      BY <1>0, <1>2, <2>3, <2>5 DEF Last
    <3>2. Order[row.table] # next[c]
      BY <1>0, <2>3, <3>1 DEF Last
    <3>3. row \in dump[c]
      BY <1>0, <3>2
    <3> QED
      BY <1>0, <1>2, <3>1, <3>3 DEF BackupInv, DumpCatchesUp
  <2> QED
    BY <2>4, <2>5
<1>3. DumpCatchesUp'
  BY <1>0, <1>2 DEF BackupInv, DumpCatchesUp
<1>4. DumpStored'
  BY <1>0 DEF BackupInv, DumpStored, Last, Stored
<1> QED
  BY <1>1, <1>3, <1>4

LEMMA BackupInvStep == BackupInv /\ [BackupNext]_backupVars => BackupInv'
<1> SUFFICES ASSUME BackupInv, [BackupNext]_backupVars PROVE BackupInv'
  OBVIOUS
<1>t. BackupTypeOK /\ BackupTypeOK'
  BY BackupTypeStep DEF BackupInv
<1>1. ASSUME NEW ev \in EventType, NEW x \in Subject, Transact(ev, x) PROVE BackupInv'
  <2>1. WholeTransactions'
    <3> SUFFICES ASSUME NEW row \in db \cup Rows(ev, x)
                 PROVE  Rows(row.event, row.entity) \subseteq db \cup Rows(ev, x)
      BY <1>1 DEF WholeTransactions, Transact
    <3>1. CASE row \in db
      BY <3>1 DEF BackupInv, WholeTransactions
    <3>2. CASE row \in Rows(ev, x)
      BY <3>2, RowsOfTransaction
    <3> QED
      BY <3>1, <3>2
  <2>2. DumpCommitted'
    BY <1>1 DEF BackupInv, DumpCommitted, Transact
  <2> QED
    BY <1>1, <1>t, <2>1, <2>2
       DEF BackupInv, DumpCatchesUp, DumpStored, AuditedRowsArePresent, Transact
<1>2. ASSUME NEW c \in Creator, ReadTable(c) PROVE BackupInv'
  <2>1. WholeTransactions' /\ AuditedRowsArePresent'
    BY <1>2 DEF BackupInv, WholeTransactions, AuditedRowsArePresent, ReadTable
  <2> QED
    BY <1>2, <1>t, <2>1, ReadTableCatchesUp DEF BackupInv
<1>3. ASSUME NEW c \in Creator, Put(c) PROVE BackupInv'
  <2>1. ASSUME NEW row \in dump[c], row.table = "audit_events"
        PROVE  Rows(row.event, row.entity) \subseteq dump[c]
    <3> SUFFICES ASSUME NEW x \in Rows(row.event, row.entity) PROVE x \in dump[c]
      OBVIOUS
    <3>1. x \in Row
      BY DEF BackupInv, BackupTypeOK, DumpCommitted, WholeTransactions
    <3>2. Order[x.table] < next[c]
      BY <3>1, <1>3, OrderRange DEF Row, Put, Last
    <3> QED
      BY <2>1, <3>2 DEF BackupInv, DumpCatchesUp
  <2>2. AuditedRowsArePresent'
    BY <1>3, <2>1 DEF BackupInv, AuditedRowsArePresent, Put
  <2>3. \A d \in Creator \ {c} : next'[d] = next[d]
    BY <1>3, <1>t DEF Put, BackupTypeOK
  <2>4. DumpCatchesUp'
    BY <1>3, <2>1, <2>3 DEF BackupInv, DumpCatchesUp, Put
  <2>5. DumpStored'
    BY <1>3, <2>3 DEF BackupInv, DumpStored, Put
  <2> QED
    BY <1>3, <1>t, <2>2, <2>4, <2>5 DEF BackupInv, WholeTransactions, DumpCommitted, Put
<1>4. ASSUME NEW c \in Creator, EndCreate(c) PROVE BackupInv'
  <2>1. /\ next'[c] = 1 /\ dump'[c] = {} /\ UNCHANGED <<db, stored, dest>>
        /\ \A d \in Creator \ {c} : next'[d] = next[d] /\ dump'[d] = dump[d]
    BY <1>4, <1>t DEF EndCreate, BackupTypeOK
  <2>2. DumpCommitted' /\ DumpCatchesUp' /\ DumpStored'
    BY <2>1 DEF BackupInv, DumpCommitted, DumpCatchesUp, DumpStored, Last, Stored
  <2> QED
    BY <1>t, <2>1, <2>2 DEF BackupInv, WholeTransactions, AuditedRowsArePresent
<1>5. ASSUME NEW rows \in stored,
             Restore(rows) \/ RestoreUnverified(rows) \/ RestoreFails(rows)
      PROVE  BackupInv'
  BY <1>5, <1>t DEF BackupInv, WholeTransactions, DumpCommitted, DumpCatchesUp, DumpStored,
                    AuditedRowsArePresent, Restore, RestoreUnverified, RestoreFails
<1>6. CASE UNCHANGED backupVars
  BY <1>6, <1>t DEF BackupInv, WholeTransactions, DumpCommitted, DumpCatchesUp, DumpStored,
                    AuditedRowsArePresent, backupVars
<1> QED
  BY <1>1, <1>2, <1>3, <1>4, <1>5, <1>6 DEF BackupNext

(* Every audit event of every stored backup, and of every database         *)
(* restored from one, finds the rows it speaks of, however requests commit *)
(* between the reads of create.                                            *)
THEOREM AuditedRowsAlwaysPresent == BackupSpec => []AuditedRowsArePresent
<1>1. BackupInv => AuditedRowsArePresent
  BY DEF BackupInv
<1> QED
  BY BackupInvInit, BackupInvStep, <1>1, PTL DEF BackupSpec

----------------------------------------------------------------------------
(* Metric files, however many runs of an operation overlap.               *)

\* What a file may show at a time, given when the operation has succeeded.
ShownTruly(m, now, times) ==
    /\ m.last \in times \cup {Never}
    /\ m.last <= m.run
    /\ m.success => m.last = m.run
    /\ m.run <= now

\* What a run has read and taken, until it replaces the file.
CarriedTruly(r) ==
    /\ phase[r] \in {"stamp", "replace"} =>
          /\ previous[r] \in succeeded[OperationOf(r)] \cup {Never}
          /\ previous[r] <= clock
          /\ r \notin overtaken => previous[r] = metric[OperationOf(r)].last
    /\ phase[r] = "replace" =>
          /\ previous[r] <= timestamp[r]
          /\ timestamp[r] <= clock
          /\ valid[r] => timestamp[r] \in succeeded[OperationOf(r)]

MetricsInv ==
    /\ MetricsTypeOK
    /\ \A o \in Operation : ShownTruly(metric[o], clock, succeeded[o])
    /\ \A r \in Run : CarriedTruly(r)

----------------------------------------------------------------------------
LEMMA OperationOfRun ==
  ASSUME NEW r \in Run
  PROVE  OperationOf(r) \in Operation
BY DEF Run, OperationOf

\* A run that replaces the file writes what is true, and no earlier success
\* than it has read.
LEMMA WritesTruly ==
  ASSUME MetricsInv, NEW r \in Run, phase[r] = "replace"
  PROVE  /\ LastSuccess(r) \in Time
         /\ previous[r] <= LastSuccess(r)
         /\ ShownTruly([success |-> valid[r], run |-> timestamp[r], last |-> LastSuccess(r)],
                       clock, succeeded[OperationOf(r)])
<1>1. CarriedTruly(r) /\ previous[r] \in Time /\ timestamp[r] \in Time /\ valid[r] \in BOOLEAN
  BY DEF MetricsInv, MetricsTypeOK
<1>2. previous[r] \in Nat /\ timestamp[r] \in Nat
  BY <1>1, MetricsAssumption DEF Time
<1>3. CASE valid[r]
  BY <1>1, <1>2, <1>3 DEF CarriedTruly, LastSuccess, ShownTruly
<1>4. CASE ~valid[r]
  BY <1>1, <1>2, <1>4 DEF CarriedTruly, LastSuccess, ShownTruly
<1> QED
  BY <1>3, <1>4

----------------------------------------------------------------------------
LEMMA MetricsTypeStep == MetricsInv /\ [MetricsNext]_metricsVars => MetricsTypeOK'
<1> SUFFICES ASSUME MetricsInv, [MetricsNext]_metricsVars PROVE MetricsTypeOK'
  OBVIOUS
<1>0. MetricsTypeOK
  BY DEF MetricsInv
<1> USE <1>0 DEF MetricsTypeOK
<1>1. CASE Tick
  BY <1>1, MetricsAssumption DEF Tick, runVars, Time
<1>2. ASSUME NEW r \in Run, Begin(r) PROVE MetricsTypeOK'
  BY <1>2 DEF Begin
<1>3. ASSUME NEW r \in Run, NEW ok \in BOOLEAN, Execute(r, ok) PROVE MetricsTypeOK'
  BY <1>3 DEF Execute
<1>4. ASSUME NEW r \in Run, ReadMetric(r) PROVE MetricsTypeOK'
  BY <1>4, OperationOfRun DEF ReadMetric, Metric
<1>5. ASSUME NEW r \in Run, Stamp(r) PROVE MetricsTypeOK'
  BY <1>5, OperationOfRun DEF Stamp
<1>6. ASSUME NEW r \in Run, ReplaceMetric(r) PROVE MetricsTypeOK'
  <2>1. [success |-> valid[r], run |-> timestamp[r], last |-> LastSuccess(r)] \in Metric
    BY <1>6, WritesTruly DEF ReplaceMetric, Metric
  <2>2. metric' \in [Operation -> Metric]
    BY <1>6, <2>1, OperationOfRun DEF ReplaceMetric
  <2>3. Never \in Time
    BY MetricsAssumption DEF Never, Time
  <2>4. /\ phase' \in [Run -> {"idle", "execute", "record", "stamp", "replace"}]
        /\ valid' \in [Run -> BOOLEAN]
        /\ previous' \in [Run -> Time] /\ timestamp' \in [Run -> Time]
    BY <1>6, <2>3 DEF ReplaceMetric, Rest
  <2>5. overtaken' \subseteq {q \in Run : phase'[q] \in {"stamp", "replace"}}
    BY <1>6 DEF ReplaceMetric, Rest, Overtakes
  <2> QED
    BY <1>6, <2>2, <2>4, <2>5 DEF ReplaceMetric
<1>7. ASSUME NEW r \in Run, Die(r) PROVE MetricsTypeOK'
  <2>1. Never \in Time
    BY MetricsAssumption DEF Never, Time
  <2> QED
    BY <1>7, <2>1 DEF Die, Rest
<1>8. CASE UNCHANGED metricsVars
  BY <1>8 DEF metricsVars, runVars
<1> QED
  BY <1>1, <1>2, <1>3, <1>4, <1>5, <1>6, <1>7, <1>8 DEF MetricsNext, Record

LEMMA ShownStep ==
  ASSUME MetricsInv, [MetricsNext]_metricsVars, NEW o \in Operation
  PROVE  ShownTruly(metric'[o], clock', succeeded'[o])
<1>1. /\ clock \in Nat /\ metric[o].run \in Nat
      /\ metric \in [Operation -> Metric] /\ succeeded \in [Operation -> SUBSET Time]
      /\ ShownTruly(metric[o], clock, succeeded[o])
  BY MetricsAssumption DEF MetricsInv, MetricsTypeOK, Metric, Time
<1>2. ASSUME metric'[o] = metric[o], clock' \in {clock, clock + 1},
             succeeded[o] \subseteq succeeded'[o]
      PROVE  ShownTruly(metric'[o], clock', succeeded'[o])
  BY <1>1, <1>2 DEF ShownTruly
<1>3. CASE Tick
  BY <1>2, <1>3 DEF Tick
<1>4. ASSUME NEW r \in Run, Stamp(r) PROVE ShownTruly(metric'[o], clock', succeeded'[o])
  <2>1. succeeded[o] \subseteq succeeded'[o]
    BY <1>1, <1>4, OperationOfRun DEF Stamp
  <2> QED
    BY <1>2, <1>4, <2>1 DEF Stamp
<1>5. ASSUME NEW r \in Run, ReplaceMetric(r)
      PROVE  ShownTruly(metric'[o], clock', succeeded'[o])
  <2>1. CASE o = OperationOf(r)
    BY <1>1, <1>5, <2>1, WritesTruly DEF ReplaceMetric
  <2>2. CASE o # OperationOf(r)
    BY <1>1, <1>2, <1>5, <2>2 DEF ReplaceMetric
  <2> QED
    BY <2>1, <2>2
<1> QED
  BY <1>2, <1>3, <1>4, <1>5
     DEF MetricsNext, Record, Begin, Execute, ReadMetric, Die, metricsVars

LEMMA CarriedStep ==
  ASSUME MetricsInv, [MetricsNext]_metricsVars, NEW r \in Run
  PROVE  CarriedTruly(r)'
<1> DEFINE o == OperationOf(r)
<1>1. /\ clock \in Nat /\ previous[r] \in Nat /\ timestamp[r] \in Nat
      /\ o \in Operation /\ CarriedTruly(r)
  BY OperationOfRun, MetricsAssumption DEF MetricsInv, MetricsTypeOK, Time
<1>t. MetricsTypeOK
  BY DEF MetricsInv
\* A step of others that leaves the file alone, or that overtakes r.
<1>2. ASSUME phase'[r] = phase[r], valid'[r] = valid[r], previous'[r] = previous[r],
             timestamp'[r] = timestamp[r], clock' \in {clock, clock + 1},
             succeeded[o] \subseteq succeeded'[o],
             r \in overtaken => r \in overtaken',
             phase[r] \in {"stamp", "replace"} /\ r \notin overtaken' => metric'[o] = metric[o]
      PROVE  CarriedTruly(r)'
  BY <1>1, <1>2 DEF CarriedTruly
<1>3. CASE Tick
  BY <1>2, <1>3 DEF Tick, runVars
<1>4. ASSUME NEW q \in Run, Begin(q) PROVE CarriedTruly(r)'
  <2>1. CASE q = r
    BY <1>4, <1>t, <2>1 DEF Begin, MetricsTypeOK, CarriedTruly
  <2>2. CASE q # r
    BY <1>2, <1>4, <1>t, <2>2 DEF Begin, MetricsTypeOK
  <2> QED
    BY <2>1, <2>2
<1>5. ASSUME NEW q \in Run, NEW ok \in BOOLEAN, Execute(q, ok) PROVE CarriedTruly(r)'
  <2>1. CASE q = r
    BY <1>5, <1>t, <2>1 DEF Execute, MetricsTypeOK, CarriedTruly
  <2>2. CASE q # r
    BY <1>2, <1>5, <1>t, <2>2 DEF Execute, MetricsTypeOK
  <2> QED
    BY <2>1, <2>2
<1>6. ASSUME NEW q \in Run, ReadMetric(q) PROVE CarriedTruly(r)'
  <2>1. CASE q = r
    <3>1. /\ metric[o].last \in succeeded[o] \cup {Never}
          /\ metric[o].last <= clock
      <4>1. ShownTruly(metric[o], clock, succeeded[o]) /\ metric[o] \in Metric
        BY <1>1 DEF MetricsInv, MetricsTypeOK
      <4>2. metric[o].last \in Nat /\ metric[o].run \in Nat
        BY <4>1, MetricsAssumption DEF Metric, Time
      <4> QED
        BY <1>1, <4>1, <4>2 DEF ShownTruly
    <3>2. phase'[r] = "stamp" /\ previous'[r] = metric[o].last
      BY <1>6, <1>t, <2>1 DEF ReadMetric, MetricsTypeOK
    <3> QED
      BY <1>6, <3>1, <3>2 DEF ReadMetric, CarriedTruly
  <2>2. CASE q # r
    BY <1>2, <1>6, <1>t, <2>2 DEF ReadMetric, MetricsTypeOK
  <2> QED
    BY <2>1, <2>2
<1>7. ASSUME NEW q \in Run, Stamp(q) PROVE CarriedTruly(r)'
  <2>0. succeeded[o] \subseteq succeeded'[o]
    BY <1>1, <1>7, <1>t, OperationOfRun DEF Stamp, MetricsTypeOK
  <2>1. CASE q = r
    <3>1. /\ phase[r] = "stamp" /\ phase'[r] = "replace"
          /\ timestamp'[r] = clock /\ clock' = clock
          /\ valid'[r] = valid[r] /\ previous'[r] = previous[r]
          /\ metric' = metric /\ overtaken' = overtaken
      BY <1>7, <1>t, <2>1 DEF Stamp, MetricsTypeOK
    <3>2. valid[r] => clock \in succeeded'[o]
      BY <1>1, <1>7, <1>t, <2>1 DEF Stamp, MetricsTypeOK
    <3> QED
      BY <1>1, <2>0, <3>1, <3>2 DEF CarriedTruly
  <2>2. CASE q # r
    BY <1>2, <1>7, <1>t, <2>0, <2>2 DEF Stamp, MetricsTypeOK
  <2> QED
    BY <2>1, <2>2
<1>8. ASSUME NEW q \in Run, ReplaceMetric(q) PROVE CarriedTruly(r)'
  <2>1. CASE q = r
    BY <1>8, <1>t, <2>1 DEF ReplaceMetric, Rest, MetricsTypeOK, CarriedTruly
  <2>2. CASE q # r
    <3>1. phase[r] \in {"stamp", "replace"} /\ r \notin overtaken' => OperationOf(q) # o
      BY <1>8, <2>2 DEF ReplaceMetric, Overtakes
    <3>2. OperationOf(q) # o => metric'[o] = metric[o]
      BY <1>1, <1>8, <1>t DEF ReplaceMetric, MetricsTypeOK
    <3> QED
      BY <1>2, <1>8, <1>t, <2>2, <3>1, <3>2 DEF ReplaceMetric, Rest, MetricsTypeOK
  <2> QED
    BY <2>1, <2>2
<1>9. ASSUME NEW q \in Run, Die(q) PROVE CarriedTruly(r)'
  <2>1. CASE q = r
    BY <1>9, <1>t, <2>1 DEF Die, Rest, MetricsTypeOK, CarriedTruly
  <2>2. CASE q # r
    BY <1>2, <1>9, <1>t, <2>2 DEF Die, Rest, MetricsTypeOK
  <2> QED
    BY <2>1, <2>2
<1>10. CASE UNCHANGED metricsVars
  BY <1>2, <1>10 DEF metricsVars, runVars
<1> QED
  BY <1>3, <1>4, <1>5, <1>6, <1>7, <1>8, <1>9, <1>10 DEF MetricsNext, Record

LEMMA MetricsInvInit == MetricsInit => MetricsInv
<1> SUFFICES ASSUME MetricsInit PROVE MetricsInv
  OBVIOUS
<1>1. Never \in Time /\ 1 \in Time
  BY MetricsAssumption DEF Never, Time
<1>2. MetricsTypeOK
  BY <1>1 DEF MetricsInit, MetricsTypeOK, Metric, NoMetric
<1>3. \A o \in Operation : ShownTruly(metric[o], clock, succeeded[o])
  <2> SUFFICES ASSUME NEW o \in Operation PROVE ShownTruly(metric[o], clock, succeeded[o])
    OBVIOUS
  <2>1. metric[o] = NoMetric /\ clock = 1
    BY DEF MetricsInit
  <2>2. NoMetric.last = 0 /\ NoMetric.run = 0 /\ NoMetric.success = FALSE
    BY DEF NoMetric, Never
  <2> QED
    BY <2>1, <2>2 DEF ShownTruly, Never
<1>4. \A r \in Run : CarriedTruly(r)
  BY DEF MetricsInit, CarriedTruly
<1> QED
  BY <1>2, <1>3, <1>4 DEF MetricsInv

LEMMA MetricsInvStep == MetricsInv /\ [MetricsNext]_metricsVars => MetricsInv'
<1> SUFFICES ASSUME MetricsInv, [MetricsNext]_metricsVars PROVE MetricsInv'
  OBVIOUS
<1>1. MetricsTypeOK'
  BY MetricsTypeStep
<1>2. (\A o \in Operation : ShownTruly(metric[o], clock, succeeded[o]))'
  BY ShownStep
<1>3. (\A r \in Run : CarriedTruly(r))'
  BY CarriedStep
<1> QED
  BY <1>1, <1>2, <1>3 DEF MetricsInv

----------------------------------------------------------------------------
(* The metric files, and what runs carry, keep their types with any number *)
(* of operations and overlapping runs.                                     *)
THEOREM MetricsTypeCorrect == MetricsSpec => []MetricsTypeOK
<1>1. MetricsInv => MetricsTypeOK
  BY DEF MetricsInv
<1> QED
  BY <1>1, MetricsInvInit, MetricsInvStep, PTL DEF MetricsSpec

(* However runs overlap, the last success a file shows is one of that      *)
(* operation, never later than the last run (record_operation).            *)
THEOREM MetricAlwaysTrue == MetricsSpec => []MetricIsTrue
<1>1. MetricsInv => MetricIsTrue
  BY DEF MetricsInv, ShownTruly, MetricIsTrue
<1> QED
  BY <1>1, MetricsInvInit, MetricsInvStep, PTL DEF MetricsSpec

(* A file loses its last success to no run but one that was overtaken      *)
(* since it read the file (record_operation).                              *)
THEOREM SuccessAlwaysSurvives == MetricsSpec => SuccessSurvives
<1> DEFINE Survives(o) ==
             metric'[o].last < metric[o].last =>
                 \E r \in overtaken : OperationOf(r) = o /\ phase[r] = "replace"
                                      /\ phase'[r] = "idle"
<1>1. MetricsInv /\ [MetricsNext]_metricsVars => [\A o \in Operation : Survives(o)]_metricsVars
  <2> SUFFICES ASSUME MetricsInv, MetricsNext, NEW o \in Operation,
                      metric'[o].last < metric[o].last
               PROVE  \E r \in overtaken : OperationOf(r) = o /\ phase[r] = "replace"
                                           /\ phase'[r] = "idle"
    OBVIOUS
  <2>1. metric \in [Operation -> Metric] /\ metric[o].last \in Nat
    BY MetricsAssumption DEF MetricsInv, MetricsTypeOK, Metric, Time
  <2>2. CASE metric' = metric
    BY <2>1, <2>2
  <2>3. ASSUME NEW r \in Run, ReplaceMetric(r)
        PROVE  \E q \in overtaken : OperationOf(q) = o /\ phase[q] = "replace"
                                    /\ phase'[q] = "idle"
    <3>1. phase[r] = "replace" /\ phase'[r] = "idle"
      BY <2>3 DEF ReplaceMetric, Rest, MetricsInv, MetricsTypeOK
    <3>2. OperationOf(r) = o
      BY <2>1, <2>3 DEF ReplaceMetric
    <3>3. metric'[o].last = LastSuccess(r)
      BY <2>1, <2>3, <3>2 DEF ReplaceMetric
    <3>4. previous[r] <= LastSuccess(r) /\ LastSuccess(r) \in Nat
      <4>1. previous[r] <= LastSuccess(r) /\ LastSuccess(r) \in Time
        BY <3>1, WritesTruly
      <4> QED
        BY <4>1, MetricsAssumption DEF Time
    <3>5. r \notin overtaken => previous[r] = metric[o].last
      BY <3>1, <3>2 DEF MetricsInv, CarriedTruly
    <3> QED
      BY <2>1, <3>1, <3>2, <3>3, <3>4, <3>5
  <2> QED
    BY <2>2, <2>3 DEF MetricsNext, Record, Tick, Begin, Execute, ReadMetric, Stamp, Die
<1> QED
  BY <1>1, MetricsInvInit, MetricsInvStep, PTL DEF MetricsSpec, SuccessSurvives

----------------------------------------------------------------------------
(* The command line implements both of its parts.                          *)

LEMMA CreatorsAreRuns ==
    /\ Creator = CreateRun /\ CreateRun \subseteq Run /\ RestoreRun \subseteq Run
    /\ "backup_create" \in Operation
    /\ \A r \in CreateRun : OperationOf(r) = "backup_create" /\ r \notin RestoreRun
BY OperationsAssumption DEF CreateRun, RestoreRun

LEMMA CommandStepsBackup ==
    OperationsTypeOK /\ [OperationsNext]_operationsVars => [BackupNext]_backupVars
<1> SUFFICES ASSUME OperationsTypeOK, [OperationsNext]_operationsVars
             PROVE  BackupNext \/ UNCHANGED backupVars
  OBVIOUS
<1>1. CASE Request
  BY <1>1 DEF Request, BackupNext
<1>2. ASSUME NEW c \in creating, Create(c[1], c[2])
      PROVE  BackupNext \/ UNCHANGED backupVars
  <2>0. c[1] \in Creator
    BY CreatorsAreRuns DEF OperationsTypeOK
  <2>1. CASE CreateReads(c[1])
    BY <2>0, <2>1 DEF CreateReads, BackupNext
  <2>2. CASE Leave(c[1], c[2])
    BY <2>0, <2>2 DEF Leave, BackupNext
  <2> QED
    BY <1>2, <2>1, <2>2
       DEF Create, OpenRestoreFile, FillRestoreFile, CreateReturns, CreateRaises, CreateDies
<1>3. ASSUME NEW r \in RestoreRun, NEW id \in BackupId,
             RestoreReturns(r, id) \/ RestoreRaises(r, id)
      PROVE  BackupNext \/ UNCHANGED backupVars
  <2>1. CASE Restore(named[id]) \/ RestoreUnverified(named[id]) \/ RestoreFails(named[id])
    <3>1. named[id] \in stored
      BY <2>1 DEF Restore, RestoreUnverified, RestoreFails
    <3> QED
      BY <2>1, <3>1 DEF BackupNext
  <2> QED
    BY <1>3, <2>1 DEF RestoreReturns, RestoreRaises
<1> QED
  BY <1>1, <1>2, <1>3 DEF OperationsNext, operationsVars, Passes, BeginCreate, BeginRestore,
     RecordOrDie

LEMMA CommandStepsMetrics ==
    OperationsTypeOK /\ [OperationsNext]_operationsVars => [MetricsNext]_metricsVars
<1> SUFFICES ASSUME OperationsTypeOK, OperationsNext PROVE MetricsNext \/ UNCHANGED metricsVars
  BY DEF operationsVars
<1>0. CreateRun \subseteq Run /\ RestoreRun \subseteq Run
  BY CreatorsAreRuns
<1>1. ASSUME NEW r \in CreateRun, NEW id \in BackupId, BeginCreate(r, id) PROVE MetricsNext
  BY <1>0, <1>1 DEF BeginCreate, MetricsNext
<1>2. ASSUME NEW c \in creating, Create(c[1], c[2])
      PROVE  MetricsNext \/ UNCHANGED metricsVars
  <2>1. c[1] \in Run
    BY <1>0 DEF OperationsTypeOK
  <2>2. CASE Execute(c[1], TRUE) \/ Execute(c[1], FALSE) \/ Die(c[1])
    BY <2>1, <2>2 DEF MetricsNext
  <2> QED
    BY <1>2, <2>2 DEF Create, CreateReads, OpenRestoreFile, FillRestoreFile, CreateReturns,
       CreateRaises, CreateDies
<1>3. ASSUME NEW r \in RestoreRun, BeginRestore(r) PROVE MetricsNext
  BY <1>0, <1>3 DEF BeginRestore, MetricsNext
<1>4. ASSUME NEW r \in RestoreRun, NEW id \in BackupId,
             RestoreReturns(r, id) \/ RestoreRaises(r, id)
      PROVE  MetricsNext
  <2>1. Execute(r, TRUE) \/ Execute(r, FALSE)
    BY <1>4 DEF RestoreReturns, RestoreRaises
  <2> QED
    BY <1>0, <2>1 DEF MetricsNext
<1>5. ASSUME NEW r \in Run, RecordOrDie(r) PROVE MetricsNext
  BY <1>5 DEF RecordOrDie, MetricsNext
<1>6. CASE Request \/ Passes
  BY <1>6 DEF Request, Passes, MetricsNext
<1> QED
  BY <1>1, <1>2, <1>3, <1>4, <1>5, <1>6 DEF OperationsNext

----------------------------------------------------------------------------
(* A success can be restored from.                                         *)

\* The file under this id has been whole, and only a create that takes the id again has
\* emptied or mixed it since.
Written(id) == restoreFile[id] = "whole" \/ id \in spoiled

Reachable == \E id \in BackupId : Written(id)

\* A create has reported success, or a success is shown or about to be shown again.
SuccessKnown ==
    \/ metric["backup_create"].last # Never
    \/ \E r \in CreateRun : previous[r] # Never \/ (phase[r] # "execute" /\ valid[r])

\* A run creates under one id, and writes its restore file once its backup is in the
\* store; a whole file names a backup that is there.
CreateFits ==
    /\ \A c, d \in creating : c[1] = d[1] => c = d
    /\ \A r \in CreateRun : writing[r] # "unopened" =>
          next[r] = Stored /\ \E id \in BackupId : <<r, id>> \in creating
    /\ \A c \in creating : writing[c[1]] = "filled" => Written(c[2])
    /\ \A id \in BackupId : restoreFile[id] = "whole" => named[id] \in stored

FilesTypeOK ==
    /\ restoreFile \in [BackupId -> {"absent", "empty", "mixed", "whole"}]
    /\ named \in [BackupId -> SUBSET Row]
    /\ creating \subseteq CreateRun \X BackupId
    /\ \A c \in creating : phase[c[1]] = "execute"
    /\ writing \in [CreateRun -> {"unopened", "open", "filled"}]
    /\ spoiled \subseteq BackupId

OperationsInv ==
    /\ BackupInv
    /\ MetricsInv
    /\ FilesTypeOK
    /\ CreateFits
    /\ SuccessKnown => Reachable

LEMMA OperationsInvType == OperationsInv => OperationsTypeOK
  BY DEF OperationsInv, FilesTypeOK, OperationsTypeOK, BackupInv, MetricsInv

LEMMA OperationsInvInit == OperationsInit => OperationsInv
<1> SUFFICES ASSUME OperationsInit PROVE OperationsInv
  OBVIOUS
<1>1. BackupInv /\ MetricsInv
  BY BackupInvInit, MetricsInvInit DEF OperationsInit
<1>2. FilesTypeOK /\ CreateFits
  BY DEF OperationsInit, FilesTypeOK, CreateFits
<1>3. ~SuccessKnown
  <2>1. "backup_create" \in Operation /\ metric["backup_create"] = NoMetric
    BY OperationsAssumption DEF OperationsInit, MetricsInit
  <2>2. NoMetric.last = Never
    BY DEF NoMetric
  <2>3. \A r \in CreateRun : previous[r] = Never /\ ~valid[r]
    BY DEF OperationsInit, MetricsInit, CreateRun
  <2> QED
    BY <2>1, <2>2, <2>3 DEF SuccessKnown
<1> QED
  BY <1>1, <1>2, <1>3 DEF OperationsInv

\* The phases of the runs that create, while others begin, end and record.
LEMMA CreatorStays ==
    ASSUME OperationsInv, NEW c \in creating, NEW r \in Run,
           \/ Begin(r)
           \/ r # c[1] /\ ((\E ok \in BOOLEAN : Execute(r, ok)) \/ Die(r))
           \/ RecordOrDie(r)
    PROVE  phase'[c[1]] = "execute"
<1>1. /\ c[1] \in Run /\ phase[c[1]] = "execute"
      /\ phase \in [Run -> {"idle", "execute", "record", "stamp", "replace"}]
  BY CreatorsAreRuns DEF OperationsInv, FilesTypeOK, MetricsInv, MetricsTypeOK
<1>2. CASE Begin(r)
  BY <1>1, <1>2 DEF Begin
<1>3. ASSUME r # c[1], NEW ok \in BOOLEAN, Execute(r, ok) PROVE phase'[c[1]] = "execute"
  BY <1>1, <1>3 DEF Execute
<1>4. CASE r # c[1] /\ Die(r)
  BY <1>1, <1>4 DEF Die, Rest
<1>5. CASE RecordOrDie(r)
  <2>1. r # c[1]
    BY <1>1, <1>5 DEF RecordOrDie, Record, ReadMetric, Stamp, ReplaceMetric
  <2> QED
    BY <1>1, <1>5, <2>1
       DEF RecordOrDie, Record, ReadMetric, Stamp, ReplaceMetric, Die, Rest
<1> QED
  BY <1>2, <1>3, <1>4, <1>5

\* create's own steps.  A file that has been written stays so: opening a whole one, or
\* mixing it, is what spoiled keeps.
LEMMA CreateStep ==
    ASSUME OperationsInv, NEW c \in creating, Create(c[1], c[2])
    PROVE  FilesTypeOK' /\ CreateFits' /\ \A id \in BackupId : Written(id) => Written(id)'
<1> DEFINE r == c[1]
           id == c[2]
<1>0. /\ r \in CreateRun /\ r \in Run /\ id \in BackupId /\ c = <<r, id>>
      /\ \A d \in creating : d[1] \in CreateRun /\ d[2] \in BackupId /\ d = <<d[1], d[2]>>
      /\ \A d \in creating : d[1] = r => d = c
      /\ FilesTypeOK /\ CreateFits
      /\ next \in [CreateRun -> 1 .. Stored] /\ dump \in [CreateRun -> SUBSET Row]
      /\ next[r] = Stored => dump[r] \in stored
  <2>1. /\ FilesTypeOK /\ CreateFits /\ r \in CreateRun /\ id \in BackupId /\ c = <<r, id>>
        /\ \A d \in creating : d[1] \in CreateRun /\ d[2] \in BackupId /\ d = <<d[1], d[2]>>
    BY DEF OperationsInv, FilesTypeOK
  <2>2. \A d \in creating : d[1] = r => d = c
    BY <2>1 DEF CreateFits
  <2>3. /\ next \in [CreateRun -> 1 .. Stored] /\ dump \in [CreateRun -> SUBSET Row]
        /\ next[r] = Stored => dump[r] \in stored
    BY <2>1, CreatorsAreRuns DEF OperationsInv, BackupInv, BackupTypeOK, DumpStored
  <2> QED
    BY <2>1, <2>2, <2>3, CreatorsAreRuns
<1>1. CASE CreateReads(r)
  <2>1. /\ UNCHANGED <<restoreFile, named, spoiled, creating, writing, phase>>
        /\ stored \subseteq stored'
        /\ \A q \in CreateRun : next[q] = Stored => next'[q] = Stored
    BY <1>0, <1>1
       DEF CreateReads, ReadTable, Put, metricsVars, runVars, commandVars, fileVars, Last, Stored
  <2>2. FilesTypeOK'
    BY <1>0, <2>1 DEF FilesTypeOK
  <2>3. CreateFits'
    BY <1>0, <2>1 DEF CreateFits, Written
  <2> QED
    BY <2>1, <2>2, <2>3 DEF Written
<1>2. CASE OpenRestoreFile(r, id)
  <2>1. /\ UNCHANGED <<next, stored, phase, named, creating>> /\ next[r] = Stored
        /\ restoreFile' = [restoreFile EXCEPT ![id] = "empty"]
        /\ spoiled' = IF restoreFile[id] = "whole" THEN spoiled \cup {id} ELSE spoiled
        /\ writing' = [writing EXCEPT ![r] = "open"]
    BY <1>2 DEF OpenRestoreFile, metricsVars, runVars, backupVars
  <2>2. FilesTypeOK'
    BY <1>0, <2>1 DEF FilesTypeOK
  <2>3. \A i \in BackupId : Written(i) => Written(i)'
    BY <1>0, <2>1 DEF FilesTypeOK, Written
  <2>4. \A q \in CreateRun : /\ q # r => writing'[q] = writing[q]
                             /\ q = r => writing'[q] = "open"
    BY <1>0, <2>1 DEF FilesTypeOK
  <2>5. \A i \in BackupId : restoreFile'[i] = "whole" => restoreFile[i] = "whole"
    BY <1>0, <2>1 DEF FilesTypeOK
  <2>6. CreateFits'
    <3>1. \A q \in CreateRun : writing'[q] # "unopened" =>
             next'[q] = Stored /\ \E i \in BackupId : <<q, i>> \in creating'
      BY <1>0, <2>1, <2>4 DEF CreateFits
    <3>2. \A d \in creating' : writing'[d[1]] = "filled" => Written(d[2])'
      BY <1>0, <2>1, <2>3, <2>4 DEF CreateFits
    <3>3. \A i \in BackupId : restoreFile'[i] = "whole" => named'[i] \in stored'
      BY <1>0, <2>1, <2>5 DEF CreateFits
    <3> QED
      BY <1>0, <2>1, <3>1, <3>2, <3>3 DEF CreateFits
  <2> QED
    BY <2>2, <2>3, <2>6
<1>3. CASE FillRestoreFile(r, id)
  <2>1. /\ UNCHANGED <<next, stored, phase, creating>> /\ writing[r] = "open"
        /\ named' = [named EXCEPT ![id] = dump[r]]
        /\ writing' = [writing EXCEPT ![r] = "filled"]
        /\ \/ /\ restoreFile' = [restoreFile EXCEPT ![id] = "whole"]
              /\ spoiled' = spoiled \ {id}
           \/ /\ restoreFile' = [restoreFile EXCEPT ![id] = "mixed"]
              /\ spoiled' = spoiled \cup {id}
    BY <1>3 DEF FillRestoreFile, metricsVars, runVars, backupVars
  <2>2. FilesTypeOK'
    <3>1. restoreFile' \in [BackupId -> {"absent", "empty", "mixed", "whole"}]
      BY <1>0, <2>1 DEF FilesTypeOK
    <3>2. named' \in [BackupId -> SUBSET Row]
          /\ writing' \in [CreateRun -> {"unopened", "open", "filled"}]
      BY <1>0, <2>1 DEF FilesTypeOK
    <3>3. spoiled' \subseteq BackupId
      BY <1>0, <2>1 DEF FilesTypeOK
    <3> QED
      BY <1>0, <2>1, <3>1, <3>2, <3>3 DEF FilesTypeOK
  <2>3. Written(id)' /\ \A i \in BackupId : Written(i) => Written(i)'
    BY <1>0, <2>1 DEF FilesTypeOK, Written
  <2>4. \A q \in CreateRun : q # r => writing'[q] = writing[q]
    BY <1>0, <2>1 DEF FilesTypeOK
  <2>5. named'[id] \in stored
        /\ \A i \in BackupId \ {id} : restoreFile'[i] = restoreFile[i] /\ named'[i] = named[i]
    BY <1>0, <2>1 DEF FilesTypeOK, CreateFits
  <2>6. CreateFits'
    <3>1. \A q \in CreateRun : writing'[q] # "unopened" =>
             next'[q] = Stored /\ \E i \in BackupId : <<q, i>> \in creating'
      BY <1>0, <2>1, <2>4 DEF CreateFits
    <3>2. \A d \in creating' : writing'[d[1]] = "filled" => Written(d[2])'
      BY <1>0, <2>1, <2>3, <2>4 DEF CreateFits
    <3>3. \A i \in BackupId : restoreFile'[i] = "whole" => named'[i] \in stored'
      BY <1>0, <2>1, <2>5 DEF CreateFits
    <3> QED
      BY <1>0, <2>1, <3>1, <3>2, <3>3 DEF CreateFits
  <2> QED
    BY <2>2, <2>3, <2>6
<1>4. CASE CreateReturns(r, id) \/ CreateRaises(r, id) \/ CreateDies(r, id)
  <2>1. /\ UNCHANGED <<restoreFile, named, spoiled, stored>>
        /\ creating' = creating \ {c}
        /\ writing' = [writing EXCEPT ![r] = "unopened"]
        /\ \A q \in CreateRun \ {r} : next'[q] = next[q]
        /\ (\E ok \in BOOLEAN : Execute(r, ok)) \/ Die(r)
    BY <1>0, <1>4 DEF CreateReturns, CreateRaises, CreateDies, Leave, EndCreate, fileVars
  <2>2. \A d \in creating' : d[1] # r /\ phase'[d[1]] = "execute"
    BY <1>0, <2>1, CreatorStays
  <2>3. \A q \in CreateRun : IF q = r THEN writing'[q] = "unopened"
                                      ELSE writing'[q] = writing[q]
    BY <1>0, <2>1 DEF FilesTypeOK
  <2>4. FilesTypeOK'
    BY <1>0, <2>1, <2>2 DEF FilesTypeOK
  <2>5. \A q \in CreateRun : writing'[q] # "unopened" =>
           next'[q] = Stored /\ \E i \in BackupId : <<q, i>> \in creating'
    BY <1>0, <2>1, <2>3 DEF CreateFits
  <2>6. CreateFits'
    BY <1>0, <2>1, <2>3, <2>5 DEF CreateFits, Written
  <2> QED
    BY <2>1, <2>4, <2>6 DEF Written
<1> QED
  BY <1>1, <1>2, <1>3, <1>4 DEF Create

LEMMA FilesStep ==
    OperationsInv /\ [OperationsNext]_operationsVars
        => FilesTypeOK' /\ CreateFits' /\ \A id \in BackupId : Written(id) => Written(id)'
<1> DEFINE Goal == FilesTypeOK' /\ CreateFits'
                   /\ \A id \in BackupId : Written(id) => Written(id)'
<1> SUFFICES ASSUME OperationsInv, [OperationsNext]_operationsVars PROVE Goal
  OBVIOUS
<1>0. FilesTypeOK /\ CreateFits /\ CreateRun \subseteq Run /\ RestoreRun \subseteq Run
  BY CreatorsAreRuns DEF OperationsInv
\* A step of others.
<1>1. ASSUME UNCHANGED <<commandVars, stored, next>>,
             \A c \in creating : phase'[c[1]] = "execute"
      PROVE  Goal
  BY <1>0, <1>1 DEF FilesTypeOK, CreateFits, Written, commandVars, fileVars
<1>2. ASSUME NEW r \in CreateRun, NEW id \in BackupId, BeginCreate(r, id) PROVE Goal
  <2>1. /\ creating' = creating \cup {<<r, id>>}
        /\ UNCHANGED <<restoreFile, named, spoiled, stored, next, writing>>
        /\ phase[r] = "idle" /\ phase'[r] = "execute"
        /\ \A c \in creating : phase'[c[1]] = "execute"
    BY <1>0, <1>2, CreatorStays DEF BeginCreate, Begin, fileVars, backupVars, OperationsInv,
       MetricsInv, MetricsTypeOK
  <2>2. \A c \in creating : c[1] # r
    BY <1>0, <2>1 DEF FilesTypeOK
  <2>3. FilesTypeOK'
    BY <1>0, <2>1 DEF FilesTypeOK
  <2>4. writing[r] = "unopened"
    <3>1. \A i \in BackupId : <<r, i>> \notin creating
      BY <2>2
    <3> QED
      BY <1>0, <1>2, <3>1 DEF CreateFits
  <2>5. CreateFits'
    <3>1. \A c, d \in creating' : c[1] = d[1] => c = d
      BY <1>0, <2>1, <2>2 DEF CreateFits
    <3>2. \A c \in creating' : writing'[c[1]] = "filled" => Written(c[2])'
      BY <1>0, <2>1, <2>4 DEF CreateFits, Written
    <3> QED
      BY <1>0, <2>1, <3>1, <3>2 DEF CreateFits
  <2> QED
    BY <2>1, <2>3, <2>5 DEF Written
<1>3. ASSUME NEW c \in creating, Create(c[1], c[2]) PROVE Goal
  BY <1>3, CreateStep
<1>4. CASE Request \/ Passes \/ UNCHANGED operationsVars
  <2>1. UNCHANGED <<commandVars, stored, next, phase>>
    BY <1>4 DEF Request, Transact, Passes, Tick, metricsVars, runVars, backupVars,
       operationsVars
  <2> QED
    BY <1>0, <1>1, <2>1 DEF FilesTypeOK
<1>5. ASSUME NEW r \in RestoreRun, BeginRestore(r) PROVE Goal
  <2>1. \A c \in creating : phase'[c[1]] = "execute"
    BY <1>0, <1>5, CreatorStays DEF BeginRestore
  <2> QED
    BY <1>1, <1>5, <2>1 DEF BeginRestore, backupVars
<1>6. ASSUME NEW r \in RestoreRun, NEW id \in BackupId,
             RestoreReturns(r, id) \/ RestoreRaises(r, id)
      PROVE  Goal
  <2>1. /\ UNCHANGED <<commandVars, stored, next>>
        /\ \E ok \in BOOLEAN : Execute(r, ok)
    BY <1>6 DEF RestoreReturns, RestoreRaises, Restore, RestoreUnverified, RestoreFails,
       backupVars
  <2>2. \A c \in creating : c[1] # r
    BY CreatorsAreRuns, <1>0 DEF FilesTypeOK
  <2>3. \A c \in creating : phase'[c[1]] = "execute"
    BY <1>0, <2>1, <2>2, CreatorStays
  <2> QED
    BY <1>1, <2>1, <2>3
<1>7. ASSUME NEW r \in Run, RecordOrDie(r) PROVE Goal
  <2>1. \A c \in creating : phase'[c[1]] = "execute"
    BY <1>7, CreatorStays
  <2> QED
    BY <1>1, <1>7, <2>1 DEF RecordOrDie, backupVars
<1> QED
  BY <1>2, <1>3, <1>4, <1>5, <1>6, <1>7 DEF OperationsNext

\* What is known of a success comes from a create that returned, and its restore file
\* has been written by then.
LEMMA SuccessStep ==
    OperationsInv /\ [OperationsNext]_operationsVars => (SuccessKnown => Reachable)'
<1> SUFFICES ASSUME OperationsInv, [OperationsNext]_operationsVars, SuccessKnown'
             PROVE  Reachable'
  OBVIOUS
<1>0. /\ MetricsTypeOK /\ FilesTypeOK /\ "backup_create" \in Operation
      /\ CreateRun \subseteq Run /\ RestoreRun \subseteq Run
      /\ \A r \in CreateRun : OperationOf(r) = "backup_create" /\ r \notin RestoreRun
  BY CreatorsAreRuns DEF OperationsInv, MetricsInv
<1>1. SuccessKnown => Reachable'
  BY FilesStep DEF OperationsInv, Reachable
\* Steps that touch neither what a create has reported nor the metric.
<1>2. ASSUME UNCHANGED <<metric, previous, valid>>,
             \A r \in CreateRun : phase'[r] # "execute" /\ valid[r] => phase[r] # "execute"
      PROVE  Reachable'
  BY <1>1, <1>2 DEF SuccessKnown
<1>3. ASSUME NEW c \in creating, CreateReturns(c[1], c[2]) PROVE Reachable'
  <2>1. c[2] \in BackupId /\ Written(c[2])
    BY <1>3 DEF CreateReturns, OperationsInv, CreateFits, FilesTypeOK
  <2> QED
    BY <2>1, FilesStep DEF Reachable
<1>4. ASSUME NEW r \in CreateRun, Execute(r, FALSE) PROVE Reachable'
  <2>1. /\ UNCHANGED <<metric, previous>> /\ valid'[r] = FALSE
        /\ \A q \in Run \ {r} : valid'[q] = valid[q] /\ phase'[q] = phase[q]
    BY <1>0, <1>4 DEF Execute, MetricsTypeOK
  <2> QED
    BY <1>0, <1>1, <2>1 DEF SuccessKnown
<1>5. ASSUME NEW r \in RestoreRun, NEW ok \in BOOLEAN, Execute(r, ok) PROVE Reachable'
  <2>1. /\ UNCHANGED <<metric, previous>>
        /\ \A q \in CreateRun : valid'[q] = valid[q] /\ phase'[q] = phase[q]
    BY <1>0, <1>5 DEF Execute, MetricsTypeOK
  <2> QED
    BY <1>0, <1>1, <2>1 DEF SuccessKnown
<1>6. ASSUME NEW r \in Run, Begin(r) PROVE Reachable'
  <2>1. UNCHANGED <<metric, previous, valid>>
        /\ \A q \in Run : phase'[q] # "execute" => phase[q] # "execute"
    BY <1>0, <1>6 DEF Begin, MetricsTypeOK
  <2> QED
    BY <1>0, <1>2, <2>1
<1>7. ASSUME NEW r \in Run, Die(r) PROVE Reachable'
  <2>1. /\ metric' = metric /\ valid'[r] = FALSE /\ previous'[r] = Never
        /\ \A q \in Run \ {r} : /\ valid'[q] = valid[q] /\ phase'[q] = phase[q]
                                /\ previous'[q] = previous[q]
    BY <1>0, <1>7 DEF Die, Rest, MetricsTypeOK
  <2> QED
    BY <1>0, <1>1, <2>1 DEF SuccessKnown
<1>8. ASSUME NEW r \in Run, ReadMetric(r) PROVE Reachable'
  <2>1. /\ UNCHANGED <<metric, valid>> /\ previous'[r] = metric[OperationOf(r)].last
        /\ phase[r] = "record"
        /\ \A q \in Run \ {r} : phase'[q] = phase[q] /\ previous'[q] = previous[q]
    BY <1>0, <1>8 DEF ReadMetric, MetricsTypeOK
  <2> QED
    BY <1>0, <1>1, <2>1 DEF SuccessKnown
<1>9. ASSUME NEW r \in Run, Stamp(r) PROVE Reachable'
  <2>1. UNCHANGED <<metric, previous, valid>> /\ phase[r] = "stamp"
        /\ \A q \in Run \ {r} : phase'[q] = phase[q]
    BY <1>0, <1>9 DEF Stamp, MetricsTypeOK
  <2> QED
    BY <1>0, <1>2, <2>1
<1>10. ASSUME NEW r \in Run, ReplaceMetric(r) PROVE Reachable'
  <2>1. /\ phase[r] = "replace" /\ valid'[r] = FALSE /\ previous'[r] = Never
        /\ \A q \in Run \ {r} : /\ valid'[q] = valid[q] /\ phase'[q] = phase[q]
                                /\ previous'[q] = previous[q]
    BY <1>0, <1>10 DEF ReplaceMetric, Rest, MetricsTypeOK
  <2>2. CASE OperationOf(r) = "backup_create"
    <3>1. metric'["backup_create"].last = LastSuccess(r) /\ r \in CreateRun
      BY <1>0, <1>10, <2>2 DEF ReplaceMetric, MetricsTypeOK, CreateRun
    <3>2. CASE valid[r]
      BY <1>1, <2>1, <3>1, <3>2 DEF SuccessKnown
    <3>3. CASE ~valid[r]
      <4>1. metric'["backup_create"].last = previous[r]
        BY <3>1, <3>3 DEF LastSuccess
      <4>2. previous[r] # Never => SuccessKnown
        BY <3>1 DEF SuccessKnown
      <4>3. (\E q \in CreateRun : previous'[q] # Never \/ (phase'[q] # "execute" /\ valid'[q]))
                => SuccessKnown
        BY <1>0, <2>1 DEF SuccessKnown
      <4> QED
        BY <1>1, <4>1, <4>2, <4>3 DEF SuccessKnown
    <3> QED
      BY <3>2, <3>3
  <2>3. CASE OperationOf(r) # "backup_create"
    <3>1. metric'["backup_create"] = metric["backup_create"]
      BY <1>0, <1>10, <2>3 DEF ReplaceMetric, MetricsTypeOK
    <3> QED
      BY <1>0, <1>1, <2>1, <3>1 DEF SuccessKnown
  <2> QED
    BY <2>2, <2>3
<1>11. CASE UNCHANGED <<metric, runVars>>
  BY <1>2, <1>11 DEF runVars
<1>12. ASSUME NEW c \in creating, Create(c[1], c[2]) PROVE Reachable'
  <2>1. c[1] \in CreateRun
    BY <1>0 DEF FilesTypeOK
  <2> QED
    BY <1>0, <1>3, <1>4, <1>7, <1>11, <1>12, <2>1 DEF Create, CreateReads, OpenRestoreFile,
       FillRestoreFile, CreateRaises, CreateDies, metricsVars
<1>13. ASSUME NEW r \in RestoreRun, NEW id \in BackupId,
              RestoreReturns(r, id) \/ RestoreRaises(r, id)
       PROVE  Reachable'
  BY <1>5, <1>13 DEF RestoreReturns, RestoreRaises
<1>14. ASSUME NEW r \in Run, RecordOrDie(r) PROVE Reachable'
  BY <1>7, <1>8, <1>9, <1>10, <1>14 DEF RecordOrDie, Record
<1>15. ASSUME NEW r \in RestoreRun, BeginRestore(r) PROVE Reachable'
  BY <1>0, <1>6, <1>15 DEF BeginRestore
<1>16. ASSUME NEW r \in CreateRun, NEW id \in BackupId, BeginCreate(r, id) PROVE Reachable'
  BY <1>0, <1>6, <1>16 DEF BeginCreate
<1>17. CASE Request \/ Passes \/ UNCHANGED operationsVars
  BY <1>11, <1>17 DEF Request, Passes, Tick, operationsVars, metricsVars
<1> QED
  BY <1>12, <1>13, <1>14, <1>15, <1>16, <1>17 DEF OperationsNext

LEMMA OperationsInvStep == OperationsInv /\ [OperationsNext]_operationsVars => OperationsInv'
<1> SUFFICES ASSUME OperationsInv, [OperationsNext]_operationsVars PROVE OperationsInv'
  OBVIOUS
<1>1. BackupInv'
  BY CommandStepsBackup, BackupInvStep, OperationsInvType DEF OperationsInv
<1>2. MetricsInv'
  BY CommandStepsMetrics, MetricsInvStep, OperationsInvType DEF OperationsInv
<1>3. FilesTypeOK' /\ CreateFits'
  BY FilesStep
<1>4. (SuccessKnown => Reachable)'
  BY SuccessStep
<1> QED
  BY <1>1, <1>2, <1>3, <1>4 DEF OperationsInv

\* Create, restore, the metric files and the restore file keep their types together, however
\* runs overlap, fail or die (main, _execute).
THEOREM OperationsTypeCorrect == OperationsSpec => []OperationsTypeOK
  BY OperationsInvType, OperationsInvInit, OperationsInvStep, PTL DEF OperationsSpec

\* A success of backup-create that the operator has seen, or that the metric shows, is
\* one he can restore from, whatever has crashed or failed since, unless a create that took
\* its id again has emptied or mixed the restore file in between (main, _execute).
THEOREM SuccessAlwaysReachable == OperationsSpec => []SuccessMeansReachable
<1>1. OperationsInv => SuccessMeansReachable
  BY DEF OperationsInv, CreateFits, SuccessMeansReachable, SuccessKnown, Reachable, Written
<1> QED
  BY <1>1, OperationsInvInit, OperationsInvStep, PTL DEF OperationsSpec

\* Every behaviour of the command line is one of create and restore, and one of
\* record_operation: a run that gives up or dies leaves no state of its own in either.
THEOREM CommandLineImplementsParts == OperationsSpec => BackupSpec /\ MetricsSpec
<1>1. OperationsInit => BackupInit /\ MetricsInit
  BY DEF OperationsInit
<1>2. OperationsInv /\ [OperationsNext]_operationsVars
          => [BackupNext]_backupVars /\ [MetricsNext]_metricsVars
  BY CommandStepsBackup, CommandStepsMetrics, OperationsInvType
<1> QED
  BY <1>1, <1>2, OperationsInvInit, OperationsInvStep, PTL
     DEF OperationsSpec, BackupSpec, MetricsSpec

\* So what is proved of the parts holds of the command line.
THEOREM OperationsKeepTheirParts ==
    OperationsSpec => []AuditedRowsArePresent /\ []MetricIsTrue /\ SuccessSurvives
  BY CommandLineImplementsParts, AuditedRowsAlwaysPresent, MetricAlwaysTrue,
     SuccessAlwaysSurvives, PTL

==============================================================================
