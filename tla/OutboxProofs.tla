---------------------------- MODULE OutboxProofs ----------------------------
(***************************************************************************)
(* Theorems about the outbox for any number of rows, workers, operators,   *)
(* attempts and crashes, and at the end about the outbox with its          *)
(* consumers behind it.                                                    *)
(***************************************************************************)
EXTENDS EndToEnd, TLAPS

\* The rows a worker's running batch covers; on PostgreSQL it holds them all.
Claimed(w) == todo[w] \cup Written(w)

\* The SELECT returns no exhausted row, so one more attempt fits the column.
ClaimsFit ==
    \A w \in Worker : \A e \in Claimed(w) : seen[w][e] < MaxAttempts

\* No transaction is open between batches.
IdleClaimsNothing ==
    \A w \in Worker : pc[w] \in {"idle", "stopped"} => Claimed(w) = {}

TypeInv == TypeOK /\ ClaimsFit /\ IdleClaimsNothing

----------------------------------------------------------------------------
LEMMA BatchDue == \A w \in Worker : Batch(w) \subseteq Due
  BY DEF Batch, Selectable, Due

LEMMA VanishType ==
    ASSUME TypeInv, NEW w \in Worker, Vanish(w)
    PROVE  /\ ClaimsFit' /\ IdleClaimsNothing'
           /\ pc' \in [Worker -> {"idle", "publish", "record", "stopped"}]
           /\ todo' \in [Worker -> SUBSET Event]
           /\ result' \in [Worker -> {"none", "ok", "failed"}]
           /\ staged' \in [Worker -> [Event -> {"none", "ok", "failed"}]]
           /\ buffer' \in [Worker -> SUBSET Event]
           /\ UNCHANGED <<rowVars, seen, broker, replaying>>
  BY DEF TypeInv, TypeOK, ClaimsFit, IdleClaimsNothing, Claimed, Written, Vanish, Untouched

LEMMA TypeInvInit == Init => TypeInv
  BY OutboxAssumption
     DEF Init, TypeInv, TypeOK, ClaimsFit, IdleClaimsNothing, Claimed, Written, Untouched, NoEvent

LEMMA TypeInvStep == TypeInv /\ [Next]_vars => TypeInv'
<1> SUFFICES ASSUME TypeInv, [Next]_vars PROVE TypeInv'
  OBVIOUS
<1> USE DEF TypeInv, TypeOK, IdleClaimsNothing
<1>1. ASSUME NEW e \in Event, AppendOutboxEvent(e) PROVE TypeInv'
  BY <1>1 DEF AppendOutboxEvent, workerVars, ClaimsFit, Claimed, Written
<1>2. ASSUME NEW w \in Worker, Select(w) PROVE TypeInv'
  <2>1. TypeOK'
    BY <1>2, BatchDue DEF Select, Due, rowVars
  <2>2. ClaimsFit'
    <3>1. \A v \in Worker \ {w} : Claimed(v)' = Claimed(v) /\ seen'[v] = seen[v]
      BY <1>2 DEF Select, Claimed, Written
    <3>2. Claimed(w)' \subseteq Due /\ seen'[w] = attempts
      BY <1>2, BatchDue DEF Select, Claimed, Written
    <3> QED
      BY <3>1, <3>2 DEF ClaimsFit, Due
  <2>3. IdleClaimsNothing'
    BY <1>2 DEF Select, Claimed, Written
  <2> QED
    BY <2>1, <2>2, <2>3
<1>3. ASSUME NEW w \in Worker, Publish(w) PROVE TypeInv'
  <2>1. ASSUME NEW r \in {"ok", "failed"}, Returns(w, r),
               buffer' \in [Worker -> SUBSET Event], broker' \subseteq Event
        PROVE  TypeInv'
    BY <2>1 DEF Returns, rowVars, ClaimsFit, Claimed, Written
  <2>2. CASE PublishDelivers(w)
    BY <2>1, <2>2 DEF PublishDelivers
  <2>3. CASE PublishFails(w)
    BY <2>1, <2>3 DEF PublishFails
  <2>4. CASE PublishTimesOut(w)
    BY <2>1, <2>4 DEF PublishTimesOut
  <2> QED
    BY <1>3, <2>2, <2>3, <2>4 DEF Publish
<1>4. ASSUME NEW w \in Worker, Record(w) PROVE TypeInv'
  <2>1. PICK e \in Event :
          /\ IsNext(w, e)
          /\ staged' = [staged EXCEPT ![w][e] = result[w]]
          /\ todo' = [todo EXCEPT ![w] = @ \ {e}]
    BY <1>4 DEF Record, StagedAfter
  <2>2. TypeOK'
    BY <1>4, <2>1 DEF Record, rowVars
  <2>3. seen' = seen /\ \A v \in Worker : Claimed(v)' \subseteq Claimed(v)
    BY <1>4, <2>1 DEF Record, Claimed, Written, IsNext
  <2>4. IdleClaimsNothing'
    BY <1>4, <2>3 DEF Record
  <2> QED
    BY <2>2, <2>3, <2>4 DEF ClaimsFit
<1>5. ASSUME NEW w \in Worker, RecordRaises(w) PROVE TypeInv'
  <2>1. Vanish(w) /\ UNCHANGED <<crashes, replays>>
    BY <1>5 DEF RecordRaises
  <2> QED
    BY <2>1, VanishType DEF rowVars
<1>6. ASSUME NEW w \in Worker, Commit(w) PROVE TypeInv'
  <2>1. attempts' \in [Event -> 0 .. MaxAttempts]
    <3>1. \A e \in Written(w) : seen[w][e] + 1 \in 0 .. MaxAttempts
      BY OutboxAssumption DEF ClaimsFit, Claimed, Written
    <3> QED
      BY <1>6, <3>1 DEF Commit
  <2>2. published' \subseteq Event /\ dead' \subseteq Event
        /\ dlq' \in [Event -> {"none", "open", "replayed"}]
    BY <1>6 DEF Commit, Succeeded, Parked, Retried, Written
  <2>3. TypeOK'
    BY <1>6, <2>1, <2>2 DEF Commit, Untouched
  <2>4. seen' = seen /\ Claimed(w)' = {}
        /\ \A v \in Worker \ {w} : Claimed(v)' = Claimed(v) /\ pc'[v] = pc[v]
    BY <1>6 DEF Commit, Untouched, Claimed, Written
  <2>5. ClaimsFit'
    BY <2>4 DEF ClaimsFit
  <2>6. IdleClaimsNothing'
    BY <2>4
  <2> QED
    BY <2>3, <2>5, <2>6
<1>7. ASSUME NEW w \in Worker, Crash(w) PROVE TypeInv'
  <2>1. Vanish(w) /\ UNCHANGED replays /\ crashes' \in 0 .. MaxCrashes
    BY <1>7, OutboxAssumption DEF Crash
  <2> QED
    BY <2>1, VanishType DEF rowVars
<1>8. ASSUME NEW w \in Worker, Restart(w) PROVE TypeInv'
  <2>1. seen' = seen /\ Claimed(w) = {}
        /\ \A v \in Worker : Claimed(v)' = Claimed(v) /\ (v # w => pc'[v] = pc[v])
    BY <1>8 DEF Restart, Claimed, Written
  <2> QED
    BY <1>8, <2>1 DEF Restart, rowVars, ClaimsFit
<1>9. ASSUME NEW w \in Worker, NEW e \in Event, BufferDelivers(w, e) \/ BufferDrops(w, e)
      PROVE TypeInv'
  <2>1. /\ UNCHANGED <<rowVars, workerVars, replaying, crashes, replays>>
        /\ buffer' \in [Worker -> SUBSET Event] /\ broker' \subseteq Event
    BY <1>9 DEF BufferDelivers, BufferDrops
  <2>2. TypeOK'
    BY <2>1 DEF rowVars, workerVars
  <2>3. ClaimsFit' /\ IdleClaimsNothing'
    BY <2>1 DEF workerVars, ClaimsFit, Claimed, Written
  <2> QED
    BY <2>2, <2>3
<1>10. ASSUME NEW o \in Operator, NEW e \in Event, ReplayRead(o, e) PROVE TypeInv'
  BY <1>10, OutboxAssumption
     DEF ReplayRead, rowVars, workerVars, ClaimsFit, Claimed, Written
<1>11. ASSUME NEW o \in Operator, ReplayWrite(o) PROVE TypeInv'
  BY <1>11, OutboxAssumption
     DEF ReplayWrite, workerVars, ClaimsFit, Claimed, Written, NoEvent
<1>12. CASE UNCHANGED vars
  BY <1>12 DEF vars, rowVars, workerVars, ClaimsFit, Claimed, Written
<1> QED
  BY <1>1, <1>2, <1>3, <1>4, <1>5, <1>6, <1>7, <1>8, <1>9, <1>10, <1>11, <1>12
     DEF Next, WorkerStep, Poll

(* The tables and the workers keep their types on either database; the     *)
(* attempts column never passes max_attempts (publish_batch).              *)
THEOREM TypeCorrect == Spec => []TypeOK
<1>1. TypeInv => TypeOK
  BY DEF TypeInv
<1> QED
  BY TypeInvInit, TypeInvStep, <1>1, PTL DEF Spec
----------------------------------------------------------------------------
(* PostgreSQL.  FOR UPDATE SKIP LOCKED gives each due row to one batch, and *)
(* the row stands still until that batch commits; everything else follows. *)

RowsExclusive ==
    \A v, w \in Worker : v # w => Claimed(v) \cap Claimed(w) = {}

ClaimsCurrent ==
    \A w \in Worker : \A e \in Claimed(w) : e \in Due /\ seen[w][e] = attempts[e]

\* A row leaves the SELECT's reach only by being published or parked.
AttemptsLeft == \A e \in Event \ (published \cup dead) : attempts[e] < MaxAttempts

ClaimInv == RowsExclusive /\ ClaimsCurrent

RowInv == DeadLettersAgree /\ AttemptsLeft

PgInv == TypeInv /\ ClaimInv /\ RowInv

LEMMA PgHolds ==
    ASSUME Postgres, NEW w \in Worker
    PROVE  /\ Holds(w) = Claimed(w)
           /\ Selectable(w) = Due \ HeldByOther(w)
  BY DEF Holds, Claimed, Selectable

\* Steps that leave the tables alone and claim nothing new.
LEMMA ClaimsShrink ==
    ASSUME PgInv, UNCHANGED rowVars, UNCHANGED seen,
           \A w \in Worker : Claimed(w)' \subseteq Claimed(w)
    PROVE  ClaimInv' /\ RowInv'
<1>1. RowsExclusive'
  BY DEF PgInv, ClaimInv, RowsExclusive
<1>2. ClaimsCurrent'
  BY DEF PgInv, ClaimInv, ClaimsCurrent, Due, rowVars
<1>3. RowInv'
  BY DEF PgInv, RowInv, DeadLettersAgree, AttemptsLeft, rowVars
<1> QED
  BY <1>1, <1>2, <1>3 DEF ClaimInv

LEMMA VanishShrinks ==
    ASSUME PgInv, NEW w \in Worker, Vanish(w)
    PROVE  ClaimInv' /\ RowInv'
<1>1. \A v \in Worker : Claimed(v)' \subseteq Claimed(v)
  BY DEF Vanish, Untouched, Claimed, Written, PgInv, TypeInv, TypeOK
<1> QED
  BY <1>1, ClaimsShrink DEF Vanish

LEMMA SelectKeepsPgInv ==
    ASSUME Postgres, PgInv, NEW w \in Worker, Select(w)
    PROVE  ClaimInv' /\ RowInv'
<1>1. /\ UNCHANGED rowVars
      /\ seen'[w] = attempts
      /\ \A v \in Worker \ {w} : Claimed(v)' = Claimed(v) /\ seen'[v] = seen[v]
  BY DEF Select, Claimed, Written, PgInv, TypeInv, TypeOK
<1>2. Claimed(w)' \subseteq Due \ UNION {Claimed(v) : v \in Worker \ {w}}
  <2>1. Claimed(w)' = Batch(w)
    BY DEF Select, Claimed, Written, PgInv, TypeInv, TypeOK, IdleClaimsNothing
  <2>2. Batch(w) \subseteq Due \ HeldByOther(w)
    BY PgHolds DEF Batch
  <2>3. \A v \in Worker \ {w} : Claimed(v) \subseteq HeldByOther(w)
    BY PgHolds DEF HeldByOther
  <2> QED
    BY <2>1, <2>2, <2>3
<1>3. RowsExclusive'
  BY <1>1, <1>2 DEF RowsExclusive, PgInv, ClaimInv
<1>4. ClaimsCurrent'
  <2>1. Due' = Due /\ attempts' = attempts
    BY <1>1 DEF Due, rowVars
  <2> QED
    BY <1>1, <1>2, <2>1 DEF ClaimsCurrent, PgInv, ClaimInv
<1>5. RowInv'
  BY <1>1 DEF PgInv, RowInv, DeadLettersAgree, AttemptsLeft, rowVars
<1> QED
  BY <1>3, <1>4, <1>5 DEF ClaimInv

\* What a commit does to the rows of its own batch, all of them due before.
LEMMA CommitKeepsPgInv ==
    ASSUME PgInv, NEW w \in Worker, Commit(w)
    PROVE  ClaimInv' /\ RowInv'
<1> USE DEF PgInv, TypeInv, TypeOK
<1>1. /\ seen' = seen /\ stored' = stored /\ Claimed(w)' = {}
      /\ \A v \in Worker \ {w} : Claimed(v)' = Claimed(v)
  BY DEF Commit, Untouched, Claimed, Written
<1>2. /\ Written(w) \subseteq Due
      /\ \A e \in Written(w) : seen[w][e] = attempts[e] /\ attempts[e] \in Nat
  BY OutboxAssumption DEF ClaimInv, ClaimsCurrent, Claimed, Written
<1>3. /\ Succeeded(w) \subseteq Written(w) /\ Parked(w) \subseteq Written(w)
      /\ Retried(w) \subseteq Written(w)
      /\ Written(w) = Succeeded(w) \cup Parked(w) \cup Retried(w)
      /\ Succeeded(w) \cap Parked(w) = {} /\ Parked(w) \cap Retried(w) = {}
  BY DEF Succeeded, Parked, Retried, Written
<1>4. /\ published' = published \cup Succeeded(w)
      /\ dead' = dead \cup Parked(w)
      /\ dlq' = [e \in Event |-> IF e \in Parked(w) THEN "open" ELSE dlq[e]]
      /\ attempts' = [e \in Event |->
                        IF e \in Written(w) THEN attempts[e] + 1 ELSE attempts[e]]
  BY <1>2, <1>3 DEF Commit, Due
<1>5. \A e \in Event \ Written(w) :
          /\ e \in published' <=> e \in published
          /\ e \in dead' <=> e \in dead
          /\ attempts'[e] = attempts[e]
  BY <1>3, <1>4
<1>6. RowsExclusive'
  BY <1>1 DEF ClaimInv, RowsExclusive
<1>7. ClaimsCurrent'
  <2> SUFFICES ASSUME NEW v \in Worker, NEW e \in Claimed(v)'
               PROVE  (e \in Due /\ seen[v][e] = attempts[e])'
    BY DEF ClaimsCurrent
  <2>1. v # w /\ e \in Claimed(v)
    BY <1>1
  <2>2. e \in Event /\ e \notin Written(w)
    BY <2>1 DEF ClaimInv, RowsExclusive, Claimed, Written
  <2>3. e \in Due /\ seen[v][e] = attempts[e]
    BY <2>1 DEF ClaimInv, ClaimsCurrent
  <2> QED
    BY <1>1, <1>5, <2>2, <2>3 DEF Due
<1>8. DeadLettersAgree'
  <2>1. \A e \in Event : e \in dead' <=> dlq'[e] = "open"
    BY <1>4 DEF RowInv, DeadLettersAgree
  <2>2. dead' \cap published' = {}
    BY <1>2, <1>3, <1>4 DEF RowInv, DeadLettersAgree, Due
  <2> QED
    BY <2>1, <2>2 DEF DeadLettersAgree
<1>9. AttemptsLeft'
  <2> SUFFICES ASSUME NEW e \in Event, e \notin published', e \notin dead'
               PROVE  attempts'[e] < MaxAttempts
    BY DEF AttemptsLeft
  <2>1. CASE e \in Retried(w)
    <3>1. ~(seen[w][e] + 1 >= MaxAttempts) /\ seen[w][e] = attempts[e] /\ e \in Written(w)
      BY <1>2, <1>3, <2>1 DEF Retried, Parked, Exhausted
    <3> QED
      BY <1>2, <1>4, <3>1, OutboxAssumption
  <2>2. CASE e \notin Written(w)
    BY <1>4, <1>5, <2>2 DEF RowInv, AttemptsLeft
  <2> QED
    BY <1>3, <1>4, <2>1, <2>2
<1> QED
  BY <1>6, <1>7, <1>8, <1>9 DEF ClaimInv, RowInv

LEMMA ReplayWriteKeepsPgInv ==
    ASSUME Postgres, PgInv, NEW o \in Operator, ReplayWrite(o)
    PROVE  ClaimInv' /\ RowInv'
<1>0. \A w \in Worker : Holds(w) = Claimed(w)
  BY PgHolds
<1>1. PICK e \in Event :
          /\ \A w \in Worker : e \notin Holds(w)
          /\ attempts' = [attempts EXCEPT ![e] = 0]
          /\ dead' = dead \ {e}
          /\ dlq' = [dlq EXCEPT ![e] = "replayed"]
          /\ UNCHANGED <<stored, published, workerVars>>
  BY DEF ReplayWrite
<1> USE DEF PgInv, TypeInv, TypeOK
<1>2. \A w \in Worker : Claimed(w)' = Claimed(w) /\ seen'[w] = seen[w]
  BY <1>1 DEF workerVars, Claimed, Written
<1>3. RowsExclusive'
  BY <1>2 DEF ClaimInv, RowsExclusive
<1>4. ClaimsCurrent'
  BY <1>0, <1>1, <1>2, OutboxAssumption DEF ClaimInv, ClaimsCurrent, Due
<1>5. DeadLettersAgree'
  BY <1>1 DEF RowInv, DeadLettersAgree
<1>6. AttemptsLeft'
  BY <1>1, OutboxAssumption DEF RowInv, AttemptsLeft
<1> QED
  BY <1>3, <1>4, <1>5, <1>6 DEF ClaimInv, RowInv

LEMMA AppendKeepsPgInv ==
    ASSUME PgInv, NEW e \in Event, AppendOutboxEvent(e)
    PROVE  ClaimInv' /\ RowInv'
<1>1. \A w \in Worker : Claimed(w)' = Claimed(w) /\ seen'[w] = seen[w]
  BY DEF AppendOutboxEvent, workerVars, Claimed, Written
<1>2. ClaimInv'
  <2>1. Due \subseteq Due' /\ attempts' = attempts
    BY DEF AppendOutboxEvent, Due
  <2> QED
    BY <1>1, <2>1 DEF PgInv, ClaimInv, RowsExclusive, ClaimsCurrent
<1>3. RowInv'
  BY DEF PgInv, RowInv, DeadLettersAgree, AttemptsLeft, AppendOutboxEvent
<1> QED
  BY <1>2, <1>3

LEMMA PgInvInit == Init => PgInv
<1> SUFFICES ASSUME Init PROVE PgInv
  OBVIOUS
<1>1. ClaimInv
  BY DEF Init, ClaimInv, RowsExclusive, ClaimsCurrent, Claimed, Written, Untouched
<1>2. RowInv
  BY OutboxAssumption DEF Init, RowInv, DeadLettersAgree, AttemptsLeft
<1> QED
  BY <1>1, <1>2, TypeInvInit DEF PgInv

LEMMA PgInvStep ==
    ASSUME Postgres
    PROVE  PgInv /\ [Next]_vars => PgInv'
<1> SUFFICES ASSUME PgInv, [Next]_vars PROVE ClaimInv' /\ RowInv'
  BY TypeInvStep DEF PgInv
<1> USE DEF PgInv, TypeInv, TypeOK
<1>1. ASSUME NEW e \in Event, AppendOutboxEvent(e) PROVE ClaimInv' /\ RowInv'
  BY <1>1, AppendKeepsPgInv
<1>2. ASSUME NEW w \in Worker, Select(w) PROVE ClaimInv' /\ RowInv'
  BY <1>2, SelectKeepsPgInv
<1>3. ASSUME NEW w \in Worker, Publish(w) PROVE ClaimInv' /\ RowInv'
  <2>1. UNCHANGED <<rowVars, todo, seen, staged>>
    BY <1>3 DEF Publish, PublishDelivers, PublishFails, PublishTimesOut, Returns
  <2> QED
    BY <2>1, ClaimsShrink DEF Claimed, Written
<1>4. ASSUME NEW w \in Worker, Record(w) PROVE ClaimInv' /\ RowInv'
  <2>1. UNCHANGED rowVars /\ UNCHANGED seen
    BY <1>4 DEF Record
  <2>2. \A v \in Worker : Claimed(v)' \subseteq Claimed(v)
    BY <1>4 DEF Record, StagedAfter, IsNext, Claimed, Written
  <2> QED
    BY <2>1, <2>2, ClaimsShrink
<1>5. ASSUME NEW w \in Worker, RecordRaises(w) \/ Crash(w) PROVE ClaimInv' /\ RowInv'
  BY <1>5, VanishShrinks DEF RecordRaises, Crash
<1>6. ASSUME NEW w \in Worker, Commit(w) PROVE ClaimInv' /\ RowInv'
  BY <1>6, CommitKeepsPgInv
<1>7. ASSUME UNCHANGED <<rowVars, todo, seen, staged>> PROVE ClaimInv' /\ RowInv'
  BY <1>7, ClaimsShrink DEF Claimed, Written
<1>8. ASSUME NEW w \in Worker, Restart(w) PROVE ClaimInv' /\ RowInv'
  BY <1>7, <1>8 DEF Restart
<1>9. ASSUME NEW w \in Worker, NEW e \in Event, BufferDelivers(w, e) \/ BufferDrops(w, e)
      PROVE ClaimInv' /\ RowInv'
  BY <1>7, <1>9 DEF BufferDelivers, BufferDrops, workerVars
<1>10. ASSUME NEW o \in Operator, NEW e \in Event, ReplayRead(o, e)
       PROVE ClaimInv' /\ RowInv'
  BY <1>7, <1>10 DEF ReplayRead, workerVars
<1>11. ASSUME NEW o \in Operator, ReplayWrite(o) PROVE ClaimInv' /\ RowInv'
  BY <1>11, ReplayWriteKeepsPgInv
<1>12. CASE UNCHANGED vars
  BY <1>7, <1>12 DEF vars, workerVars
<1> QED
  BY <1>1, <1>2, <1>3, <1>4, <1>5, <1>6, <1>8, <1>9, <1>10, <1>11, <1>12
     DEF Next, WorkerStep, Poll

(* On PostgreSQL no worker hands over an event that another one's commit   *)
(* published: the row a batch is about to publish is not published yet.    *)
THEOREM NeverRepublished ==
    ASSUME Postgres
    PROVE  Spec => []NoRepublish
<1>1. PgInv => NoRepublish
  BY DEF PgInv, ClaimInv, ClaimsCurrent, Claimed, Due, NoRepublish, IsNext
<1>2. PgInv /\ [Next]_vars => PgInv'
  BY PgInvStep
<1> QED
  BY PgInvInit, <1>1, <1>2, PTL DEF Spec

(* On PostgreSQL a row is parked exactly while its dead letter is open,    *)
(* also when operators replay one letter twice (replay_dead_letter).       *)
THEOREM DeadLettersAlwaysAgree ==
    ASSUME Postgres
    PROVE  Spec => []DeadLettersAgree
<1>1. PgInv => DeadLettersAgree
  BY DEF PgInv, RowInv
<1>2. PgInv /\ [Next]_vars => PgInv'
  BY PgInvStep
<1> QED
  BY PgInvInit, <1>1, <1>2, PTL DEF Spec

(* On PostgreSQL a row that is neither published nor parked keeps matching *)
(* the WHERE clause of publish_batch: no row falls out of sight.           *)
THEOREM NoRowEverStranded ==
    ASSUME Postgres
    PROVE  Spec => []NoRowStranded
<1>1. PgInv => NoRowStranded
  BY DEF PgInv, TypeInv, TypeOK, RowInv, AttemptsLeft, NoRowStranded, Due
<1>2. PgInv /\ [Next]_vars => PgInv'
  BY PgInvStep
<1> QED
  BY PgInvInit, <1>1, <1>2, PTL DEF Spec

----------------------------------------------------------------------------
(* The deliveries, with a flush that does not return early, and on         *)
(* PostgreSQL the refinement.                                              *)

\* What a worker takes for delivered, the broker has.
DeliveredInv ==
    /\ \A w \in Worker : buffer[w] = {}
    /\ \A w \in Worker : Succeeded(w) \subseteq broker
    /\ \A w \in Worker, e \in Event :
          pc[w] = "record" /\ result[w] = "ok" /\ IsNext(w, e) => e \in broker

DeliveredHolds == TypeInv /\ DeliveredInv

LEMMA DeliveredInit == Init => DeliveredHolds
  BY TypeInvInit DEF Init, DeliveredHolds, DeliveredInv, Succeeded, Written, Untouched

LEMMA DeliveredStep ==
    ASSUME ~FlushMayTimeOut
    PROVE  DeliveredHolds /\ [Next]_vars => DeliveredHolds'
<1> SUFFICES ASSUME TypeInv, DeliveredInv, [Next]_vars PROVE DeliveredInv'
  BY TypeInvStep DEF DeliveredHolds
<1> USE DEF TypeInv, TypeOK
<1>1. ASSUME UNCHANGED <<pc, todo, result, staged, buffer, broker>> PROVE DeliveredInv'
  BY <1>1 DEF DeliveredInv, Succeeded, Written, IsNext
<1>2. ASSUME NEW e \in Event, AppendOutboxEvent(e) PROVE DeliveredInv'
  BY <1>1, <1>2 DEF AppendOutboxEvent, workerVars
<1>3. ASSUME NEW w \in Worker, Select(w) PROVE DeliveredInv'
  BY <1>3 DEF Select, DeliveredInv, Succeeded, Written, IsNext
<1>4. ASSUME NEW w \in Worker, Publish(w) PROVE DeliveredInv'
  <2>1. ~PublishTimesOut(w)
    BY DEF PublishTimesOut
  <2>2. PICK e \in Event, r \in {"ok", "failed"} :
            /\ IsNext(w, e) /\ Returns(w, r) /\ UNCHANGED buffer
            /\ broker \subseteq broker' /\ (r = "ok" => e \in broker')
    BY <1>4, <2>1 DEF Publish, PublishDelivers, PublishFails
  <2>3. \A f \in Event : IsNext(w, f) => f = e
    BY <2>2 DEF IsNext, Event
  <2>4. UNCHANGED <<todo, staged>> /\ pc' = [pc EXCEPT ![w] = "record"]
        /\ result' = [result EXCEPT ![w] = r]
    BY <2>2 DEF Returns
  <2>5. \A v \in Worker : Succeeded(v)' = Succeeded(v)
    BY <2>4 DEF Succeeded, Written
  <2>6. \A v \in Worker, f \in Event : IsNext(v, f)' <=> IsNext(v, f)
    BY <2>4 DEF IsNext
  <2>7. \A v \in Worker, f \in Event :
            pc'[v] = "record" /\ result'[v] = "ok" /\ IsNext(v, f)' => f \in broker'
    BY <2>2, <2>3, <2>4, <2>6 DEF DeliveredInv
  <2> QED
    BY <2>2, <2>5, <2>7 DEF DeliveredInv
<1>5. ASSUME NEW w \in Worker, Record(w) PROVE DeliveredInv'
  <2>1. PICK e \in Event :
            /\ pc[w] = "record" /\ IsNext(w, e)
            /\ staged' = [staged EXCEPT ![w][e] = result[w]]
            /\ todo' = [todo EXCEPT ![w] = @ \ {e}]
            /\ result' = [result EXCEPT ![w] = "none"]
            /\ pc' = [pc EXCEPT ![w] = "publish"]
            /\ UNCHANGED <<buffer, broker>>
    BY <1>5 DEF Record, StagedAfter
  <2>2. Succeeded(w)' \subseteq broker
    BY <2>1 DEF DeliveredInv, Succeeded, Written
  <2>3. \A v \in Worker \ {w} : Succeeded(v)' = Succeeded(v)
    BY <2>1 DEF Succeeded, Written
  <2> QED
    BY <2>1, <2>2, <2>3 DEF DeliveredInv, IsNext
<1>6. ASSUME NEW w \in Worker, RecordRaises(w) \/ Crash(w) PROVE DeliveredInv'
  <2>1. Vanish(w)
    BY <1>6 DEF RecordRaises, Crash
  <2>2. \A v \in Worker : Succeeded(v)' \subseteq Succeeded(v)
    BY <2>1 DEF Vanish, Untouched, Succeeded, Written
  <2> QED
    BY <2>1, <2>2 DEF Vanish, DeliveredInv, IsNext
<1>7. ASSUME NEW w \in Worker, Commit(w) PROVE DeliveredInv'
  <2>1. \A v \in Worker : Succeeded(v)' \subseteq Succeeded(v)
    BY <1>7 DEF Commit, Untouched, Succeeded, Written
  <2> QED
    BY <1>7, <2>1 DEF Commit, DeliveredInv, IsNext
<1>8. ASSUME NEW w \in Worker, Restart(w) PROVE DeliveredInv'
  BY <1>8 DEF Restart, DeliveredInv, Succeeded, Written, IsNext
<1>9. ASSUME NEW w \in Worker, NEW e \in Event, BufferDelivers(w, e) \/ BufferDrops(w, e)
      PROVE DeliveredInv'
  BY <1>9 DEF BufferDelivers, BufferDrops, DeliveredInv
<1>10. ASSUME NEW o \in Operator, NEW e \in Event, ReplayRead(o, e) PROVE DeliveredInv'
  BY <1>1, <1>10 DEF ReplayRead, workerVars
<1>11. ASSUME NEW o \in Operator, ReplayWrite(o) PROVE DeliveredInv'
  BY <1>1, <1>11 DEF ReplayWrite, workerVars
<1>12. CASE UNCHANGED vars
  BY <1>1, <1>12 DEF vars, workerVars
<1> QED
  BY <1>2, <1>3, <1>4, <1>5, <1>6, <1>7, <1>8, <1>9, <1>10, <1>11, <1>12
     DEF Next, WorkerStep, Poll

(* At-least-once delivery on either database, provided flush does not come *)
(* back before its message: no row counts as published that the broker has *)
(* not got (docstring of OutboxPublisher; outbox_flush shows what the      *)
(* proviso is worth).                                                      *)
THEOREM AtLeastOnceWhenFlushWaits ==
    ASSUME ~FlushMayTimeOut
    PROVE  Spec => []AtLeastOnce
<1> DEFINE Reached == published \subseteq broker
<1>1. Init => Reached
  BY DEF Init
<1>2. DeliveredHolds /\ Reached /\ [Next]_vars => Reached'
  <2> SUFFICES ASSUME DeliveredInv, Reached, [Next]_vars PROVE Reached'
    BY DEF DeliveredHolds
  <2>1. ASSUME NEW w \in Worker, Commit(w) PROVE Reached'
    BY <2>1 DEF Commit, DeliveredInv
  <2>2. ASSUME NEW w \in Worker, Publish(w) PROVE Reached'
    BY <2>2 DEF Publish, PublishDelivers, PublishFails, PublishTimesOut, Returns, rowVars
  <2>3. ASSUME NEW w \in Worker,
               Select(w) \/ Record(w) \/ RecordRaises(w) \/ Poll(w) \/ Crash(w) \/ Restart(w)
        PROVE  Reached'
    BY <2>3 DEF Select, Record, RecordRaises, Poll, Crash, Restart, Vanish, rowVars, vars
  <2>4. ASSUME NEW w \in Worker, NEW e \in Event, BufferDelivers(w, e) \/ BufferDrops(w, e)
        PROVE  Reached'
    BY <2>4 DEF BufferDelivers, BufferDrops, rowVars
  <2>5. ASSUME NEW o \in Operator, NEW e \in Event, ReplayRead(o, e) PROVE Reached'
    BY <2>5 DEF ReplayRead, rowVars
  <2>6. ASSUME NEW e \in Event, AppendOutboxEvent(e) PROVE Reached'
    BY <2>6 DEF AppendOutboxEvent
  <2>7. ASSUME NEW o \in Operator, ReplayWrite(o) PROVE Reached'
    BY <2>7 DEF ReplayWrite
  <2>8. CASE UNCHANGED vars
    BY <2>8 DEF vars, rowVars
  <2> QED
    BY <2>1, <2>2, <2>3, <2>4, <2>5, <2>6, <2>7, <2>8 DEF Next, WorkerStep
<1>3. DeliveredHolds /\ [Next]_vars => DeliveredHolds'
  BY DeliveredStep
<1>4. Reached => AtLeastOnce
  BY DEF AtLeastOnce
<1> QED
  BY DeliveredInit, <1>1, <1>2, <1>3, <1>4, PTL DEF Spec

RefInv == PgInv /\ DeliveredInv

LEMMA RefInvInit == Init => RefInv
  BY PgInvInit, DeliveredInit DEF RefInv, DeliveredHolds

LEMMA RefInvStep ==
    ASSUME Postgres, ~FlushMayTimeOut
    PROVE  RefInv /\ [Next]_vars => RefInv'
  BY PgInvStep, DeliveredStep DEF RefInv, PgInv, DeliveredHolds

LEMMA StepRefines ==
    ASSUME Postgres, RefInv, Next, ~FlushMayTimeOut
    PROVE  [Delivery!DeliveryNext]_(Delivery!deliveryVars)
<1> USE DEF RefInv, PgInv, TypeInv, TypeOK
<1> DEFINE Stutters == UNCHANGED <<stored, broker, published, dead>>
           Refines == [Delivery!DeliveryNext]_(Delivery!deliveryVars)
<1>0. Stutters => Refines
  BY DEF Delivery!deliveryVars
<1>1. ASSUME NEW e \in Event, AppendOutboxEvent(e) PROVE Refines
  <2>1. Delivery!Store(e)
    BY <1>1 DEF AppendOutboxEvent, Delivery!Store
  <2> QED
    BY <2>1 DEF Delivery!DeliveryNext
<1>2. ASSUME NEW w \in Worker, Publish(w) PROVE Refines
  <2>1. PICK e \in Event : /\ IsNext(w, e) /\ UNCHANGED rowVars
                           /\ broker' = broker \/ broker' = broker \cup {e}
    BY <1>2 DEF Publish, PublishDelivers, PublishFails, PublishTimesOut, Returns
  <2>2. e \in Delivery!Pending
    BY <2>1 DEF IsNext, ClaimInv, ClaimsCurrent, Claimed, Due, Delivery!Pending
  <2>3. CASE broker' = broker
    BY <1>0, <2>1, <2>3 DEF rowVars
  <2>4. CASE broker' = broker \cup {e}
    <3>1. Delivery!Deliver(e)
      BY <2>1, <2>2, <2>4 DEF rowVars, Delivery!Deliver
    <3> QED
      BY <3>1 DEF Delivery!DeliveryNext
  <2> QED
    BY <2>1, <2>3, <2>4
<1>3. ASSUME NEW w \in Worker, Commit(w) PROVE Refines
  <2>1. Written(w) \subseteq Delivery!Pending
    BY DEF ClaimInv, ClaimsCurrent, Claimed, Due, Delivery!Pending
  <2>2. /\ Succeeded(w) \subseteq Written(w) /\ Parked(w) \subseteq Written(w) \ Succeeded(w)
        /\ Retried(w) \subseteq Written(w)
    BY DEF Succeeded, Parked, Retried
  <2>3. /\ published' = published \cup Succeeded(w)
        /\ dead' = dead \cup Parked(w)
        /\ UNCHANGED <<stored, broker>>
    BY <1>3, <2>1, <2>2 DEF Commit, Delivery!Pending
  <2>4. Succeeded(w) \subseteq broker
    BY DEF DeliveredInv
  <2>5. Delivery!Settle(Succeeded(w), Parked(w))
    BY <2>1, <2>2, <2>3, <2>4 DEF Delivery!Settle
  <2>6. Succeeded(w) \in SUBSET Event /\ Parked(w) \in SUBSET Event
    BY DEF Succeeded, Parked, Written
  <2> QED
    BY <2>5, <2>6 DEF Delivery!DeliveryNext
<1>4. ASSUME NEW o \in Operator, ReplayWrite(o) PROVE Refines
  <2>1. PICK e \in Event : dead' = dead \ {e} /\ UNCHANGED <<stored, published, broker>>
    BY <1>4 DEF ReplayWrite
  <2>2. CASE e \in dead
    <3>1. Delivery!PutBack(e)
      BY <2>1, <2>2 DEF Delivery!PutBack
    <3> QED
      BY <3>1 DEF Delivery!DeliveryNext
  <2>3. CASE e \notin dead
    BY <1>0, <2>1, <2>3
  <2> QED
    BY <2>2, <2>3
<1>5. ASSUME NEW w \in Worker,
             Select(w) \/ Record(w) \/ RecordRaises(w) \/ Crash(w) \/ Restart(w) \/ Poll(w)
      PROVE  Refines
  BY <1>0, <1>5 DEF Select, Record, RecordRaises, Crash, Vanish, Restart, Poll, rowVars, vars
<1>6. ASSUME NEW w \in Worker, NEW e \in Event, BufferDelivers(w, e) \/ BufferDrops(w, e)
      PROVE  Refines
  BY <1>6 DEF BufferDelivers, BufferDrops, DeliveredInv
<1>7. ASSUME NEW o \in Operator, NEW e \in Event, ReplayRead(o, e) PROVE Refines
  BY <1>0, <1>7 DEF ReplayRead, rowVars
<1> QED
  BY <1>1, <1>2, <1>3, <1>4, <1>5, <1>6, <1>7 DEF Next, WorkerStep

(* With SKIP LOCKED and a flush that waits for its message, the outbox     *)
(* implements EventDelivery: nothing counts as published before the broker *)
(* has it, nothing published is handed over again, and only an operator    *)
(* puts a parked event back.                                               *)
THEOREM OutboxImplementsDelivery ==
    ASSUME Postgres, ~FlushMayTimeOut
    PROVE  Spec => ImplementsDelivery
<1>1. Init => Delivery!DeliveryInit
  BY DEF Init, Delivery!DeliveryInit
<1>2. RefInv /\ [Next]_vars => [Delivery!DeliveryNext]_(Delivery!deliveryVars)
  BY StepRefines DEF vars, rowVars, Delivery!deliveryVars
<1>3. RefInv /\ [Next]_vars => RefInv'
  BY RefInvStep
<1> QED
  BY RefInvInit, <1>1, <1>2, <1>3, PTL DEF Spec, ImplementsDelivery, Delivery!DeliverySpec

----------------------------------------------------------------------------
(* With the consumers behind it.  The two sides share only the broker, so  *)
(* the refinement of the promise carries over to the composition.          *)

\* The consumers in EndToEnd and in DeliveryPipeline are the same module.
LEMMA SameConsumers ==
    /\ C!ConsumerInit <=> Pipeline!C!ConsumerInit
    /\ C!ConsumerNext <=> Pipeline!C!ConsumerNext
<1>1. C!ConsumerInit <=> Pipeline!C!ConsumerInit
  BY DEF C!ConsumerInit, Pipeline!C!ConsumerInit, C!Key, Pipeline!C!Key,
         C!NoKey, Pipeline!C!NoKey
<1>2. ASSUME NEW t
      PROVE  /\ C!RollBack(t) <=> Pipeline!C!RollBack(t)
             /\ C!Skip(t) <=> Pipeline!C!Skip(t)
             /\ C!InsertReceipt(t) <=> Pipeline!C!InsertReceipt(t)
             /\ C!CommitReceipt(t) <=> Pipeline!C!CommitReceipt(t)
  BY DEF C!RollBack, Pipeline!C!RollBack, C!Return, Pipeline!C!Return,
         C!NoKey, Pipeline!C!NoKey, C!Skip, Pipeline!C!Skip,
         C!InsertReceipt, Pipeline!C!InsertReceipt, C!KeyFree, Pipeline!C!KeyFree,
         C!Uncontended, Pipeline!C!Uncontended, C!CommitReceipt,
         Pipeline!C!CommitReceipt
<1>3. ASSUME NEW t
      PROVE  /\ C!Handle(t) <=> Pipeline!C!Handle(t)
             /\ C!InsertFails(t) <=> Pipeline!C!InsertFails(t)
             /\ C!Abort(t) <=> Pipeline!C!Abort(t)
             /\ \A k : C!Receive(t, k) <=> Pipeline!C!Receive(t, k)
  BY <1>2 DEF C!Handle, Pipeline!C!Handle, C!InsertFails, Pipeline!C!InsertFails,
              C!Abort, Pipeline!C!Abort, C!Receive, Pipeline!C!Receive
<1>4. C!ConsumerNext <=> Pipeline!C!ConsumerNext
  BY <1>2, <1>3 DEF C!ConsumerNext, Pipeline!C!ConsumerNext, C!Key, Pipeline!C!Key
<1> QED
  BY <1>1, <1>4

\* And so are the two copies of the promise.
LEMMA SamePromise ==
    [Delivery!DeliveryNext]_(Delivery!deliveryVars)
      => [Pipeline!DeliveryNext]_(Pipeline!deliveryVars)
BY DEF Delivery!DeliveryNext, Delivery!deliveryVars, Pipeline!DeliveryNext,
       Pipeline!deliveryVars, Delivery!Store, Pipeline!Store, Delivery!Deliver,
       Pipeline!Deliver, Delivery!PutBack, Pipeline!PutBack, Delivery!Settle,
       Pipeline!Settle, Delivery!Pending, Pipeline!Pending

LEMMA EndToEndStep ==
    ASSUME Postgres, ~FlushMayTimeOut
    PROVE  RefInv /\ [EndToEndNext]_allVars
             => RefInv' /\ [Pipeline!Next]_(Pipeline!vars)
<1> SUFFICES ASSUME RefInv, [EndToEndNext]_allVars
             PROVE  RefInv' /\ [Pipeline!Next]_(Pipeline!vars)
  OBVIOUS
<1>1. [Next]_vars
  BY DEF EndToEndNext, allVars
<1>2. RefInv'
  BY <1>1, RefInvStep
<1>3. CASE Next /\ UNCHANGED consumerVars
  <2>1. [Pipeline!DeliveryNext]_(Pipeline!deliveryVars)
    BY <1>3, StepRefines, SamePromise
  <2> QED
    BY <1>2, <1>3, <2>1 DEF Pipeline!Next, Pipeline!vars, Pipeline!deliveryVars, Pipeline!consumerVars, consumerVars
<1>4. CASE C!ConsumerNext /\ UNCHANGED vars
  BY <1>2, <1>4, SameConsumers DEF Pipeline!Next, Pipeline!deliveryVars, vars, rowVars
<1>5. CASE UNCHANGED allVars
  BY <1>2, <1>5 DEF allVars, consumerVars, vars, rowVars, Pipeline!vars,
              Pipeline!deliveryVars, Pipeline!consumerVars
<1> QED
  BY <1>3, <1>4, <1>5 DEF EndToEndNext

LEMMA EndToEndStart == EndToEndInit => RefInv /\ Pipeline!Init
BY RefInvInit, SameConsumers
   DEF EndToEndInit, Init, Pipeline!Init, Pipeline!DeliveryInit

(* The workers, batches, crashes, dead letters and replays of the outbox,  *)
(* seen by its consumers, are the delivery pipeline: at-least-once         *)
(* delivery in front of process, on PostgreSQL with a flush that waits.    *)
THEOREM EndToEndImplementsPipeline ==
    ASSUME Postgres, ~FlushMayTimeOut
    PROVE  EndToEndSpec => ImplementsPipeline
<1>1. RefInv /\ [EndToEndNext]_allVars => RefInv' /\ [Pipeline!Next]_(Pipeline!vars)
  BY EndToEndStep
<1> QED
  BY EndToEndStart, <1>1, PTL DEF EndToEndSpec, ImplementsPipeline, Pipeline!Spec

\* The theorems about the pipeline, on the variables of the composition.
Promise == INSTANCE DeliveryPipelineProofs WITH delivered <- broker

LEMMA SamePipelineConsumers ==
    /\ Pipeline!C!ConsumerInit => Promise!C!ConsumerInit
    /\ Pipeline!C!ConsumerNext => Promise!C!ConsumerNext
<1>1. Pipeline!C!ConsumerInit => Promise!C!ConsumerInit
  BY DEF Pipeline!C!ConsumerInit, Promise!C!ConsumerInit, Pipeline!C!Key, Promise!C!Key,
         Pipeline!C!NoKey, Promise!C!NoKey
<1>2. ASSUME NEW t
      PROVE  /\ Pipeline!C!RollBack(t) <=> Promise!C!RollBack(t)
             /\ Pipeline!C!Skip(t) <=> Promise!C!Skip(t)
             /\ Pipeline!C!InsertReceipt(t) <=> Promise!C!InsertReceipt(t)
             /\ Pipeline!C!CommitReceipt(t) <=> Promise!C!CommitReceipt(t)
  BY DEF Pipeline!C!RollBack, Promise!C!RollBack, Pipeline!C!Return, Promise!C!Return,
         Pipeline!C!NoKey, Promise!C!NoKey, Pipeline!C!Skip, Promise!C!Skip,
         Pipeline!C!InsertReceipt, Promise!C!InsertReceipt, Pipeline!C!KeyFree,
         Promise!C!KeyFree, Pipeline!C!Uncontended, Promise!C!Uncontended,
         Pipeline!C!CommitReceipt, Promise!C!CommitReceipt
<1>3. ASSUME NEW t
      PROVE  /\ Pipeline!C!Handle(t) <=> Promise!C!Handle(t)
             /\ Pipeline!C!InsertFails(t) <=> Promise!C!InsertFails(t)
             /\ Pipeline!C!Abort(t) <=> Promise!C!Abort(t)
             /\ \A k : Pipeline!C!Receive(t, k) <=> Promise!C!Receive(t, k)
  BY <1>2 DEF Pipeline!C!Handle, Promise!C!Handle, Pipeline!C!InsertFails,
              Promise!C!InsertFails, Pipeline!C!Abort, Promise!C!Abort,
              Pipeline!C!Receive, Promise!C!Receive
<1>4. Pipeline!C!ConsumerNext => Promise!C!ConsumerNext
  BY <1>2, <1>3 DEF Pipeline!C!ConsumerNext, Promise!C!ConsumerNext,
                    Pipeline!C!Key, Promise!C!Key
<1> QED
  BY <1>1, <1>4

LEMMA PipelineIsPromise == Pipeline!Spec => Promise!Spec
<1>1. Pipeline!Init => Promise!Init
  BY SamePipelineConsumers
     DEF Pipeline!Init, Promise!Init, Pipeline!DeliveryInit, Promise!DeliveryInit
<1>2. [Pipeline!Next]_(Pipeline!vars) => [Promise!Next]_(Promise!vars)
  <2>1. Pipeline!DeliveryNext => Promise!DeliveryNext
    BY DEF Pipeline!DeliveryNext, Promise!DeliveryNext, Pipeline!Store, Promise!Store,
           Pipeline!Deliver, Promise!Deliver, Pipeline!PutBack, Promise!PutBack,
           Pipeline!Settle, Promise!Settle, Pipeline!Pending, Promise!Pending
  <2> QED
    BY <2>1, SamePipelineConsumers
       DEF Pipeline!Next, Promise!Next, Pipeline!vars, Promise!vars,
           Pipeline!deliveryVars, Promise!deliveryVars, Pipeline!consumerVars,
           Promise!consumerVars
<1> QED
  BY <1>1, <1>2, PTL DEF Pipeline!Spec, Promise!Spec

(* End to end, through crashing workers, repeated batches, dead letters,   *)
(* replays and racing calls of process: a business event has at most one   *)
(* effect in a consumer, exactly one once some call answered for it, and   *)
(* none before its transaction committed.                                  *)
THEOREM EndToEndExactlyOnce ==
    ASSUME Postgres, ~FlushMayTimeOut
    PROVE  EndToEndSpec => []OneEffectPerEvent
<1>1. EndToEndSpec => Promise!Spec
  BY EndToEndImplementsPipeline, PipelineIsPromise DEF ImplementsPipeline
<1>2. Promise!Spec => []Promise!ExactlyOnceEffect
  BY Promise!ExactlyOnceAlways
<1>3. Promise!Spec => []Promise!AckedWasHandled
  BY Promise!AckedAlwaysHandled
<1>4. Promise!Spec => []Promise!EffectOnlyOfStored
  BY Promise!EffectsAreOfStoredEvents
<1>5. Promise!ExactlyOnceEffect /\ Promise!AckedWasHandled /\ Promise!EffectOnlyOfStored
        => OneEffectPerEvent
  BY DEF Promise!ExactlyOnceEffect, Promise!C!ExactlyOnceEffect, Promise!C!Key,
         Promise!AckedWasHandled, Promise!C!AckedWasHandled, Promise!EffectOnlyOfStored,
         OneEffectPerEvent, C!ExactlyOnceEffect, C!Key, C!AckedWasHandled
<1> QED
  BY <1>1, <1>2, <1>3, <1>4, <1>5, PTL

(* The outbox keeps what its promise keeps: once a commit of publish_batch *)
(* set published_at, no later batch, dead letter or replay takes it back.  *)
THEOREM OutboxPublishingIsFinal ==
    ASSUME Postgres, ~FlushMayTimeOut
    PROVE  Spec => Delivery!PublishedIsFinal
<1> DEFINE Final == published \subseteq published' /\ published' \cap dead' = {}
<1>1. RefInv /\ [Next]_vars => RefInv' /\ [Final]_(Delivery!deliveryVars)
  <2> SUFFICES ASSUME RefInv, [Next]_vars PROVE RefInv' /\ [Final]_(Delivery!deliveryVars)
    OBVIOUS
  <2>1. RefInv'
    BY RefInvStep
  <2>2. published' \cap dead' = {}
    BY <2>1 DEF RefInv, PgInv, RowInv, DeadLettersAgree
  <2>3. CASE Next
    <3>1. [Delivery!DeliveryNext]_(Delivery!deliveryVars)
      BY <2>3, StepRefines
    <3>2. published \subseteq published'
      BY <3>1 DEF Delivery!DeliveryNext, Delivery!deliveryVars, Delivery!Store,
                  Delivery!Deliver, Delivery!PutBack, Delivery!Settle
    <3> QED
      BY <2>1, <2>2, <3>2
  <2>4. CASE UNCHANGED vars
    BY <2>1, <2>4 DEF vars, rowVars, Delivery!deliveryVars
  <2> QED
    BY <2>3, <2>4
<1> QED
  BY RefInvInit, <1>1, PTL DEF Spec, Delivery!PublishedIsFinal
=============================================================================
