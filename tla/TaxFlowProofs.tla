---------------------------- MODULE TaxFlowProofs ----------------------------
(***************************************************************************)
(* Theorems about TaxFlow for any number of calls, users, keys, invoices,  *)
(* packs, runs and transactions, on both databases.                        *)
(***************************************************************************)
EXTENDS TaxFlow, FiniteSetTheorems, TLAPS

\* Ids are handed out in order, so the next one is new.
IdsInOrder == IsFiniteSet(txs) /\ \A x \in txs : x.id <= Cardinality(txs)

\* What a call has been given is what the operation it is in takes.
CallFits(c) ==
    /\ pc[c] = "ingest" => call[c].body \in Invoice
    /\ pc[c] \in {"run", "duplicates", "store", "ran", "request"} =>
          call[c].user \in User /\ call[c].body \in Pack
    /\ pc[c] \in {"ran", "request", "review"} => call[c].run \in RunId
    /\ pc[c] \in {"ran", "request"} =>
          runs[call[c].run] # None /\ runs[call[c].run].pack = call[c].body
    /\ pc[c] = "review" =>
          call[c].user \in User /\ workflow[call[c].run] # None

\* A record of a rule run names a run that was made of the recorded request.
RecordFits(k) ==
    idem["tax.run_rules"][k] # None =>
        LET record == idem["tax.run_rules"][k] IN
        /\ record.run \in RunId
        /\ runs[record.run] # None
        /\ runs[record.run].pack = record.body

TypeInv ==
    /\ TypeOK
    /\ IdsInOrder
    /\ \A c \in Call : CallFits(c)
    /\ \A k \in Key : RecordFits(k)

----------------------------------------------------------------------------
(* What the helpers of the actions do.                                     *)

\* A call that moves changes its own place and state only.
LEMMA GotoType ==
    ASSUME TypeOK, NEW c \in Call, NEW place, NEW state, Goto(c, place, state),
           place \in {"idle", "ingest", "run", "duplicates", "store", "ran",
                      "request", "review"},
           state \in CallState
    PROVE  /\ dialect' \in Dialect
           /\ pc' \in [Call -> {"idle", "ingest", "run", "duplicates", "store", "ran",
                                "request", "review"}]
           /\ call' \in [Call -> CallState]
           /\ pc'[c] = place /\ call'[c] = state
           /\ \A d \in Call \ {c} : pc'[d] = pc[d] /\ call'[d] = call[d]
  BY DEF Goto, TypeOK

\* The next transaction has an id that no earlier one has.
LEMMA NextId ==
    ASSUME TypeInv, NEW x, x.id = Cardinality(txs) + 1
    PROVE  /\ Cardinality(txs) \in Nat
           /\ x \notin txs
           /\ \A y \in txs : y.id # x.id
           /\ IsFiniteSet(txs \cup {x})
           /\ Cardinality(txs \cup {x}) = Cardinality(txs) + 1
<1>1. Cardinality(txs) \in Nat
  BY FS_CardinalityType DEF TypeInv, IdsInOrder
<1>2. \A y \in txs : y.id \in Nat /\ y.id <= Cardinality(txs)
  BY DEF TypeInv, TypeOK, IdsInOrder, Tx, TxId
<1>3. \A y \in txs : y.id # x.id
  BY <1>1, <1>2
<1> QED
  BY <1>1, <1>3, FS_AddElement DEF TypeInv, IdsInOrder

LEMMA TypeInvInit == Init => TypeInv
<1> SUFFICES ASSUME Init PROVE TypeInv
  OBVIOUS
<1>1. TypeOK
  BY TaxAssumption DEF Init, TypeOK, Blank, CallState
<1>2. IdsInOrder
  BY FS_EmptySet DEF Init, IdsInOrder
<1>3. \A c \in Call : CallFits(c)
  BY DEF Init, CallFits
<1>4. \A k \in Key : RecordFits(k)
  BY DEF Init, RecordFits, Operation
<1> QED
  BY <1>1, <1>2, <1>3, <1>4 DEF TypeInv

\* A step of one call that writes nothing to the database.
LEMMA CallStep ==
    ASSUME TypeInv, NEW c \in Call, NEW place, NEW state, Goto(c, place, state),
           UNCHANGED <<txs, runs, workflow, idem>>,
           place \in {"idle", "ingest", "run", "duplicates", "store", "ran",
                      "request", "review"},
           state \in CallState, CallFits(c)'
    PROVE  TypeInv'
<1>1. TypeOK'
  BY GotoType DEF TypeInv, TypeOK
<1>2. \A d \in Call \ {c} : CallFits(d)'
  BY GotoType DEF TypeInv, CallFits
<1> QED
  BY <1>1, <1>2 DEF TypeInv, IdsInOrder, RecordFits

LEMMA BlankType ==
    /\ Blank \in CallState
    /\ \A u \in User, k \in Key \cup {NoKey}, b \in Body :
          [Blank EXCEPT !.user = u, !.key = k, !.body = b] \in CallState
    /\ \A k \in Key \cup {NoKey}, b \in Body :
          [Blank EXCEPT !.key = k, !.body = b] \in CallState
    /\ \A u \in User, b \in Body, r \in RunId :
          [Blank EXCEPT !.user = u, !.body = b, !.run = r] \in CallState
    /\ \A u \in User, r \in RunId :
          [Blank EXCEPT !.user = u, !.run = r] \in CallState
  BY DEF Blank, CallState

LEMMA ReturnType ==
    ASSUME TypeInv, NEW c \in Call, Goto(c, "idle", Blank)
    PROVE  /\ dialect' \in Dialect
           /\ pc' \in [Call -> {"idle", "ingest", "run", "duplicates", "store", "ran",
                                "request", "review"}]
           /\ call' \in [Call -> CallState]
           /\ pc'[c] = "idle"
           /\ \A d \in Call \ {c} : pc'[d] = pc[d] /\ call'[d] = call[d]
<1>1. Blank \in CallState
  BY BlankType
<1> QED
  BY <1>1, GotoType DEF TypeInv

LEMMA DecidedType ==
    ASSUME NEW w \in Workflow, NEW d \in Decisions, NEW u \in User, NEW v \in 1 .. 2
    PROVE  [w EXCEPT !.status = d, !.version = v, !.reviewed_by = u] \in Workflow
  BY DEF Workflow, Decisions

LEMMA TypeInvStep == TypeInv /\ [Next]_vars => TypeInv'
<1> SUFFICES ASSUME TypeInv, [Next]_vars PROVE TypeInv'
  OBVIOUS
<1>1. ASSUME NEW c \in Call, NEW k \in Key \cup {NoKey}, NEW i \in Invoice,
             IngestCheck(c, k, i)
      PROVE  TypeInv'
  <2> DEFINE state == [Blank EXCEPT !.key = k, !.body = i]
  <2>1. state \in CallState /\ state.body = i
    BY BlankType DEF Body, Blank
  <2>2. Goto(c, "ingest", state) /\ UNCHANGED <<txs, runs, workflow, idem>>
    BY <1>1 DEF IngestCheck
  <2> HIDE DEF state
  <2>3. CallFits(c)'
    BY <2>1, <2>2, GotoType DEF TypeInv, CallFits
  <2> QED
    BY <2>1, <2>2, <2>3, CallStep
<1>2. ASSUME NEW c \in Call, IngestCommit(c) PROVE TypeInv'
  <2> DEFINE x == [id |-> Cardinality(txs) + 1, invoice |-> call[c].body,
                   key |-> call[c].key]
  <2>1. Goto(c, "idle", Blank) /\ UNCHANGED <<runs, workflow>>
    BY <1>2 DEF IngestCommit, Return
  <2>2. x \in Tx /\ x.id = Cardinality(txs) + 1
    <3>1. Cardinality(txs) \in Nat /\ Cardinality(txs) < MaxTx
      BY <1>2, FS_CardinalityType DEF IngestCommit, TypeInv, IdsInOrder
    <3>2. call[c].body \in Invoice /\ call[c].key \in Key \cup {NoKey}
      BY <1>2 DEF IngestCommit, TypeInv, TypeOK, CallFits, CallState
    <3> QED
      BY <3>1, <3>2, TaxAssumption DEF Tx, TxId
  <2>3. txs' = txs \cup {x}
    BY <1>2 DEF IngestCommit
  <2> HIDE DEF x
  <2>4. IdsInOrder'
    <3>1. /\ Cardinality(txs) \in Nat
          /\ IsFiniteSet(txs')
          /\ Cardinality(txs') = Cardinality(txs) + 1
      BY <2>2, <2>3, NextId
    <3>2. \A y \in txs : y.id \in Nat /\ y.id <= Cardinality(txs)
      BY DEF TypeInv, TypeOK, IdsInOrder, Tx, TxId
    <3> QED
      BY <2>2, <2>3, <3>1, <3>2 DEF IdsInOrder
  <2>5. /\ idem' \in [Operation -> [Key -> Record \cup {None}]]
        /\ \A k \in Key : idem'["tax.run_rules"][k] = idem["tax.run_rules"][k]
    <3>1. call[c].body \in Body /\ call[c].key \in Key \cup {NoKey}
      BY <1>2 DEF IngestCommit, TypeInv, TypeOK, CallFits, CallState, Body
    <3>2. CASE call[c].key = NoKey
      BY <1>2, <3>2 DEF IngestCommit, Stored, TypeInv, TypeOK, Operation
    <3>3. CASE call[c].key # NoKey
      <4>1. [body |-> call[c].body, run |-> NoRun] \in Record
        BY <3>1 DEF Record
      <4>2. idem' = [idem EXCEPT !["tax.ingest"][call[c].key] =
                        [body |-> call[c].body, run |-> NoRun]]
        BY <1>2, <3>3 DEF IngestCommit, Stored
      <4> QED
        BY <3>1, <3>3, <4>1, <4>2 DEF TypeInv, TypeOK, Operation
    <3> QED
      BY <3>2, <3>3
  <2>6. TypeOK'
    BY <2>1, <2>2, <2>3, <2>5, GotoType, BlankType DEF TypeInv, TypeOK
  <2>7. \A d \in Call : CallFits(d)'
    BY <2>1, ReturnType DEF TypeInv, CallFits
  <2>8. \A k \in Key : RecordFits(k)'
    BY <2>1, <2>5 DEF TypeInv, RecordFits
  <2> QED
    BY <2>4, <2>6, <2>7, <2>8 DEF TypeInv
<1>3. ASSUME NEW c \in Call, NEW u \in User, NEW k \in Key \cup {NoKey}, NEW p \in Pack,
             RunCheck(c, u, k, p)
      PROVE  TypeInv'
  <2> DEFINE state == [Blank EXCEPT !.user = u, !.key = k, !.body = p]
  <2>1. state \in CallState /\ state.body = p /\ state.user = u
    BY BlankType DEF Body, Blank
  <2>2. Goto(c, "run", state) /\ UNCHANGED <<txs, runs, workflow, idem>>
    BY <1>3 DEF RunCheck
  <2> HIDE DEF state
  <2>3. CallFits(c)'
    BY <2>1, <2>2, GotoType DEF TypeInv, CallFits
  <2> QED
    BY <2>1, <2>2, <2>3, CallStep
<1>4. ASSUME NEW c \in Call, NEW u \in User, NEW k \in Key \cup {NoKey}, NEW p \in Pack,
             RunReplay(c, u, k, p)
      PROVE  TypeInv'
  <2> DEFINE run == idem["tax.run_rules"][k].run
             state == [Blank EXCEPT !.user = u, !.body = p, !.run = run]
  <2>1. k \in Key /\ idem["tax.run_rules"][k] # None
        /\ idem["tax.run_rules"][k].body = p /\ Recorded("tax.run_rules", k).run = run
    BY <1>4 DEF RunReplay, SameRequest, Recorded
  <2>2. run \in RunId /\ runs[run] # None /\ runs[run].pack = p
    BY <2>1 DEF TypeInv, RecordFits
  <2>3. Goto(c, "ran", state) /\ UNCHANGED <<txs, runs, workflow, idem>>
    BY <1>4, <2>1 DEF RunReplay
  <2> HIDE DEF run
  <2>4. state \in CallState /\ state.body = p /\ state.user = u /\ state.run = run
    BY <2>2, BlankType DEF Body, Blank
  <2> HIDE DEF state
  <2>5. CallFits(c)'
    BY <2>2, <2>3, <2>4, GotoType DEF TypeInv, CallFits
  <2> QED
    BY <2>3, <2>4, <2>5, CallStep
<1>5. ASSUME NEW c \in Call, ReadRows(c) PROVE TypeInv'
  <2> DEFINE ids == {x.id : x \in txs}
             state == [call[c] EXCEPT !.rows = ids]
  <2>1. state \in CallState /\ state.user = call[c].user /\ state.body = call[c].body
    <3>1. ids \subseteq TxId /\ call[c] \in CallState
      BY DEF TypeInv, TypeOK, Tx
    <3> HIDE DEF ids
    <3> QED
      BY <3>1 DEF CallState
  <2>2. Goto(c, "duplicates", state) /\ UNCHANGED <<txs, runs, workflow, idem>>
        /\ pc[c] = "run"
    BY <1>5 DEF ReadRows
  <2> HIDE DEF state
  <2>3. CallFits(c)'
    BY <2>1, <2>2, GotoType DEF TypeInv, CallFits
  <2> QED
    BY <2>1, <2>2, <2>3, CallStep
<1>6. ASSUME NEW c \in Call, ReadDuplicates(c) PROVE TypeInv'
  <2> DEFINE state == [call[c] EXCEPT !.flagged = call[c].rows \cap DuplicateIds]
  <2>1. state \in CallState /\ state.user = call[c].user /\ state.body = call[c].body
    BY DEF TypeInv, TypeOK, CallState
  <2>2. Goto(c, "store", state) /\ UNCHANGED <<txs, runs, workflow, idem>>
        /\ pc[c] = "duplicates"
    BY <1>6 DEF ReadDuplicates
  <2> HIDE DEF state
  <2>3. CallFits(c)'
    BY <2>1, <2>2, GotoType DEF TypeInv, CallFits
  <2> QED
    BY <2>1, <2>2, <2>3, CallStep
<1>7. ASSUME NEW c \in Call, RunCommit(c) PROVE TypeInv'
  <2>1. PICK r \in RunId :
          /\ runs[r] = None
          /\ runs' = [runs EXCEPT ![r] = RunOf(c)]
          /\ idem' = Stored("tax.run_rules", call[c].key, call[c].body, r)
          /\ Goto(c, "ran", [Blank EXCEPT !.user = call[c].user, !.body = call[c].body,
                                          !.run = r])
    BY <1>7 DEF RunCommit
  <2> DEFINE state == [Blank EXCEPT !.user = call[c].user, !.body = call[c].body, !.run = r]
  <2>2. /\ call[c].user \in User /\ call[c].body \in Pack /\ call[c].body \in Body
        /\ call[c].key \in Key \cup {NoKey} /\ call[c] \in CallState
        /\ UNCHANGED <<txs, workflow>>
    BY <1>7 DEF RunCommit, TypeInv, TypeOK, CallFits, CallState, Body
  <2>3. RunOf(c) \in Run /\ RunOf(c) # None /\ RunOf(c).pack = call[c].body
    BY <2>2, NoneAssumption DEF RunOf, Run, CallState
  <2>4. /\ runs' \in [RunId -> Run \cup {None}]
        /\ runs'[r] = RunOf(c)
        /\ \A s \in RunId : runs[s] # None => runs'[s] = runs[s]
    BY <2>1, <2>3 DEF TypeInv, TypeOK
  <2>5. state \in CallState /\ state.user = call[c].user /\ state.body = call[c].body
        /\ state.run = r
    BY <2>2, BlankType DEF Blank
  <2>6. Goto(c, "ran", state)
    BY <2>1
  <2> HIDE DEF state
  <2>7. /\ idem' \in [Operation -> [Key -> Record \cup {None}]]
        /\ \A k \in Key : \/ idem'["tax.run_rules"][k] = idem["tax.run_rules"][k]
                          \/ idem'["tax.run_rules"][k] =
                                [body |-> call[c].body, run |-> r]
    <3>1. CASE call[c].key = NoKey
      BY <2>1, <3>1 DEF Stored, TypeInv, TypeOK, Operation
    <3>2. CASE call[c].key # NoKey
      <4>1. [body |-> call[c].body, run |-> r] \in Record
        BY <2>2 DEF Record
      <4>2. idem' = [idem EXCEPT !["tax.run_rules"][call[c].key] =
                        [body |-> call[c].body, run |-> r]]
        BY <2>1, <3>2 DEF Stored
      <4> QED
        BY <2>2, <3>2, <4>1, <4>2 DEF TypeInv, TypeOK, Operation
    <3> QED
      BY <3>1, <3>2
  <2>8. TypeOK'
    BY <2>2, <2>4, <2>5, <2>6, <2>7, GotoType DEF TypeInv, TypeOK
  <2>9. \A d \in Call : CallFits(d)'
    <3>1. CallFits(c)'
      BY <2>2, <2>3, <2>4, <2>5, <2>6, GotoType DEF TypeInv, CallFits
    <3>2. \A d \in Call \ {c} : CallFits(d)'
      BY <2>2, <2>4, <2>5, <2>6, GotoType DEF TypeInv, CallFits
    <3> QED
      BY <3>1, <3>2
  <2>10. \A k \in Key : RecordFits(k)'
    BY <2>3, <2>4, <2>7 DEF TypeInv, RecordFits
  <2> QED
    BY <2>2, <2>8, <2>9, <2>10 DEF TypeInv, IdsInOrder
<1>8. ASSUME NEW c \in Call, ReadWorkflow(c) PROVE TypeInv'
  <2>1. CASE Goto(c, "request", call[c])
    <3>1. pc[c] = "ran" /\ call[c] \in CallState /\ UNCHANGED <<txs, runs, workflow, idem>>
      BY <1>8 DEF ReadWorkflow, TypeInv, TypeOK
    <3>2. CallFits(c)'
      BY <2>1, <3>1, GotoType DEF TypeInv, CallFits
    <3> QED
      BY <2>1, <3>1, <3>2, CallStep
  <2>2. CASE Goto(c, "idle", Blank)
    <3>1. CallFits(c)'
      BY <2>2, ReturnType DEF TypeInv, CallFits
    <3> QED
      BY <1>8, <2>2, <3>1, BlankType, CallStep DEF ReadWorkflow
  <2> QED
    BY <1>8, <2>1, <2>2 DEF ReadWorkflow, Return
<1>9. ASSUME NEW c \in Call, RequestReview(c) PROVE TypeInv'
  <2>1. Goto(c, "idle", Blank) /\ UNCHANGED <<txs, runs, idem>>
    BY <1>9 DEF RequestReview, Return
  <2>2. /\ workflow' \in [RunId -> Workflow \cup {None}]
        /\ \A r \in RunId : workflow[r] # None => workflow'[r] = workflow[r]
    BY <1>9 DEF RequestReview, TypeInv, TypeOK, CallFits, Workflow
  <2>3. TypeOK'
    BY <2>1, <2>2, ReturnType DEF TypeInv, TypeOK
  <2>4. \A d \in Call : CallFits(d)'
    BY <2>1, <2>2, ReturnType DEF TypeInv, CallFits
  <2> QED
    BY <2>1, <2>3, <2>4 DEF TypeInv, IdsInOrder, RecordFits
<1>10. ASSUME NEW c \in Call, NEW u \in User, NEW r \in RunId, ReviewRead(c, u, r)
       PROVE  TypeInv'
  <2> DEFINE state == [Blank EXCEPT !.user = u, !.run = r]
  <2>1. state \in CallState /\ state.user = u /\ state.run = r
    BY BlankType DEF Blank
  <2>2. Goto(c, "review", state) /\ UNCHANGED <<txs, runs, workflow, idem>>
        /\ workflow[r] # None
    BY <1>10 DEF ReviewRead
  <2> HIDE DEF state
  <2>3. CallFits(c)'
    BY <2>1, <2>2, GotoType DEF TypeInv, CallFits
  <2> QED
    BY <2>1, <2>2, <2>3, CallStep
<1>11. ASSUME NEW c \in Call, ReviewWrite(c) PROVE TypeInv'
  <2>1. Goto(c, "idle", Blank) /\ UNCHANGED <<txs, runs, idem>>
    BY <1>11 DEF ReviewWrite, Return
  <2>2. /\ workflow' \in [RunId -> Workflow \cup {None}]
        /\ \A r \in RunId : workflow[r] # None => workflow'[r] # None
    <3>1. CASE UNCHANGED workflow
      BY <3>1 DEF TypeInv, TypeOK
    <3>2. ASSUME NEW d \in Decisions,
                 workflow' = [workflow EXCEPT
                               ![call[c].run] = [@ EXCEPT !.status = d, !.version = 2,
                                                          !.reviewed_by = call[c].user]]
          PROVE  /\ workflow' \in [RunId -> Workflow \cup {None}]
                 /\ \A r \in RunId : workflow[r] # None => workflow'[r] # None
      <4>1. call[c].user \in User /\ call[c].run \in RunId
            /\ workflow[call[c].run] \in Workflow
        BY <1>11 DEF ReviewWrite, TypeInv, TypeOK, CallFits
      <4>2. [workflow[call[c].run] EXCEPT !.status = d, !.version = 2,
                                          !.reviewed_by = call[c].user] \in Workflow
        BY <4>1, 2 \in 1 .. 2, DecidedType
      <4> QED
        BY <3>2, <4>1, <4>2, NoneAssumption DEF TypeInv, TypeOK
    <3> QED
      BY <1>11, <3>1, <3>2 DEF ReviewWrite
  <2>3. TypeOK'
    BY <2>1, <2>2, ReturnType DEF TypeInv, TypeOK
  <2>4. \A d \in Call : CallFits(d)'
    BY <2>1, <2>2, ReturnType DEF TypeInv, CallFits
  <2> QED
    BY <2>1, <2>3, <2>4 DEF TypeInv, IdsInOrder, RecordFits
<1>12. ASSUME NEW c \in Call, RollBack(c) PROVE TypeInv'
  <2>1. Goto(c, "idle", Blank) /\ UNCHANGED <<txs, runs, workflow, idem>>
    BY <1>12 DEF RollBack, Return
  <2>2. CallFits(c)'
    BY <2>1, ReturnType DEF TypeInv, CallFits
  <2> QED
    BY <2>1, <2>2, BlankType, CallStep
<1>13. CASE UNCHANGED vars
  BY <1>13 DEF vars, TypeInv, TypeOK, IdsInOrder, CallFits, RecordFits
<1> QED
  BY <1>1, <1>2, <1>3, <1>4, <1>5, <1>6, <1>7, <1>8, <1>9, <1>10, <1>11, <1>12, <1>13
     DEF Next

\* Every variable keeps its type (the rows of models.py, the state of a request).
THEOREM TypeCorrect == Spec => []TypeOK
<1>1. TypeInv => TypeOK
  BY DEF TypeInv
<1> QED
  BY <1>1, TypeInvInit, TypeInvStep, PTL DEF Spec

----------------------------------------------------------------------------
(* One effect per key.                                                     *)

\* Nothing but the two commits writes transactions, runs or records.
LEMMA OnlyCommitsWrite ==
    ASSUME [Next]_vars
    PROVE  \/ \E c \in Call : IngestCommit(c) \/ RunCommit(c)
           \/ UNCHANGED <<txs, runs, idem>>
<1> DEFINE Kept == UNCHANGED <<txs, runs, idem>>
<1>1. ASSUME NEW c \in Call
      PROVE  /\ \A k \in Key \cup {NoKey}, i \in Invoice : IngestCheck(c, k, i) => Kept
             /\ \A u \in User, k \in Key \cup {NoKey}, p \in Pack :
                   RunCheck(c, u, k, p) \/ RunReplay(c, u, k, p) => Kept
             /\ ReadRows(c) \/ ReadDuplicates(c) => Kept
  BY DEF IngestCheck, RunCheck, RunReplay, ReadRows, ReadDuplicates
<1>2. ASSUME NEW c \in Call
      PROVE  /\ ReadWorkflow(c) \/ RequestReview(c) => Kept
             /\ \A u \in User, r \in RunId : ReviewRead(c, u, r) => Kept
             /\ ReviewWrite(c) \/ RollBack(c) => Kept
  BY DEF ReadWorkflow, RequestReview, ReviewRead, ReviewWrite, RollBack
<1>3. UNCHANGED vars => Kept
  BY DEF vars
<1> HIDE DEF Kept
<1>4. (\E c \in Call : IngestCommit(c) \/ RunCommit(c)) \/ Kept
  BY <1>1, <1>2, <1>3 DEF Next
<1> QED
  BY <1>4 DEF Kept

IngestedBy(k) == {x \in txs : x.key = k}
RunsBy(k) == {r \in RunId : runs[r] # None /\ runs[r].key = k}

\* The two halves of OneEffectPerKey.
OneBatch(k) == Cardinality(IngestedBy(k)) = IF idem["tax.ingest"][k] = None THEN 0 ELSE 1
OneRun(k) ==
    RunsBy(k) = IF idem["tax.run_rules"][k] = None THEN {}
                ELSE {idem["tax.run_rules"][k].run}

\* An ingest of the key leaves one batch where there was none.
LEMMA OneBatchStep ==
    ASSUME TypeInv, NEW k \in Key, OneBatch(k), NEW c \in Call, IngestCommit(c)
    PROVE  OneBatch(k)'
<1> DEFINE x == [id |-> Cardinality(txs) + 1, invoice |-> call[c].body,
                 key |-> call[c].key]
<1>1. /\ txs' = txs \cup {x} /\ x.key = call[c].key
      /\ call[c].key \in Key \cup {NoKey} /\ call[c].body \in Body
      /\ Recorded("tax.ingest", call[c].key) = None
      /\ idem' = Stored("tax.ingest", call[c].key, call[c].body, NoRun)
  BY DEF IngestCommit, TypeInv, TypeOK, CallFits, CallState, Body
<1> HIDE DEF x
<1>2. IsFiniteSet(IngestedBy(k))
  BY FS_Subset DEF IngestedBy, TypeInv, IdsInOrder
<1>3. CASE call[c].key = k
  <2>1. k # NoKey /\ idem["tax.ingest"][k] = None
    BY <1>1, <1>3, TaxAssumption DEF Recorded
  <2>2. IngestedBy(k) = {}
    BY <1>2, <2>1, FS_EmptySet DEF OneBatch
  <2>3. IngestedBy(k)' = {x}
    BY <1>1, <1>3, <2>2 DEF IngestedBy
  <2>4. Cardinality(IngestedBy(k)') = 1
    BY <2>3, FS_Singleton
  <2>5. idem'["tax.ingest"][k] = [body |-> call[c].body, run |-> NoRun]
    BY <1>1, <1>3, <2>1 DEF Stored, TypeInv, TypeOK, Operation
  <2>6. idem'["tax.ingest"][k] # None
    BY <1>1, <2>5, NoneAssumption DEF Record
  <2> QED
    BY <2>4, <2>6 DEF OneBatch
<1>4. CASE call[c].key # k
  <2>1. IngestedBy(k)' = IngestedBy(k)
    BY <1>1, <1>4 DEF IngestedBy
  <2>2. idem'["tax.ingest"][k] = idem["tax.ingest"][k]
    BY <1>1, <1>4 DEF Stored, TypeInv, TypeOK, Operation
  <2> QED
    BY <2>1, <2>2 DEF OneBatch
<1> QED
  BY <1>3, <1>4

\* A run under the key is the one its record names.
LEMMA OneRunStep ==
    ASSUME TypeInv, NEW k \in Key, OneRun(k), NEW c \in Call, RunCommit(c)
    PROVE  OneRun(k)'
<1>1. PICK r \in RunId :
        /\ runs[r] = None
        /\ runs' = [runs EXCEPT ![r] = RunOf(c)]
        /\ idem' = Stored("tax.run_rules", call[c].key, call[c].body, r)
  BY DEF RunCommit
<1>2. /\ call[c].key \in Key \cup {NoKey} /\ call[c].body \in Body
      /\ Recorded("tax.run_rules", call[c].key) = None
      /\ call[c] \in CallState /\ call[c].body \in Pack
  BY DEF RunCommit, TypeInv, TypeOK, CallFits, CallState, Body
<1>3. RunOf(c) # None /\ RunOf(c).key = call[c].key
  BY <1>2, NoneAssumption DEF RunOf, Run, CallState
<1>4. runs'[r] = RunOf(c) /\ \A s \in RunId \ {r} : runs'[s] = runs[s]
  BY <1>1 DEF TypeInv, TypeOK
<1>5. CASE call[c].key = k
  <2>1. k # NoKey /\ idem["tax.run_rules"][k] = None
    BY <1>2, <1>5, TaxAssumption DEF Recorded
  <2>2. RunsBy(k)' = {r}
    BY <1>3, <1>4, <1>5, <2>1 DEF OneRun, RunsBy
  <2>3. idem'["tax.run_rules"][k] = [body |-> call[c].body, run |-> r]
    BY <1>1, <1>5, <2>1 DEF Stored, TypeInv, TypeOK, Operation
  <2>4. idem'["tax.run_rules"][k] # None /\ idem'["tax.run_rules"][k].run = r
    BY <1>2, <2>3, NoneAssumption DEF Record
  <2> QED
    BY <2>2, <2>4 DEF OneRun
<1>6. CASE call[c].key # k
  <2>1. RunsBy(k)' = RunsBy(k)
    BY <1>1, <1>3, <1>4, <1>6 DEF RunsBy
  <2>2. idem'["tax.run_rules"][k] = idem["tax.run_rules"][k]
    BY <1>1, <1>2, <1>6 DEF Stored, TypeInv, TypeOK, Operation
  <2> QED
    BY <2>1, <2>2 DEF OneRun
<1> QED
  BY <1>5, <1>6

\* A key has one batch and one run, and its record names the run, however calls
\* with the key overlap, fail and are repeated (_store_idempotent_response).
THEOREM OneEffectAlways == Spec => []OneEffectPerKey
<1> DEFINE Inv == \A k \in Key : OneBatch(k) /\ OneRun(k)
<1>1. Init => Inv
  <2> SUFFICES ASSUME Init, NEW k \in Key PROVE OneBatch(k) /\ OneRun(k)
    OBVIOUS
  <2>1. IngestedBy(k) = {} /\ RunsBy(k) = {} /\ \A op \in Operation : idem[op][k] = None
    BY DEF Init, IngestedBy, RunsBy
  <2> QED
    BY <2>1, FS_EmptySet DEF OneBatch, OneRun, Operation
<1>2. TypeInv /\ Inv /\ [Next]_vars => Inv'
  <2> SUFFICES ASSUME TypeInv, Inv, [Next]_vars, NEW k \in Key
               PROVE  OneBatch(k)' /\ OneRun(k)'
    OBVIOUS
  <2>1. OneBatch(k) /\ OneRun(k)
    OBVIOUS
  <2> HIDE DEF Inv
  <2>2. ASSUME NEW c \in Call, IngestCommit(c) PROVE OneBatch(k)' /\ OneRun(k)'
    <3>1. idem'["tax.run_rules"] = idem["tax.run_rules"] /\ runs' = runs
      BY <2>2 DEF IngestCommit, Stored, TypeInv, TypeOK, Operation
    <3> QED
      BY <2>1, <2>2, <3>1, OneBatchStep DEF OneRun, RunsBy
  <2>3. ASSUME NEW c \in Call, RunCommit(c) PROVE OneBatch(k)' /\ OneRun(k)'
    <3>1. idem'["tax.ingest"] = idem["tax.ingest"] /\ txs' = txs
      BY <2>3 DEF RunCommit, Stored, TypeInv, TypeOK, Operation
    <3> QED
      BY <2>1, <2>3, <3>1, OneRunStep DEF OneBatch, IngestedBy
  <2>4. CASE UNCHANGED <<txs, runs, idem>>
    BY <2>1, <2>4 DEF OneBatch, IngestedBy, OneRun, RunsBy
  <2> QED
    BY <2>2, <2>3, <2>4, OnlyCommitsWrite
<1>3. Inv => OneEffectPerKey
  BY DEF OneEffectPerKey, OneBatch, IngestedBy, OneRun, RunsBy
<1> QED
  BY <1>1, <1>2, <1>3, TypeInvInit, TypeInvStep, PTL DEF Spec

\* A call is answered with a run of the pack it asked for (run_rules).
THEOREM AnswerAlwaysFits == Spec => []AnswerFitsRequest
<1>1. TypeInv => AnswerFitsRequest
  BY DEF TypeInv, CallFits, AnswerFitsRequest
<1> QED
  BY <1>1, TypeInvInit, TypeInvStep, PTL DEF Spec

----------------------------------------------------------------------------
(* Keys on PostgreSQL.                                                     *)

\* A call in a keyed transaction holds the advisory lock of its key.
LockHeld ==
    \A c, d \in Call, op \in Operation :
        c # d /\ call[c].key # NoKey /\ call[c].key = call[d].key =>
            ~(pc[c] \in InTransaction(op) /\ pc[d] \in InTransaction(op))

KeyInv == dialect = "postgresql" => LockHeld /\ NoKeyConflict

\* A step of call c that enters a transaction through the lock, stays in the one
\* it is in, or leaves it, perhaps with its key recorded.
LEMMA KeyStep ==
    ASSUME TypeInv, KeyInv, NEW c \in Call, dialect' = dialect,
           \A d \in Call \ {c} : pc'[d] = pc[d] /\ call'[d] = call[d],
           call[c].key \in Key \cup {NoKey},
           \A op \in Operation : pc'[c] \in InTransaction(op) =>
              /\ idem' = idem
              /\ \/ KeyLockFree(c, op, call'[c].key) /\ Recorded(op, call'[c].key) = None
                 \/ pc[c] \in InTransaction(op) /\ call'[c].key = call[c].key,
           \A op \in Operation, k \in Key :
              idem'[op][k] # idem[op][k] => pc[c] \in InTransaction(op) /\ call[c].key = k
    PROVE  KeyInv'
<1> SUFFICES ASSUME dialect = "postgresql" PROVE LockHeld' /\ NoKeyConflict'
  BY DEF KeyInv
<1>1. LockHeld /\ NoKeyConflict
  BY DEF KeyInv
<1>2. LockHeld'
  <2> SUFFICES ASSUME NEW d \in Call \ {c}, NEW op \in Operation,
                      call'[c].key # NoKey, call'[c].key = call[d].key,
                      pc'[c] \in InTransaction(op), pc[d] \in InTransaction(op)
               PROVE  FALSE
    BY <1>1 DEF LockHeld, InTransaction
  <2>1. CASE KeyLockFree(c, op, call'[c].key)
    BY <2>1 DEF KeyLockFree
  <2>2. CASE pc[c] \in InTransaction(op) /\ call'[c].key = call[c].key
    BY <1>1, <2>2 DEF LockHeld
  <2> QED
    BY <2>1, <2>2
<1>3. NoKeyConflict'
  <2> SUFFICES ASSUME NEW d \in Call, NEW op \in Operation, pc'[d] \in InTransaction(op)
               PROVE  Recorded(op, call[d].key)' = None
    BY DEF NoKeyConflict, InTransaction
  <2>1. CASE d = c
    BY <1>1, <2>1 DEF NoKeyConflict, Recorded
  <2>2. CASE d # c
    <3>1. pc[d] \in InTransaction(op) /\ call'[d].key = call[d].key
          /\ Recorded(op, call[d].key) = None
      BY <1>1, <2>2 DEF NoKeyConflict
    <3>2. CASE call[d].key = NoKey
      BY <3>1, <3>2 DEF Recorded
    <3>3. CASE call[d].key # NoKey
      <4>1. call[d].key \in Key
        BY <3>3 DEF TypeInv, TypeOK, CallState
      <4>2. idem'[op][call[d].key] = idem[op][call[d].key]
        BY <1>1, <2>2, <3>1, <3>3, <4>1 DEF LockHeld
      <4> QED
        BY <3>1, <3>3, <4>2 DEF Recorded
    <3> QED
      BY <3>2, <3>3
  <2> QED
    BY <2>1, <2>2
<1> QED
  BY <1>2, <1>3

LEMMA KeyInvStep == TypeInv /\ KeyInv /\ [Next]_vars => KeyInv'
<1> SUFFICES ASSUME TypeInv, KeyInv, [Next]_vars PROVE KeyInv'
  OBVIOUS
<1>0. \A c \in Call : call[c].key \in Key \cup {NoKey} /\ call[c].body \in Body \cup {None}
  BY DEF TypeInv, TypeOK, CallState
<1>1. ASSUME NEW c \in Call, NEW k \in Key \cup {NoKey}, NEW i \in Invoice,
             IngestCheck(c, k, i)
      PROVE  KeyInv'
  <2> DEFINE state == [Blank EXCEPT !.key = k, !.body = i]
  <2>1. state \in CallState /\ state.key = k
    BY BlankType DEF Body, Blank
  <2>2. Goto(c, "ingest", state) /\ UNCHANGED <<idem, dialect>>
        /\ KeyLockFree(c, "tax.ingest", k) /\ Recorded("tax.ingest", k) = None
    BY <1>1 DEF IngestCheck, Goto
  <2> HIDE DEF state
  <2>3. /\ pc'[c] = "ingest" /\ call'[c].key = k
        /\ \A d \in Call \ {c} : pc'[d] = pc[d] /\ call'[d] = call[d]
    BY <2>1, <2>2, GotoType DEF TypeInv
  <2>4. \A op \in Operation : pc'[c] \in InTransaction(op) => op = "tax.ingest"
    BY <2>3 DEF InTransaction, Operation
  <2> QED
    BY <1>0, <2>2, <2>3, <2>4, KeyStep
<1>2. ASSUME NEW c \in Call, IngestCommit(c) PROVE KeyInv'
  <2>1. Goto(c, "idle", Blank) /\ dialect' = dialect /\ pc[c] \in InTransaction("tax.ingest")
    BY <1>2 DEF IngestCommit, Return, Goto, InTransaction
  <2>2. /\ pc'[c] = "idle"
        /\ \A d \in Call \ {c} : pc'[d] = pc[d] /\ call'[d] = call[d]
    BY <2>1, ReturnType
  <2>3. \A op \in Operation : pc'[c] \notin InTransaction(op)
    BY <2>2 DEF InTransaction
  <2>4. \A op \in Operation, k \in Key :
           idem'[op][k] # idem[op][k] => op = "tax.ingest" /\ call[c].key = k
    BY <1>2 DEF IngestCommit, Stored, TypeInv, TypeOK
  <2> QED
    BY <1>0, <2>1, <2>2, <2>3, <2>4, KeyStep
<1>3. ASSUME NEW c \in Call, NEW u \in User, NEW k \in Key \cup {NoKey}, NEW p \in Pack,
             RunCheck(c, u, k, p)
      PROVE  KeyInv'
  <2> DEFINE state == [Blank EXCEPT !.user = u, !.key = k, !.body = p]
  <2>1. state \in CallState /\ state.key = k
    BY BlankType DEF Body, Blank
  <2>2. Goto(c, "run", state) /\ UNCHANGED <<idem, dialect>>
        /\ KeyLockFree(c, "tax.run_rules", k) /\ Recorded("tax.run_rules", k) = None
    BY <1>3 DEF RunCheck, Goto
  <2> HIDE DEF state
  <2>3. /\ pc'[c] = "run" /\ call'[c].key = k
        /\ \A d \in Call \ {c} : pc'[d] = pc[d] /\ call'[d] = call[d]
    BY <2>1, <2>2, GotoType DEF TypeInv
  <2>4. \A op \in Operation : pc'[c] \in InTransaction(op) => op = "tax.run_rules"
    BY <2>3 DEF InTransaction, Operation
  <2> QED
    BY <1>0, <2>2, <2>3, <2>4, KeyStep
<1>4. ASSUME NEW c \in Call, ReadRows(c) \/ ReadDuplicates(c) PROVE KeyInv'
  <2>1. /\ UNCHANGED <<dialect, idem>>
        /\ {pc[c], pc'[c]} \subseteq {"run", "duplicates", "store"}
        /\ call'[c].key = call[c].key
        /\ \A d \in Call \ {c} : pc'[d] = pc[d] /\ call'[d] = call[d]
    BY <1>4 DEF ReadRows, ReadDuplicates, Goto, TypeInv, TypeOK, CallState
  <2>2. \A op \in Operation : pc'[c] \in InTransaction(op) => pc[c] \in InTransaction(op)
    BY <2>1 DEF InTransaction
  <2> QED
    BY <1>0, <2>1, <2>2, KeyStep
<1>5. ASSUME NEW c \in Call, RunCommit(c) PROVE KeyInv'
  <2>1. PICK r \in RunId :
          /\ idem' = Stored("tax.run_rules", call[c].key, call[c].body, r)
          /\ Goto(c, "ran", [Blank EXCEPT !.user = call[c].user, !.body = call[c].body,
                                          !.run = r])
    BY <1>5 DEF RunCommit
  <2>2. /\ pc'[c] = "ran" /\ dialect' = dialect
        /\ pc[c] \in InTransaction("tax.run_rules")
        /\ \A d \in Call \ {c} : pc'[d] = pc[d] /\ call'[d] = call[d]
    BY <1>5, <2>1 DEF RunCommit, Goto, TypeInv, TypeOK, InTransaction
  <2>3. \A op \in Operation : pc'[c] \notin InTransaction(op)
    BY <2>2 DEF InTransaction
  <2>4. \A op \in Operation, k \in Key :
           idem'[op][k] # idem[op][k] => op = "tax.run_rules" /\ call[c].key = k
    BY <2>1 DEF Stored, TypeInv, TypeOK
  <2> QED
    BY <1>0, <2>2, <2>3, <2>4, KeyStep
<1>6. ASSUME NEW c \in Call, NEW place \in {"ran", "idle", "request", "review"}, NEW state,
             Goto(c, place, state), idem' = idem
      PROVE  KeyInv'
  <2>1. /\ pc'[c] = place /\ dialect' = dialect
        /\ \A d \in Call \ {c} : pc'[d] = pc[d] /\ call'[d] = call[d]
    BY <1>6 DEF Goto, TypeInv, TypeOK
  <2>2. \A op \in Operation : pc'[c] \notin InTransaction(op)
    BY <2>1 DEF InTransaction
  <2> QED
    BY <1>0, <1>6, <2>1, <2>2, KeyStep
<1>7. ASSUME NEW c \in Call, NEW u \in User, NEW k \in Key \cup {NoKey}, NEW p \in Pack,
             RunReplay(c, u, k, p)
      PROVE  KeyInv'
  BY <1>6, <1>7 DEF RunReplay
<1>8. ASSUME NEW c \in Call,
             \/ ReadWorkflow(c) \/ RequestReview(c) \/ ReviewWrite(c) \/ RollBack(c)
             \/ \E u \in User, r \in RunId : ReviewRead(c, u, r)
      PROVE  KeyInv'
  BY <1>6, <1>8 DEF ReadWorkflow, RequestReview, ReviewWrite, RollBack, ReviewRead, Return
<1>9. CASE UNCHANGED vars
  BY <1>9 DEF vars, KeyInv, LockHeld, NoKeyConflict, Recorded
<1> QED
  BY <1>1, <1>2, <1>3, <1>4, <1>5, <1>7, <1>8, <1>9 DEF Next

\* On PostgreSQL no call gets to the primary key of a record that is taken: the
\* advisory lock makes of the later one a replay (_idempotent_response).
THEOREM KeysNeverConflict == Spec => []NoKeyConflict
<1>1. Init => KeyInv
  BY DEF Init, KeyInv, LockHeld, NoKeyConflict, InTransaction, Operation
<1>2. KeyInv => NoKeyConflict
  BY DEF KeyInv, NoKeyConflict
<1> QED
  BY <1>1, <1>2, KeyInvStep, TypeInvInit, TypeInvStep, PTL DEF Spec

----------------------------------------------------------------------------
(* Duplicates.                                                             *)

Ids == {x.id : x \in txs}

\* What NoMissedDuplicate says of one run's rows and flags.
Complete(rows, flagged) ==
    \A x, y \in txs :
        x.id # y.id /\ x.invoice = y.invoice /\ {x.id, y.id} \subseteq rows
            => {x.id, y.id} \subseteq flagged

\* A call has read ids that exist, and flagged the duplicates among them.
DuplicateInv ==
    /\ \A c \in Call :
          /\ pc[c] \in {"duplicates", "store"} => call[c].rows \subseteq Ids
          /\ pc[c] = "store" => Complete(call[c].rows, call[c].flagged)
    /\ \A r \in RunId : runs[r] # None =>
          runs[r].rows \subseteq Ids /\ Complete(runs[r].rows, runs[r].flagged)

\* A later transaction is none of the rows read before.
LEMMA IngestKeepsComplete ==
    ASSUME TypeInv, NEW c \in Call, IngestCommit(c), NEW rows, NEW flagged,
           rows \subseteq Ids, Complete(rows, flagged)
    PROVE  rows \subseteq Ids' /\ Complete(rows, flagged)'
<1> DEFINE x == [id |-> Cardinality(txs) + 1, invoice |-> call[c].body,
                 key |-> call[c].key]
<1>1. txs' = txs \cup {x} /\ x.id = Cardinality(txs) + 1
  BY DEF IngestCommit
<1> HIDE DEF x
<1>2. x.id \notin Ids
  BY <1>1, NextId DEF Ids
<1>3. x.id \notin rows
  BY <1>2
<1> QED
  BY <1>1, <1>3 DEF Ids, Complete

LEMMA DuplicateInvStep == TypeInv /\ DuplicateInv /\ [Next]_vars => DuplicateInv'
<1> SUFFICES ASSUME TypeInv, DuplicateInv, [Next]_vars PROVE DuplicateInv'
  OBVIOUS
\* A step of one call that is not to hold or commit a run's rows.
<1>1. ASSUME NEW c \in Call, pc'[c] \notin {"duplicates", "store"}, UNCHANGED <<txs, runs>>,
             \A d \in Call \ {c} : pc'[d] = pc[d] /\ call'[d] = call[d]
      PROVE  DuplicateInv'
  BY <1>1 DEF DuplicateInv, Ids, Complete
<1>2. ASSUME NEW c \in Call, IngestCommit(c) PROVE DuplicateInv'
  <2>1. /\ pc'[c] = "idle" /\ runs' = runs
        /\ \A d \in Call \ {c} : pc'[d] = pc[d] /\ call'[d] = call[d]
    BY <1>2, ReturnType DEF IngestCommit, Return
  <2>2. ASSUME NEW d \in Call
        PROVE  /\ pc'[d] \in {"duplicates", "store"} => call'[d].rows \subseteq Ids'
               /\ pc'[d] = "store" => Complete(call[d].rows, call[d].flagged)'
    <3>1. CASE pc'[d] = "duplicates"
      <4>1. d # c /\ pc[d] = "duplicates" /\ call'[d] = call[d]
        BY <2>1, <3>1
      <4>2. call[d].rows \subseteq Ids
        BY <4>1 DEF DuplicateInv
      <4>3. Ids \subseteq Ids'
        BY <1>2 DEF IngestCommit, Ids
      <4> QED
        BY <3>1, <4>1, <4>2, <4>3
    <3>2. CASE pc'[d] = "store"
      <4>1. d # c /\ pc[d] = "store" /\ call'[d] = call[d]
        BY <2>1, <3>2
      <4>2. call[d].rows \subseteq Ids /\ Complete(call[d].rows, call[d].flagged)
        BY <4>1 DEF DuplicateInv
      <4>3. PICK rows, flagged : rows = call[d].rows /\ flagged = call[d].flagged
        OBVIOUS
      <4>4. rows \subseteq Ids' /\ Complete(rows, flagged)'
        BY <1>2, <4>2, <4>3, IngestKeepsComplete
      <4> QED
        BY <4>1, <4>3, <4>4 DEF Complete
    <3> QED
      BY <3>1, <3>2
  <2>3. ASSUME NEW r \in RunId, runs'[r] # None
        PROVE  runs'[r].rows \subseteq Ids' /\ Complete(runs[r].rows, runs[r].flagged)'
    <3>1. runs[r].rows \subseteq Ids /\ Complete(runs[r].rows, runs[r].flagged)
      BY <2>1, <2>3 DEF DuplicateInv
    <3>2. PICK rows, flagged : rows = runs[r].rows /\ flagged = runs[r].flagged
      OBVIOUS
    <3>3. rows \subseteq Ids' /\ Complete(rows, flagged)'
      BY <1>2, <3>1, <3>2, IngestKeepsComplete
    <3> QED
      BY <2>1, <3>2, <3>3 DEF Complete
  <2> QED
    BY <2>2, <2>3 DEF DuplicateInv
<1>3. ASSUME NEW c \in Call, ReadRows(c) PROVE DuplicateInv'
  <2>1. /\ pc'[c] = "duplicates" /\ call'[c].rows = Ids /\ UNCHANGED <<txs, runs>>
        /\ \A d \in Call \ {c} : pc'[d] = pc[d] /\ call'[d] = call[d]
    BY <1>3 DEF ReadRows, Goto, TypeInv, TypeOK, CallState, Ids
  <2> QED
    BY <2>1 DEF DuplicateInv, Ids, Complete
<1>4. ASSUME NEW c \in Call, ReadDuplicates(c) PROVE DuplicateInv'
  <2>1. /\ pc[c] = "duplicates" /\ pc'[c] = "store" /\ UNCHANGED <<txs, runs>>
        /\ call'[c].rows = call[c].rows
        /\ call'[c].flagged = call[c].rows \cap DuplicateIds
        /\ \A d \in Call \ {c} : pc'[d] = pc[d] /\ call'[d] = call[d]
    BY <1>4 DEF ReadDuplicates, Goto, TypeInv, TypeOK, CallState
  <2>2. Complete(call[c].rows, call[c].rows \cap DuplicateIds)
    BY DEF Complete, DuplicateIds
  <2>3. call[c].rows \subseteq Ids
    BY <2>1 DEF DuplicateInv
  <2> QED
    BY <2>1, <2>2, <2>3 DEF DuplicateInv, Ids, Complete
<1>5. ASSUME NEW c \in Call, RunCommit(c) PROVE DuplicateInv'
  <2>1. PICK r \in RunId :
          /\ runs' = [runs EXCEPT ![r] = RunOf(c)]
          /\ Goto(c, "ran", [Blank EXCEPT !.user = call[c].user, !.body = call[c].body,
                                          !.run = r])
    BY <1>5 DEF RunCommit
  <2>2. /\ pc[c] = "store" /\ pc'[c] = "ran" /\ txs' = txs
        /\ \A d \in Call \ {c} : pc'[d] = pc[d] /\ call'[d] = call[d]
    BY <1>5, <2>1 DEF RunCommit, Goto, TypeInv, TypeOK
  <2>3. RunOf(c).rows = call[c].rows /\ RunOf(c).flagged = call[c].flagged
    BY DEF RunOf
  <2>4. runs'[r] = RunOf(c) /\ \A s \in RunId \ {r} : runs'[s] = runs[s]
    BY <2>1 DEF TypeInv, TypeOK
  <2> QED
    BY <2>2, <2>3, <2>4 DEF DuplicateInv, Ids, Complete
<1>6. ASSUME NEW c \in Call,
             NEW place \in {"ingest", "run", "ran", "idle", "request", "review"}, NEW state,
             Goto(c, place, state), UNCHANGED <<txs, runs>>
      PROVE  DuplicateInv'
  BY <1>1, <1>6 DEF Goto, TypeInv, TypeOK
<1>7. ASSUME NEW c \in Call,
             \/ \E k \in Key \cup {NoKey}, i \in Invoice : IngestCheck(c, k, i)
             \/ \E u \in User, k \in Key \cup {NoKey}, p \in Pack :
                   RunCheck(c, u, k, p) \/ RunReplay(c, u, k, p)
      PROVE  DuplicateInv'
  BY <1>6, <1>7 DEF IngestCheck, RunCheck, RunReplay
<1>8. ASSUME NEW c \in Call,
             \/ ReadWorkflow(c) \/ RequestReview(c) \/ ReviewWrite(c) \/ RollBack(c)
             \/ \E u \in User, r \in RunId : ReviewRead(c, u, r)
      PROVE  DuplicateInv'
  BY <1>6, <1>8 DEF ReadWorkflow, RequestReview, ReviewWrite, RollBack, ReviewRead, Return
<1>9. CASE UNCHANGED vars
  BY <1>9 DEF vars, DuplicateInv, Ids, Complete
<1> QED
  BY <1>2, <1>3, <1>4, <1>5, <1>7, <1>8, <1>9 DEF Next

\* No run misses a duplicate among the rows it counted, whatever is ingested between
\* the statements that read them (run_rules).
THEOREM DuplicatesNeverMissed == Spec => []NoMissedDuplicate
<1>1. Init => DuplicateInv
  BY DEF Init, DuplicateInv
<1>2. DuplicateInv => NoMissedDuplicate
  BY DEF DuplicateInv, Complete, NoMissedDuplicate
<1> QED
  BY <1>1, <1>2, DuplicateInvStep, TypeInvInit, TypeInvStep, PTL DEF Spec

----------------------------------------------------------------------------
(* Decisions.                                                              *)

\* Nothing but the INSERT of a missing row and the UPDATE of a pending one writes
\* the workflow.
LEMMA WorkflowStep ==
    ASSUME TypeInv, [Next]_vars, NEW r \in RunId, workflow'[r] # workflow[r]
    PROVE  \E c \in Call : call[c].run = r /\
              \/ /\ RequestReview(c)
                 /\ workflow[r] = None
                 /\ workflow'[r] = [requested_by |-> call[c].user, reviewed_by |-> NoUser,
                                    version |-> 1, status |-> "PENDING_REVIEW"]
              \/ /\ ReviewWrite(c)
                 /\ workflow[r] \in Workflow
                 /\ workflow[r].status = "PENDING_REVIEW"
                 /\ workflow'[r].reviewed_by = call[c].user
                 /\ workflow'[r].requested_by = workflow[r].requested_by
<1>1. PICK c \in Call : RequestReview(c) \/ ReviewWrite(c)
  <2>1. ASSUME NEW d \in Call
        PROVE  /\ \A k \in Key \cup {NoKey}, i \in Invoice : ~IngestCheck(d, k, i)
               /\ ~IngestCommit(d) /\ ~RunCommit(d) /\ ~RollBack(d)
    BY DEF IngestCheck, IngestCommit, RunCommit, RollBack
  <2>2. ASSUME NEW d \in Call
        PROVE  /\ \A u \in User, k \in Key \cup {NoKey}, p \in Pack :
                     ~RunCheck(d, u, k, p) /\ ~RunReplay(d, u, k, p)
               /\ ~ReadRows(d) /\ ~ReadDuplicates(d)
    BY DEF RunCheck, RunReplay, ReadRows, ReadDuplicates
  <2>3. ASSUME NEW d \in Call
        PROVE  ~ReadWorkflow(d) /\ \A u \in User, q \in RunId : ~ReviewRead(d, u, q)
    BY DEF ReadWorkflow, ReviewRead
  <2>4. ~UNCHANGED vars
    BY DEF vars
  <2> QED
    BY <2>1, <2>2, <2>3, <2>4 DEF Next
<1>2. CASE RequestReview(c)
  <2>1. /\ workflow[call[c].run] = None
        /\ workflow' = [workflow EXCEPT ![call[c].run] =
                           [requested_by |-> call[c].user, reviewed_by |-> NoUser,
                            version |-> 1, status |-> "PENDING_REVIEW"]]
    BY <1>2 DEF RequestReview
  <2> QED
    BY <1>2, <2>1 DEF TypeInv, TypeOK
<1>3. CASE ReviewWrite(c)
  <2>1. UpdateFindsRow(call[c].run)
    BY <1>3 DEF ReviewWrite
  <2>2. PICK d \in Decisions :
          workflow' = [workflow EXCEPT
                         ![call[c].run] = [@ EXCEPT !.status = d, !.version = 2,
                                                    !.reviewed_by = call[c].user]]
    BY <1>3, <2>1 DEF ReviewWrite
  <2>3. call[c].run = r
    BY <2>2 DEF TypeInv, TypeOK
  <2>4. workflow[r] \in Workflow
    BY <1>3, <2>3 DEF ReviewWrite, TypeInv, TypeOK, CallFits
  <2>5. workflow'[r] = [workflow[r] EXCEPT !.status = d, !.version = 2,
                                           !.reviewed_by = call[c].user]
    BY <2>2, <2>3 DEF TypeInv, TypeOK
  <2> QED
    BY <1>3, <2>1, <2>3, <2>4, <2>5 DEF UpdateFindsRow, Workflow
<1> QED
  BY <1>1, <1>2, <1>3

\* The first decision stands: no race and no stale read changes it (review_run).
THEOREM DecisionAlwaysFinal == Spec => DecisionIsFinal
<1>1. TypeInv /\ [Next]_vars => [\A r \in RunId : Final(r) => workflow'[r] = workflow[r]]_vars
  <2> SUFFICES ASSUME TypeInv, [Next]_vars, NEW r \in RunId, Final(r)
               PROVE  workflow'[r] = workflow[r]
    OBVIOUS
  <2> QED
    BY WorkflowStep DEF Final
<1> QED
  BY <1>1, TypeInvInit, TypeInvStep, PTL DEF Spec, DecisionIsFinal

\* A reviewer who got past the check is not the one who requested the review.
SeparateInv ==
    /\ \A c \in Call : pc[c] = "review" => workflow[call[c].run].requested_by # call[c].user
    /\ ReviewerIsAnother

LEMMA SeparateInvStep == TypeInv /\ SeparateInv /\ [Next]_vars => SeparateInv'
<1> SUFFICES ASSUME TypeInv, SeparateInv, [Next]_vars PROVE SeparateInv'
  OBVIOUS
<1>1. TypeInv'
  BY TypeInvStep
<1>2. \A r \in RunId : workflow[r] # None =>
         workflow'[r] # None /\ workflow'[r].requested_by = workflow[r].requested_by
  <2> SUFFICES ASSUME NEW r \in RunId, workflow[r] # None, workflow'[r] # workflow[r]
               PROVE  workflow'[r] # None
                      /\ workflow'[r].requested_by = workflow[r].requested_by
    OBVIOUS
  <2>1. PICK c \in Call : /\ ReviewWrite(c) /\ call[c].run = r
                          /\ workflow'[r].requested_by = workflow[r].requested_by
    BY WorkflowStep
  <2>2. PICK d \in Decisions :
          workflow' = [workflow EXCEPT ![r] = [@ EXCEPT !.status = d, !.version = 2,
                                                        !.reviewed_by = call[c].user]]
    BY <2>1 DEF ReviewWrite
  <2>3. workflow[r] \in Workflow /\ call[c].user \in User
    BY <2>1 DEF ReviewWrite, TypeInv, TypeOK, CallFits
  <2>4. workflow'[r] \in Workflow
    BY <2>2, <2>3, 2 \in 1 .. 2, DecidedType DEF TypeInv, TypeOK
  <2> QED
    BY <2>1, <2>4, NoneAssumption
<1>3. ASSUME NEW c \in Call, pc'[c] = "review"
      PROVE  workflow'[call'[c].run].requested_by # call'[c].user
  <2>1. CASE pc[c] = "review" /\ call'[c] = call[c]
    BY <1>2, <2>1 DEF SeparateInv, TypeInv, CallFits
  <2>2. CASE ~(pc[c] = "review" /\ call'[c] = call[c])
    <3>1. PICK u \in User, r \in RunId : ReviewRead(c, u, r)
      <4>1. ASSUME NEW d \in Call, NEW place \in {"ingest", "run", "duplicates", "store",
                                                  "ran", "idle", "request"},
                   NEW state, Goto(d, place, state)
            PROVE  FALSE
        BY <1>3, <2>2, <4>1 DEF Goto, TypeInv, TypeOK
      <4>2. ASSUME NEW d \in Call, NEW u \in User, NEW r \in RunId, ReviewRead(d, u, r)
            PROVE  d = c
        BY <1>3, <2>2, <4>2 DEF ReviewRead, Goto, TypeInv, TypeOK
      <4>3. ~UNCHANGED vars
        BY <1>3, <2>2 DEF vars
      <4>4. ASSUME NEW d \in Call
            PROVE  /\ \A k \in Key \cup {NoKey}, i \in Invoice : ~IngestCheck(d, k, i)
                   /\ ~IngestCommit(d) /\ ~RunCommit(d) /\ ~RollBack(d)
        BY <4>1 DEF IngestCheck, IngestCommit, RunCommit, RollBack, Return
      <4>5. ASSUME NEW d \in Call
            PROVE  /\ \A u \in User, k \in Key \cup {NoKey}, p \in Pack :
                        ~RunCheck(d, u, k, p) /\ ~RunReplay(d, u, k, p)
                   /\ ~ReadRows(d) /\ ~ReadDuplicates(d)
        BY <4>1 DEF RunCheck, RunReplay, ReadRows, ReadDuplicates
      <4>6. ASSUME NEW d \in Call
            PROVE  ~ReadWorkflow(d) /\ ~RequestReview(d) /\ ~ReviewWrite(d)
        BY <4>1 DEF ReadWorkflow, RequestReview, ReviewWrite, Return
      <4> QED
        BY <4>2, <4>3, <4>4, <4>5, <4>6 DEF Next
    <3>2. call'[c].user = u /\ call'[c].run = r /\ workflow' = workflow
          /\ workflow[r].requested_by # u
      BY <3>1 DEF ReviewRead, Goto, TypeInv, TypeOK, Blank
    <3> QED
      BY <3>2
  <2> QED
    BY <2>1, <2>2
<1>4. ReviewerIsAnother'
  <2> SUFFICES ASSUME NEW r \in RunId, Final(r)'
               PROVE  workflow'[r].reviewed_by # workflow'[r].requested_by
    BY DEF ReviewerIsAnother
  <2>1. CASE workflow'[r] = workflow[r]
    BY <2>1 DEF SeparateInv, ReviewerIsAnother, Final
  <2>2. CASE workflow'[r] # workflow[r]
    <3>1. workflow'[r].status # "PENDING_REVIEW"
      BY DEF Final
    <3>2. PICK c \in Call :
            /\ call[c].run = r
            /\ \/ workflow'[r] = [requested_by |-> call[c].user, reviewed_by |-> NoUser,
                                  version |-> 1, status |-> "PENDING_REVIEW"]
               \/ /\ ReviewWrite(c)
                  /\ workflow'[r].reviewed_by = call[c].user
                  /\ workflow'[r].requested_by = workflow[r].requested_by
      BY <2>2, WorkflowStep
    <3>3. /\ ReviewWrite(c)
          /\ workflow'[r].reviewed_by = call[c].user
          /\ workflow'[r].requested_by = workflow[r].requested_by
      BY <3>1, <3>2
    <3> QED
      BY <3>2, <3>3 DEF ReviewWrite, SeparateInv
  <2> QED
    BY <2>1, <2>2
<1> QED
  BY <1>3, <1>4 DEF SeparateInv

\* Whoever requested a review does not decide on it (request_review, review_run).
THEOREM ReviewerAlwaysAnother == Spec => []ReviewerIsAnother
<1>1. Init => SeparateInv
  BY DEF Init, SeparateInv, ReviewerIsAnother, Final
<1>2. SeparateInv => ReviewerIsAnother
  BY DEF SeparateInv
<1> QED
  BY <1>1, <1>2, SeparateInvStep, TypeInvInit, TypeInvStep, PTL DEF Spec

\* A decision on a review is another's than the requester's, and no later call,
\* however stale what it has read, takes it back or makes it again.
THEOREM DecisionAlwaysStands == Spec => DecisionStands
  BY DecisionAlwaysFinal, ReviewerAlwaysAnother, PTL DEF DecisionStands

=============================================================================
