---------------------------- MODULE MCSideBySide ----------------------------
(***************************************************************************)
(* The components that share no state with others here, one run for all:   *)
(* a behaviour picks a part and moves in it alone, so the states of the    *)
(* parts add up instead of multiplying.  The tables that the parts' inputs *)
(* come from are at the end.                                               *)
(***************************************************************************)
EXTENDS EventStream, RiskGraph, Operations, EvidenceExport, RegIntel,
        TaxRules, Admission, RequestMetrics, TLC

VARIABLE part

Part == {"stream", "graph", "metrics", "operations", "exports", "regulations",
         "rules", "admission", "requests"}

allVars == <<part, streamAllVars, graphVars, operationsVars, exportVars, regVars,
             rulesVars, admissionVars, requestVars>>

TypeOK ==
    /\ part \in Part
    /\ StreamTypeOK
    /\ GraphTypeOK
    /\ OperationsTypeOK
    /\ ExportTypeOK
    /\ RegTypeOK
    /\ RulesTypeOK
    /\ AdmissionTypeOK
    /\ RequestTypeOK

\* Parts whose inputs are chosen at the start need one of them elsewhere.
SomeRules ==
    /\ pack = CHOOSE p \in Pack : TRUE
    /\ taxRow = CHOOSE row \in TaxRow : TRUE
    /\ verdict = NoVerdict

SomeAdmission ==
    /\ head = FALSE
    /\ controls = [c \in Control |-> [status |-> Missing]]
    /\ used = {}
    /\ left = Control
    /\ errors = {}

Init ==
    /\ part \in Part
    /\ StreamInit
    /\ GraphInit
    /\ OperationsInit
    /\ ExportInit
    /\ RegInit
    /\ RequestInit
    /\ IF part = "rules" THEN RulesInit ELSE SomeRules
    /\ IF part = "admission" THEN AdmissionInit ELSE SomeAdmission

----------------------------------------------------------------------------
Stream ==
    /\ part = "stream"
    /\ StreamNext
    /\ UNCHANGED <<part, graphVars, operationsVars, exportVars, regVars, rulesVars,
                   admissionVars, requestVars>>

Graph ==
    /\ part = "graph"
    /\ GraphNext
    /\ UNCHANGED <<part, streamAllVars, operationsVars, exportVars, regVars,
                   rulesVars, admissionVars, requestVars>>

\* Overlapping runs of one operation.
OneOperation == \A r \in Run : OperationOf(r) # "backup_restore" => phase'[r] = "idle"

Metrics ==
    /\ part = "metrics"
    /\ MetricsNext
    /\ OneOperation
    /\ UNCHANGED <<part, streamAllVars, graphVars, backupVars, commandVars,
                   exportVars, regVars, rulesVars, admissionVars, requestVars>>

\* One run at a time, on a shorter clock; or overlapping creates, and no time
\* passes.
OneRun == Cardinality({r \in Run : phase'[r] # "idle"}) <= 1
ShortClock == clock' < MaxTime
ClockStands == clock' = 1

Commands ==
    /\ part = "operations"
    /\ OperationsNext
    /\ \/ OneRun /\ ShortClock
       \/ OneOperation /\ ClockStands
    /\ UNCHANGED <<part, streamAllVars, graphVars, exportVars, regVars, rulesVars,
                   admissionVars, requestVars>>

Exports ==
    /\ part = "exports"
    /\ ExportNext
    /\ UNCHANGED <<part, streamAllVars, graphVars, operationsVars, regVars,
                   rulesVars, admissionVars, requestVars>>

Regulations ==
    /\ part = "regulations"
    /\ RegNext
    /\ UNCHANGED <<part, streamAllVars, graphVars, operationsVars, exportVars,
                   rulesVars, admissionVars, requestVars>>

Rules ==
    /\ part = "rules"
    /\ RulesNext
    /\ UNCHANGED <<part, streamAllVars, graphVars, operationsVars, exportVars,
                   regVars, admissionVars, requestVars>>

Admissions ==
    /\ part = "admission"
    /\ AdmissionNext
    /\ UNCHANGED <<part, streamAllVars, graphVars, operationsVars, exportVars,
                   regVars, rulesVars, requestVars>>

RequestCounts ==
    /\ part = "requests"
    /\ RequestNext
    /\ UNCHANGED <<part, streamAllVars, graphVars, operationsVars, exportVars,
                   regVars, rulesVars, admissionVars>>

\* Where every request has been answered and every input judged, a part ends.
Ended ==
    /\ \/ part = "rules" /\ verdict # NoVerdict
       \/ part = "admission" /\ left = {}
       \/ part = "exports" /\ \A e \in Export : at[e] \in {"done", "failed"}
    /\ UNCHANGED allVars

Next ==
    \/ Stream \/ Graph \/ Metrics \/ Commands \/ Exports \/ Regulations
    \/ Rules \/ Admissions \/ RequestCounts \/ Ended

Spec == Init /\ [][Next]_allVars

----------------------------------------------------------------------------
\* Processors are interchangeable and so are slots: no property names one.
Interchangeable == Permutations(Processor) \cup Permutations(Slot)

\* A circle of three in two requests, an edge to itself, two owners of an account.
MCEdge(s, t, relation) == [source |-> s, target |-> t, relation |-> relation]
MCEdgeBatch ==
    {{MCEdge(1, 2, "OTHER"), MCEdge(2, 3, "OWNS_ACCOUNT")}, {MCEdge(3, 1, "OTHER")},
     {MCEdge(1, 1, "OTHER")}, {MCEdge(2, 1, "OTHER")}, {MCEdge(1, 3, "OWNS_ACCOUNT")}}

\* The best match, a weak one, none.
MCLexical == <<100, 15, 0>>
MCDense == <<40, 5, 30>>

MCRule(code, operator, described) ==
    [code |-> code, operator |-> operator, described |-> described, value |-> 150,
     tolerance |-> Cent]
MCDefaultPack ==
    <<MCRule("TAX_ID_REQUIRED", "required_all", TRUE), MCRule("VAT_RECALC", "computed_equal", TRUE),
      MCRule("DUPLICATE_INVOICE", "in_set", TRUE), MCRule("EXTREME_AMOUNT", "gte", TRUE)>>
MCPack ==
    {MCDefaultPack,
     <<MCRule("VAT_RECALC", "computed_equal", TRUE), MCRule("VAT_RECALC", "gte", TRUE)>>,
     <<MCRule("", "gte", TRUE)>>,
     <<MCRule("VAT_RECALC", "less", TRUE)>>,
     <<MCRule("VAT_RECALC", "computed_equal", FALSE)>>}

\* Taxes about the half cents of 13 and of 100 per cent.
MCTaxRow ==
    [amount : {0, 1, 49, 50, 51, 149, 150, 151, 350}, rate : {130000, 1000000},
     tax : {0, 6, 7, 50, 99, 100, 101, 149, 150, 151, 199, 200, 201, 249, 250, 251, 300, 301,
            350, 400},
     ids : {{"seller", "buyer"}, {"seller", ""}, {"none", "buyer"}}, duplicate : BOOLEAN]

\* Items with any file and digest and at most one other thing wrong.
MCGood(sha, f) ==
    [status |-> "passed", verifier |-> "other", uri |-> "durable", sha |-> sha, file |-> f,
     age |-> MaxAge]
MCItem ==
    UNION {{item, [item EXCEPT !.status = "failed"], [item EXCEPT !.verifier = ""],
            [item EXCEPT !.verifier = "deployer"], [item EXCEPT !.uri = "http"],
            [item EXCEPT !.age = 0], [item EXCEPT !.age = -1], [item EXCEPT !.age = MaxAge + 1]} :
        item \in {MCGood(sha, f) : sha \in {"f1", "f2", "f3", Malformed},
                                      f \in {"f1", "f2", "f3", NoFile}}}
=============================================================================
