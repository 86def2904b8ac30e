---------------------------- MODULE ControlPulse ----------------------------
(***************************************************************************)
(* ControlPulseService of controlpulse.py: control events are evaluated    *)
(* once into cases, and cases move through a guarded lifecycle.  One       *)
(* tenant; a call is one request thread, reading and writing in separate   *)
(* statements.  A case is named by its event and its control: one event    *)
(* opens at most one case of each control.                                 *)
(***************************************************************************)
EXTENDS Naturals, Sequences

CONSTANTS
    Call,       \* concurrent requests
    User,
    EventId,
    Content,    \* what an event may say: a set of records, see ContentType
    MaxVersion, \* bound on ControlCase.version
    None        \* no row

Control == {"AC-PRIV-001", "CM-APPROVAL-001", "OP-BACKUP-001", "AC-TERM-001"}
Status == {"OPEN", "IN_REVIEW", "REMEDIATED", "CLOSED"}

\* night: the hour of occurred_at is before 7 or from 22 on; disabled: the
\* payload's account_status.
ContentType == [type : {"DEPLOYMENT", "BACKUP", "LOGIN", "OTHER"}, actor : User,
                privileged : BOOLEAN, night : BOOLEAN, approved : BOOLEAN,
                success : BOOLEAN, disabled : BOOLEAN]

ASSUME ControlAssumption == Content \subseteq ContentType /\ MaxVersion \in Nat \ {0}

VARIABLES
    events,     \* control_events, by event_id
    cases,      \* control_cases, by event and control
    history,    \* control_case_transitions of each case, in id order
    pc,         \* where each call stands
    call        \* what each call has been given and has read

vars == <<events, cases, history, pc, call>>

CaseId == EventId \X Control
Case == [status : Status, version : 1 .. MaxVersion]
Transition == [from : Status, to : Status, actor : User]
IngestCall == [event : EventId, content : Content]
TransitionCall == [case : CaseId, actor : User, to : Status, read : Case]

\* A row is never mistaken for no row.
ASSUME NoneAssumption == None \notin Content /\ None \notin Case

TypeOK ==
    /\ events \in [EventId -> Content \cup {None}]
    /\ cases \in [CaseId -> Case \cup {None}]
    /\ history \in [CaseId -> Seq(Transition)]
    /\ pc \in [Call -> {"idle", "ingest", "transition"}]
    /\ call \in [Call -> {None} \cup IngestCall \cup TransitionCall]
    /\ \A c \in Call : /\ pc[c] = "ingest" => call[c] \in IngestCall
                       /\ pc[c] = "transition" => call[c] \in TransitionCall

Init ==
    /\ events = [e \in EventId |-> None]
    /\ cases = [c \in CaseId |-> None]
    /\ history = [c \in CaseId |-> <<>>]
    /\ pc = [c \in Call |-> "idle"]
    /\ call = [c \in Call |-> None]

Goto(c, place, state) ==
    /\ pc' = [pc EXCEPT ![c] = place]
    /\ call' = [call EXCEPT ![c] = state]

Return(c) == Goto(c, "idle", None)

----------------------------------------------------------------------------
(* ingest_and_evaluate.  An event_id that is already stored ends the call  *)
(* with the stored cases, whatever the new content says.                   *)

\* The controls an event violates.
Evaluate(v) ==
    {k \in Control :
        \/ k = "AC-PRIV-001" /\ v.privileged /\ v.night
        \/ k = "CM-APPROVAL-001" /\ v.type = "DEPLOYMENT" /\ ~v.approved
        \/ k = "OP-BACKUP-001" /\ v.type = "BACKUP" /\ ~v.success
        \/ k = "AC-TERM-001" /\ v.type = "LOGIN" /\ v.success /\ v.disabled}

IngestRead(c, e, v) ==
    /\ pc[c] = "idle"
    /\ events[e] = None
    /\ Goto(c, "ingest", [event |-> e, content |-> v])
    /\ UNCHANGED <<events, cases, history>>

\* Mutant: the version column is left to start at 0.
OpenedAtZero(e, v) ==
    [c \in CaseId |-> IF c[1] = e /\ c[2] \in Evaluate(v)
                      THEN [status |-> "OPEN", version |-> 0] ELSE cases[c]]

Opened(e, v) ==
    [c \in CaseId |-> IF c[1] = e /\ c[2] \in Evaluate(v)
                      THEN [status |-> "OPEN", version |-> 1] ELSE cases[c]]

\* Mutant: INSERT ... ON CONFLICT DO NOTHING for the event, then its cases.
IngestIgnoringConflict(c) ==
    /\ pc[c] = "ingest"
    /\ LET e == call[c].event
           v == call[c].content IN
          /\ events' = IF events[e] = None THEN [events EXCEPT ![e] = v] ELSE events
          /\ cases' = Opened(e, v)
    /\ Return(c)
    /\ UNCHANGED history

\* The event, its cases and the audit event; the unique (tenant_id, event_id)
\* lets one of two racing calls through.
IngestWrite(c) ==
    /\ pc[c] = "ingest"
    /\ LET e == call[c].event
           v == call[c].content IN
          /\ events[e] = None
          /\ events' = [events EXCEPT ![e] = v]
          /\ cases' = Opened(e, v)
    /\ Return(c)
    /\ UNCHANGED history

----------------------------------------------------------------------------
(* transition_case.                                                        *)
Allowed == [OPEN |-> {"IN_REVIEW"}, IN_REVIEW |-> {"REMEDIATED"},
            REMEDIATED |-> {"CLOSED"}, CLOSED |-> {"OPEN"}]

\* Mutant: nobody is refused.
MayCloseAnyone(actor, case, to) == TRUE

\* Four eyes: the event's actor may not close the case.
MayMove(actor, case, to) == to = "CLOSED" => actor # events[case[1]].actor

TransitionRead(c, case, actor, to) ==
    /\ pc[c] = "idle"
    /\ cases[case] # None
    /\ to \in Allowed[cases[case].status]
    /\ MayMove(actor, case, to)
    /\ Goto(c, "transition", [case |-> case, actor |-> actor, to |-> to,
                              read |-> cases[case]])
    /\ UNCHANGED <<events, cases, history>>

\* Mutant: the WHERE clause compares the status only.
SameStatus(c) == cases[call[c].case].status = call[c].read.status

\* UPDATE ... WHERE status = current AND version = row["version"].
Unmoved(c) == cases[call[c].case] = call[c].read

TransitionWrite(c) ==
    /\ pc[c] = "transition"
    /\ Unmoved(c)
    /\ call[c].read.version < MaxVersion
    /\ LET t == call[c] IN
          /\ cases' = [cases EXCEPT ![t.case] = [status |-> t.to,
                                                 version |-> t.read.version + 1]]
          /\ history' = [history EXCEPT ![t.case] =
                Append(@, [from |-> t.read.status, to |-> t.to, actor |-> t.actor])]
    /\ Return(c)
    /\ UNCHANGED events

\* IntegrityError, "concurrent case transition conflict", a crash.
RollBack(c) ==
    /\ pc[c] # "idle"
    /\ Return(c)
    /\ UNCHANGED <<events, cases, history>>

Next ==
    \E c \in Call :
        \/ \E e \in EventId, v \in Content : IngestRead(c, e, v)
        \/ IngestWrite(c)
        \/ \E case \in CaseId, actor \in User, to \in Status :
              TransitionRead(c, case, actor, to)
        \/ TransitionWrite(c) \/ RollBack(c)

Spec == Init /\ [][Next]_vars

----------------------------------------------------------------------------
(* An event's cases are those its stored content calls for, each once, also *)
(* when two calls with one id and different contents race.                 *)
CasesFitEvents ==
    \A c \in CaseId :
        cases[c] # None <=> events[c[1]] # None /\ c[2] \in Evaluate(events[c[1]])

(* The transition rows of a case tell its whole life: they start at OPEN,  *)
(* each begins where the last ended, and they end at the case's status with *)
(* its version.  Two racing transitions, or one decided on a status the    *)
(* case has since left and come back to, must not break the trail.         *)
HistoryIsComplete ==
    \A c \in CaseId : cases[c] # None =>
        LET h == history[c] IN
          /\ Len(h) = cases[c].version - 1
          /\ \A i \in 1 .. Len(h) :
                /\ h[i].from = IF i = 1 THEN "OPEN" ELSE h[i - 1].to
                /\ h[i].to \in Allowed[h[i].from]
          /\ cases[c].status = IF h = <<>> THEN "OPEN" ELSE h[Len(h)].to

(* No closing in the history was made by the actor of the event.           *)
ClosedIndependently ==
    \A c \in CaseId : \A i \in 1 .. Len(history[c]) :
        history[c][i].to = "CLOSED" => history[c][i].actor # events[c[1]].actor
=============================================================================
