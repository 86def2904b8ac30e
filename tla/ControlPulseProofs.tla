------------------------- MODULE ControlPulseProofs -------------------------
(***************************************************************************)
(* The lifecycle of control cases for any number of requests, events and   *)
(* users, in whatever order their statements run.                          *)
(***************************************************************************)
EXTENDS ControlPulse, TLAPS

\* A case that was never opened has never moved.
UnopenedIsStill == \A c \in CaseId : cases[c] = None => history[c] = <<>>

\* A transition under way was allowed on the status it has read, its case
\* exists, and whoever closes is not the actor of the event.
Vetted ==
    \A c \in Call : pc[c] = "transition" =>
        /\ call[c].to \in Allowed[call[c].read.status]
        /\ cases[call[c].case] # None
        /\ MayMove(call[c].actor, call[c].case, call[c].to)

IInv ==
    /\ TypeOK
    /\ CasesFitEvents
    /\ UnopenedIsStill
    /\ HistoryIsComplete
    /\ Vetted
    /\ ClosedIndependently

----------------------------------------------------------------------------
LEMMA AllowedIsStatus ==
  ASSUME NEW s \in Status
  PROVE  Allowed[s] \subseteq Status
BY DEF Allowed, Status

LEMMA InitIInv == Init => IInv
<1> SUFFICES ASSUME Init PROVE IInv
  OBVIOUS
<1> USE DEF Init
<1>1. TypeOK
  BY DEF TypeOK
<1>2. CasesFitEvents
  BY DEF CasesFitEvents, CaseId
<1>3. UnopenedIsStill /\ HistoryIsComplete /\ Vetted
  BY DEF UnopenedIsStill, HistoryIsComplete, Vetted
<1>4. ClosedIndependently
  BY DEF ClosedIndependently
<1> QED
  BY <1>1, <1>2, <1>3, <1>4 DEF IInv

\* A step that only ends or begins a call.
LEMMA CallStep ==
  ASSUME IInv, TypeOK', Vetted', UNCHANGED <<events, cases, history>>
  PROVE  IInv'
BY DEF IInv, CasesFitEvents, UnopenedIsStill, HistoryIsComplete, ClosedIndependently

LEMMA IngestReadStep ==
  ASSUME IInv, NEW c \in Call, NEW e \in EventId, NEW v \in Content, IngestRead(c, e, v)
  PROVE  IInv'
<1>1. TypeOK'
  BY DEF IInv, TypeOK, IngestRead, Goto, IngestCall
<1>2. Vetted'
  BY DEF IInv, TypeOK, IngestRead, Goto, Vetted, MayMove
<1> QED
  BY <1>1, <1>2, CallStep DEF IngestRead

LEMMA RollBackStep ==
  ASSUME IInv, NEW c \in Call, RollBack(c)
  PROVE  IInv'
<1>1. TypeOK'
  BY DEF IInv, TypeOK, RollBack, Return, Goto
<1>2. Vetted'
  BY DEF IInv, TypeOK, RollBack, Return, Goto, Vetted, MayMove
<1> QED
  BY <1>1, <1>2, CallStep DEF RollBack

LEMMA TransitionReadStep ==
  ASSUME IInv, NEW c \in Call, NEW case \in CaseId, NEW actor \in User, NEW to \in Status,
         TransitionRead(c, case, actor, to)
  PROVE  IInv'
<1>1. cases[case] \in Case
  BY DEF IInv, TypeOK, TransitionRead
<1>2. TypeOK'
  BY <1>1 DEF IInv, TypeOK, TransitionRead, Goto, TransitionCall
<1>3. Vetted'
  BY DEF IInv, TypeOK, TransitionRead, Goto, Vetted, MayMove
<1> QED
  BY <1>2, <1>3, CallStep DEF TransitionRead

----------------------------------------------------------------------------
LEMMA IngestWriteStep ==
  ASSUME IInv, NEW c \in Call, IngestWrite(c)
  PROVE  IInv'
<1> DEFINE e == call[c].event
           v == call[c].content
<1>1. e \in EventId /\ v \in Content /\ v # None
  BY NoneAssumption DEF IInv, TypeOK, IngestWrite, IngestCall
<1>2. /\ events[e] = None
      /\ events' = [events EXCEPT ![e] = v]
      /\ cases' = Opened(e, v)
      /\ history' = history
  BY DEF IngestWrite
<1>3. [status |-> "OPEN", version |-> 1] \in Case \ {None}
  BY NoneAssumption, ControlAssumption DEF Case, Status
<1>4. \A x \in CaseId : x[1] \in EventId /\ x[2] \in Control
  BY DEF CaseId
<1>5. \A x \in CaseId : x[1] = e => cases[x] = None
  BY <1>2 DEF IInv, CasesFitEvents
<1>6. \A x \in CaseId :
         cases'[x] = IF x[1] = e /\ x[2] \in Evaluate(v)
                     THEN [status |-> "OPEN", version |-> 1] ELSE cases[x]
  BY <1>2 DEF Opened
<1>7. \A x \in EventId : events'[x] = IF x = e THEN v ELSE events[x]
  BY <1>1, <1>2 DEF IInv, TypeOK
<1>8. TypeOK'
  <2>1. cases' \in [CaseId -> Case \cup {None}]
    BY <1>2, <1>3 DEF IInv, TypeOK, Opened
  <2> QED
    BY <1>1, <1>2, <2>1 DEF IInv, TypeOK, IngestWrite, Return, Goto
<1>9. CasesFitEvents'
  BY <1>1, <1>3, <1>4, <1>5, <1>6, <1>7 DEF IInv, CasesFitEvents
<1>10. UnopenedIsStill'
  BY <1>2, <1>5, <1>6 DEF IInv, UnopenedIsStill
<1>11. HistoryIsComplete'
  <2> SUFFICES ASSUME NEW x \in CaseId, cases'[x] # None
               PROVE  /\ Len(history[x]) = cases'[x].version - 1
                      /\ \A i \in 1 .. Len(history[x]) :
                            /\ history[x][i].from = IF i = 1 THEN "OPEN"
                                                    ELSE history[x][i - 1].to
                            /\ history[x][i].to \in Allowed[history[x][i].from]
                      /\ cases'[x].status = IF history[x] = <<>> THEN "OPEN"
                                            ELSE history[x][Len(history[x])].to
    BY <1>2 DEF HistoryIsComplete
  <2>1. CASE cases'[x] = cases[x]
    BY <2>1 DEF IInv, HistoryIsComplete
  <2>2. CASE cases'[x] # cases[x]
    <3>1. history[x] = <<>> /\ cases'[x] = [status |-> "OPEN", version |-> 1]
      BY <1>5, <1>6, <2>2 DEF IInv, UnopenedIsStill
    <3> QED
      BY <3>1
  <2> QED
    BY <2>1, <2>2
<1>12. Vetted'
  <2> SUFFICES ASSUME NEW d \in Call, pc'[d] = "transition"
               PROVE  /\ call'[d].to \in Allowed[call'[d].read.status]
                      /\ cases'[call'[d].case] # None
                      /\ MayMove(call[d].actor, call[d].case, call[d].to)'
    BY DEF Vetted
  <2>1. pc[d] = "transition" /\ call'[d] = call[d] /\ call[d].case \in CaseId
    BY DEF IInv, TypeOK, IngestWrite, Return, Goto, TransitionCall
  <2>2. /\ call[d].to \in Allowed[call[d].read.status]
        /\ cases[call[d].case] # None
        /\ MayMove(call[d].actor, call[d].case, call[d].to)
    BY <2>1 DEF IInv, Vetted
  <2>3. call[d].case[1] # e /\ call[d].case[1] \in EventId
    BY <1>4, <1>5, <2>1, <2>2
  <2> QED
    BY <1>6, <1>7, <2>1, <2>2, <2>3 DEF MayMove
<1>13. ClosedIndependently'
  <2> SUFFICES ASSUME NEW x \in CaseId, NEW i \in 1 .. Len(history[x]),
                      history[x][i].to = "CLOSED"
               PROVE  history[x][i].actor # events'[x[1]].actor
    BY <1>2 DEF ClosedIndependently
  <2>1. x[1] # e
    BY <1>5 DEF IInv, UnopenedIsStill
  <2> QED
    BY <1>4, <1>7, <2>1 DEF IInv, ClosedIndependently
<1> QED
  BY <1>8, <1>9, <1>10, <1>11, <1>12, <1>13 DEF IInv

----------------------------------------------------------------------------
LEMMA TransitionWriteStep ==
  ASSUME IInv, NEW c \in Call, TransitionWrite(c)
  PROVE  IInv'
<1> DEFINE t == call[c]
           x == t.case
           moved == [status |-> t.to, version |-> t.read.version + 1]
           entry == [from |-> t.read.status, to |-> t.to, actor |-> t.actor]
<1>1. /\ x \in CaseId /\ t.actor \in User /\ t.to \in Status
      /\ t.read \in Case /\ t.to \in Allowed[t.read.status]
      /\ MayMove(t.actor, x, t.to)
  BY DEF IInv, TypeOK, Vetted, TransitionWrite, TransitionCall
<1>2. /\ cases[x] = t.read /\ cases[x] # None
      /\ t.read.version < MaxVersion
      /\ cases' = [cases EXCEPT ![x] = moved]
      /\ history' = [history EXCEPT ![x] = Append(@, entry)]
      /\ events' = events
  BY DEF IInv, Vetted, TransitionWrite, Unmoved
<1>3. moved \in Case /\ moved # None /\ entry \in Transition
  BY <1>1, <1>2, NoneAssumption, ControlAssumption DEF Case, Transition
<1>4. /\ cases'[x] = moved /\ history'[x] = Append(history[x], entry)
      /\ \A y \in CaseId \ {x} : cases'[y] = cases[y] /\ history'[y] = history[y]
  BY <1>1, <1>2 DEF IInv, TypeOK
<1>5. history[x] \in Seq(Transition)
  BY <1>1 DEF IInv, TypeOK
<1>6. /\ Len(history'[x]) = Len(history[x]) + 1
      /\ history'[x][Len(history[x]) + 1] = entry
      /\ \A i \in 1 .. Len(history[x]) : history'[x][i] = history[x][i]
  BY <1>3, <1>4, <1>5
<1>7. TypeOK'
  <2>1. /\ events' \in [EventId -> Content \cup {None}]
        /\ cases' \in [CaseId -> Case \cup {None}]
    BY <1>2, <1>3 DEF IInv, TypeOK
  <2>2. history' \in [CaseId -> Seq(Transition)]
    <3>1. Append(history[x], entry) \in Seq(Transition)
      BY <1>3, <1>5
    <3> QED
      BY <1>2, <3>1 DEF IInv, TypeOK
  <2>3. pc' = [pc EXCEPT ![c] = "idle"] /\ call' = [call EXCEPT ![c] = None]
    BY DEF TransitionWrite, Return, Goto
  <2> HIDE DEF t, x, moved, entry
  <2> QED
    BY <2>1, <2>2, <2>3 DEF IInv, TypeOK
<1>8. CasesFitEvents'
  BY <1>2, <1>3, <1>4 DEF IInv, CasesFitEvents
<1>9. UnopenedIsStill'
  BY <1>3, <1>4 DEF IInv, UnopenedIsStill
<1>10. Vetted'
  <2> SUFFICES ASSUME NEW d \in Call, pc'[d] = "transition"
               PROVE  /\ call'[d].to \in Allowed[call'[d].read.status]
                      /\ cases'[call'[d].case] # None
                      /\ MayMove(call[d].actor, call[d].case, call[d].to)'
    BY DEF Vetted
  <2>1. pc[d] = "transition" /\ call'[d] = call[d] /\ call[d].case \in CaseId
    BY DEF IInv, TypeOK, TransitionWrite, Return, Goto, TransitionCall
  <2>2. /\ call[d].to \in Allowed[call[d].read.status] /\ cases[call[d].case] # None
        /\ MayMove(call[d].actor, call[d].case, call[d].to)
    BY <2>1 DEF IInv, Vetted
  <2>3. cases'[call[d].case] # None
    BY <1>3, <1>4, <2>1, <2>2
  <2> QED
    BY <1>2, <2>1, <2>2, <2>3 DEF MayMove
<1>11. /\ moved.status = t.to /\ moved.version = t.read.version + 1
       /\ entry.from = t.read.status /\ entry.to = t.to /\ entry.actor = t.actor
  OBVIOUS
<1> HIDE DEF t, x, moved, entry
<1>12. HistoryIsComplete'
  <2>1. ASSUME NEW y \in CaseId \ {x}, cases'[y] # None
        PROVE  /\ Len(history'[y]) = cases'[y].version - 1
               /\ \A i \in 1 .. Len(history'[y]) :
                     /\ history'[y][i].from = IF i = 1 THEN "OPEN" ELSE history'[y][i - 1].to
                     /\ history'[y][i].to \in Allowed[history'[y][i].from]
               /\ cases'[y].status = IF history'[y] = <<>> THEN "OPEN"
                                     ELSE history'[y][Len(history'[y])].to
    BY <1>4, <2>1 DEF IInv, HistoryIsComplete
  <2>2. /\ Len(history[x]) = t.read.version - 1
        /\ \A i \in 1 .. Len(history[x]) :
              /\ history[x][i].from = IF i = 1 THEN "OPEN" ELSE history[x][i - 1].to
              /\ history[x][i].to \in Allowed[history[x][i].from]
        /\ t.read.status = IF history[x] = <<>> THEN "OPEN"
                           ELSE history[x][Len(history[x])].to
    BY <1>1, <1>2 DEF IInv, HistoryIsComplete
  <2>3. Len(history'[x]) = moved.version - 1
    <3>1. t.read.version \in Nat
      BY <1>1, ControlAssumption DEF Case
    <3>2. moved.version - 1 = t.read.version
      BY <1>11, <3>1
    <3>3. Len(history[x]) + 1 = t.read.version
      BY <2>2, <3>1
    <3> QED
      BY <1>6, <3>2, <3>3
  <2>4. ASSUME NEW i \in 1 .. Len(history'[x])
        PROVE  /\ history'[x][i].from = IF i = 1 THEN "OPEN" ELSE history'[x][i - 1].to
               /\ history'[x][i].to \in Allowed[history'[x][i].from]
    <3>1. Len(history[x]) \in Nat /\ (Len(history[x]) = 0 <=> history[x] = <<>>)
      BY <1>5
    <3>2. CASE i \in 1 .. Len(history[x])
      <4>1. i # 1 => i - 1 \in 1 .. Len(history[x])
        BY <3>1, <3>2
      <4> QED
        BY <1>6, <2>2, <3>2, <4>1
    <3>3. CASE i = Len(history[x]) + 1
      <4>1. history'[x][i] = entry
        BY <1>6, <3>3
      <4>2. CASE history[x] = <<>>
        <5>1. i = 1 /\ t.read.status = "OPEN"
          BY <2>2, <3>1, <3>3, <4>2
        <5> QED
          BY <1>1, <1>11, <4>1, <5>1
      <4>3. CASE history[x] # <<>>
        <5>1. i # 1 /\ i - 1 = Len(history[x]) /\ i - 1 \in 1 .. Len(history[x])
          BY <3>1, <3>3, <4>3
        <5>2. history'[x][i - 1] = history[x][Len(history[x])]
          BY <1>6, <5>1
        <5>3. t.read.status = history'[x][i - 1].to
          BY <2>2, <4>3, <5>2
        <5> QED
          BY <1>1, <1>11, <4>1, <5>1, <5>3
      <4> QED
        BY <4>2, <4>3
    <3> QED
      BY <1>6, <3>1, <3>2, <3>3
  <2>5. moved.status = history'[x][Len(history'[x])].to /\ history'[x] # <<>>
    BY <1>4, <1>5, <1>6, <1>11
  <2> QED
    BY <1>4, <2>1, <2>3, <2>4, <2>5 DEF HistoryIsComplete
<1>13. ClosedIndependently'
  <2>1. ASSUME NEW y \in CaseId \ {x}, NEW i \in 1 .. Len(history'[y]),
               history'[y][i].to = "CLOSED"
        PROVE  history'[y][i].actor # events'[y[1]].actor
    BY <1>2, <1>4, <2>1 DEF IInv, ClosedIndependently
  <2>2. ASSUME NEW i \in 1 .. Len(history'[x]), history'[x][i].to = "CLOSED"
        PROVE  history'[x][i].actor # events'[x[1]].actor
    <3>1. CASE i \in 1 .. Len(history[x])
      BY <1>1, <1>2, <1>6, <2>2, <3>1 DEF IInv, ClosedIndependently
    <3>2. CASE i = Len(history[x]) + 1
      BY <1>1, <1>2, <1>6, <1>11, <2>2, <3>2 DEF MayMove
    <3> QED
      BY <1>5, <1>6, <3>1, <3>2
  <2> SUFFICES ASSUME NEW y \in CaseId, NEW i \in 1 .. Len(history'[y]),
                      history'[y][i].to = "CLOSED"
               PROVE  history'[y][i].actor # events'[y[1]].actor
    BY DEF ClosedIndependently
  <2>3. CASE y = x
    BY <2>2, <2>3
  <2>4. CASE y # x
    BY <2>1, <2>4
  <2> QED
    BY <2>3, <2>4
<1> QED
  BY <1>7, <1>8, <1>9, <1>10, <1>12, <1>13 DEF IInv

----------------------------------------------------------------------------
LEMMA InvStep == IInv /\ [Next]_vars => IInv'
<1>1. CASE UNCHANGED vars
  BY <1>1 DEF vars, IInv, TypeOK, CasesFitEvents, UnopenedIsStill, HistoryIsComplete,
              Vetted, MayMove, ClosedIndependently
<1>2. CASE Next
  BY <1>2, IngestReadStep, IngestWriteStep, TransitionReadStep, TransitionWriteStep,
     RollBackStep DEF Next
<1> QED
  BY <1>1, <1>2

(* The variables keep their types.                                         *)
THEOREM TypeCorrect == Spec => []TypeOK
<1>1. IInv => TypeOK
  BY DEF IInv
<1> QED
  BY InitIInv, InvStep, <1>1, PTL DEF Spec

(* An event's cases are always those its stored content calls for.         *)
THEOREM CasesAlwaysFitEvents == Spec => []CasesFitEvents
<1>1. IInv => CasesFitEvents
  BY DEF IInv
<1> QED
  BY InitIInv, InvStep, <1>1, PTL DEF Spec

(* The transition rows of a case always tell its whole life, whichever     *)
(* transitions race.                                                       *)
THEOREM HistoryAlwaysComplete == Spec => []HistoryIsComplete
<1>1. IInv => HistoryIsComplete
  BY DEF IInv
<1> QED
  BY InitIInv, InvStep, <1>1, PTL DEF Spec

(* No case is ever closed by the actor of its event.                       *)
THEOREM AlwaysClosedIndependently == Spec => []ClosedIndependently
<1>1. IInv => ClosedIndependently
  BY DEF IInv
<1> QED
  BY InitIInv, InvStep, <1>1, PTL DEF Spec
=============================================================================
