--------------------------- MODULE SideBySideProofs ---------------------------
(***************************************************************************)
(* Theorems about the components that share no state with others: the      *)
(* counters behind GET /metrics, the control event stream, the admission   *)
(* of a release, tax rules, unmanaged exports and cited answers; and about *)
(* all parts of MCSideBySide together, with what is proved of the graph    *)
(* and of the command line in modules of their own.                        *)
(***************************************************************************)
EXTENDS MCSideBySide, RiskGraphProofs, OperationsProofs, SequenceTheorems,
        FiniteSetTheorems, TLAPS

(* RequestMetrics: what the lock of observability.py protects.             *)

Total(r) == requests[<<r, "good">>] + requests[<<r, "bad">>]

\* Between the two additions of observe_request a route is one request ahead.
CountersAgree ==
    \A r \in Route :
        \/ durations[r] = Total(r) /\ \A t \in Thread : doing[t] = "time" => label[t][1] # r
        \/ /\ durations[r] + 1 = Total(r)
           /\ \E t \in Thread : doing[t] = "time" /\ label[t][1] = r

\* The counters' types without TLC's bound on them.
CountersType ==
    /\ lock = {t \in Thread : doing[t] \in {"count", "time", "list_requests", "list_durations"}}
    /\ doing \in [Thread -> {"nothing", "observe", "count", "time",
                             "render", "list_requests", "list_durations"}]
    /\ label \in [Thread -> Label]
    /\ requests \in [Label -> Nat]
    /\ durations \in [Route -> Nat]
    /\ exposition \in [Thread -> [requests : [Label -> Nat], durations : [Route -> Nat]]]

\* Half an exposition shows the requests as they still are.
HalfShown == \A t \in Thread : doing[t] = "list_durations" => exposition[t].requests = requests

RequestInv ==
    /\ CountersType
    /\ \A t, u \in lock : t = u
    /\ CountersAgree
    /\ HalfShown
    /\ ExpositionsAgree

LEMMA LabelRoute == ASSUME NEW l \in Label PROVE l[1] \in Route
  BY DEF Label

LEMMA RouteLabels == ASSUME NEW r \in Route PROVE <<r, "good">> \in Label /\ <<r, "bad">> \in Label
  BY DEF Label

LEMMA RequestInvInit == RequestInit => RequestInv
<1> SUFFICES ASSUME RequestInit PROVE RequestInv
  OBVIOUS
<1> USE DEF RequestInit
<1>1. /\ requests \in [Label -> Nat] /\ durations \in [Route -> Nat]
      /\ Blank \in [requests : [Label -> Nat], durations : [Route -> Nat]]
      /\ Blank.requests = [l \in Label |-> 0] /\ Blank.durations = [r \in Route |-> 0]
  BY DEF Blank
<1>2. label \in [Thread -> Label]
  <2>1. PICK r \in Route : TRUE
    BY RequestMetricsAssumption
  <2>2. <<r, "good">> \in Label
    BY RouteLabels
  <2> DEFINE first == CHOOSE l \in Label : TRUE
  <2>3. first \in Label /\ label \in [Thread -> {first}]
    BY <2>2
  <2> HIDE DEF first
  <2> QED
    BY <2>3
<1>3. CountersType
  BY <1>1, <1>2 DEF CountersType
<1>4. ASSUME NEW r \in Route PROVE durations[r] = 0 /\ Total(r) = 0
  <2>1. <<r, "good">> \in Label /\ <<r, "bad">> \in Label
    BY RouteLabels
  <2> QED
    BY <2>1 DEF Total
<1>5. CountersAgree
  BY <1>4 DEF CountersAgree
<1>6. ASSUME NEW r \in Route
      PROVE  Blank.durations[r] = Blank.requests[<<r, "good">>] + Blank.requests[<<r, "bad">>]
  <2>1. <<r, "good">> \in Label /\ <<r, "bad">> \in Label
    BY RouteLabels
  <2> QED
    BY <1>1, <2>1
<1>7. ExpositionsAgree
  BY <1>6 DEF ExpositionsAgree
<1> QED
  BY <1>3, <1>5, <1>7 DEF RequestInv, HalfShown

LEMMA CountersTypeStep == RequestInv /\ [RequestNext]_requestVars => CountersType'
<1> SUFFICES ASSUME RequestInv, [RequestNext]_requestVars PROVE CountersType'
  OBVIOUS
<1>0. CountersType
  BY DEF RequestInv
<1> USE <1>0 DEF CountersType
<1>1. ASSUME NEW t \in Thread, NEW l \in Label, Respond(t, l) PROVE CountersType'
  <2>1. Blank \in [requests : [Label -> Nat], durations : [Route -> Nat]]
    BY DEF Blank
  <2> QED
    BY <1>1, <2>1 DEF Respond
<1>2. ASSUME NEW t \in Thread, Scrape(t) PROVE CountersType'
  BY <1>2 DEF Scrape
<1>3. ASSUME NEW t \in Thread, Acquire(t) PROVE CountersType'
  BY <1>3 DEF Acquire
<1>4. ASSUME NEW t \in Thread, Count(t) PROVE CountersType'
  BY <1>4 DEF Count
<1>5. ASSUME NEW t \in Thread, AddDuration(t) PROVE CountersType'
  BY <1>5, LabelRoute DEF AddDuration, Release
<1>6. ASSUME NEW t \in Thread, ListRequests(t) PROVE CountersType'
  BY <1>6 DEF ListRequests
<1>7. ASSUME NEW t \in Thread, ListDurations(t) PROVE CountersType'
  BY <1>7 DEF ListDurations, Release
<1>8. CASE UNCHANGED requestVars
  BY <1>8 DEF requestVars
<1> QED
  BY <1>1, <1>2, <1>3, <1>4, <1>5, <1>6, <1>7, <1>8 DEF RequestNext

LEMMA OneInside == RequestInv /\ [RequestNext]_requestVars => (\A t, u \in lock : t = u)'
<1> SUFFICES ASSUME RequestInv, [RequestNext]_requestVars PROVE \A t, u \in lock' : t = u
  OBVIOUS
<1>1. ASSUME NEW t \in Thread, Acquire(t) PROVE \A u, v \in lock' : u = v
  BY <1>1 DEF Acquire, LockIsFree
<1>2. CASE lock' \subseteq lock
  BY <1>2 DEF RequestInv
<1> QED
  BY <1>1, <1>2 DEF RequestNext, requestVars, Respond, Scrape, Count, AddDuration,
     ListRequests, ListDurations, Release

LEMMA CountersStep == RequestInv /\ [RequestNext]_requestVars => CountersAgree'
<1> SUFFICES ASSUME RequestInv, [RequestNext]_requestVars PROVE CountersAgree'
  OBVIOUS
<1>0. CountersType /\ CountersAgree /\ \A t, u \in lock : t = u
  BY DEF RequestInv
\* A step of a thread outside the two additions.
<1>1. ASSUME NEW t \in Thread, UNCHANGED <<requests, durations>>,
             doing[t] # "time", doing'[t] # "time",
             \A u \in Thread \ {t} : doing'[u] = doing[u] /\ label'[u] = label[u]
      PROVE  CountersAgree'
  <2> SUFFICES ASSUME NEW r \in Route
               PROVE  \/ /\ durations'[r] = Total(r)'
                         /\ \A u \in Thread : doing'[u] = "time" => label'[u][1] # r
                      \/ /\ durations'[r] + 1 = Total(r)'
                         /\ \E u \in Thread : doing'[u] = "time" /\ label'[u][1] = r
    BY DEF CountersAgree
  <2>1. durations'[r] = durations[r] /\ Total(r)' = Total(r)
    BY <1>1 DEF Total
  <2>2. \A u \in Thread : doing'[u] = "time" <=> doing[u] = "time"
    BY <1>1
  <2>3. \A u \in Thread : doing[u] = "time" => label'[u] = label[u]
    BY <1>1
  <2> QED
    BY <1>0, <2>1, <2>2, <2>3 DEF CountersAgree
\* The lock holder's additions: no other thread is between its own two.
<1>2. ASSUME NEW t \in Thread, Count(t) \/ AddDuration(t)
      PROVE  \A u \in Thread \ {t} : doing[u] # "time" /\ doing'[u] # "time"
  BY <1>0, <1>2 DEF CountersType, Count, AddDuration, Release
<1>3. ASSUME NEW t \in Thread, Count(t) PROVE CountersAgree'
  <2> SUFFICES ASSUME NEW r \in Route
               PROVE  \/ /\ durations'[r] = Total(r)'
                         /\ \A u \in Thread : doing'[u] = "time" => label'[u][1] # r
                      \/ /\ durations'[r] + 1 = Total(r)'
                         /\ \E u \in Thread : doing'[u] = "time" /\ label'[u][1] = r
    BY DEF CountersAgree
  <2>1. /\ requests' = [requests EXCEPT ![label[t]] = requests[label[t]] + 1]
        /\ doing[t] = "count" /\ doing'[t] = "time" /\ durations' = durations /\ label' = label
        /\ \A u \in Thread \ {t} : doing'[u] = doing[u]
    BY <1>0, <1>3 DEF Count, CountersType
  <2>2. durations[r] = Total(r)
    BY <1>0, <1>2, <1>3, <2>1 DEF CountersAgree
  <2>3. /\ label[t] \in Label /\ <<r, "good">> \in Label /\ <<r, "bad">> \in Label
        /\ requests[<<r, "good">>] \in Nat /\ requests[<<r, "bad">>] \in Nat
    BY <1>0, RouteLabels DEF CountersType
  <2>4. CASE label[t][1] = r
    <3>1. label[t] = <<r, "good">> \/ label[t] = <<r, "bad">>
      <4>1. PICK q \in Route, k \in {"good", "bad"} : label[t] = <<q, k>>
        BY <2>3 DEF Label
      <4> QED
        BY <2>4, <4>1
    <3>2. Total(r)' = Total(r) + 1
      <4> DEFINE good == <<r, "good">>
                 bad == <<r, "bad">>
      <4>1. good # bad /\ good \in Label /\ bad \in Label
        BY <2>3
      <4>2. Total(r) = requests[good] + requests[bad]
            /\ Total(r)' = requests'[good] + requests'[bad]
        BY DEF Total
      <4>3. requests[good] \in Nat /\ requests[bad] \in Nat
            /\ requests \in [Label -> Nat] /\ (label[t] = good \/ label[t] = bad)
        BY <1>0, <2>3, <3>1 DEF CountersType
      <4> HIDE DEF good, bad
      <4> QED
        BY <2>1, <4>1, <4>2, <4>3
    <3> QED
      BY <2>1, <2>2, <2>4, <3>2
  <2>5. CASE label[t][1] # r
    <3>1. label[t] # <<r, "good">> /\ label[t] # <<r, "bad">>
      BY <2>5
    <3>2. Total(r)' = Total(r)
      BY <1>0, <2>1, <2>3, <3>1 DEF Total, CountersType
    <3> QED
      BY <1>2, <1>3, <2>1, <2>2, <2>5, <3>2
  <2> QED
    BY <2>4, <2>5
<1>4. ASSUME NEW t \in Thread, AddDuration(t) PROVE CountersAgree'
  <2> SUFFICES ASSUME NEW r \in Route
               PROVE  durations'[r] = Total(r)' /\ \A u \in Thread : doing'[u] # "time"
    BY DEF CountersAgree
  <2>1. /\ durations' = [durations EXCEPT ![label[t][1]] = durations[label[t][1]] + 1]
        /\ doing[t] = "time" /\ doing'[t] = "nothing" /\ requests' = requests
    BY <1>0, <1>4 DEF AddDuration, Release, CountersType
  <2>2. durations[r] \in Nat /\ label[t][1] \in Route /\ durations \in [Route -> Nat]
    BY <1>0, LabelRoute DEF CountersType
  <2>3. \A u \in Thread : doing'[u] # "time"
    BY <1>2, <1>4, <2>1
  <2>4. Total(r)' = Total(r)
    BY <2>1 DEF Total
  <2>5. CASE label[t][1] = r
    <3>1. durations[r] + 1 = Total(r)
      BY <1>0, <2>1, <2>5 DEF CountersAgree
    <3> QED
      BY <2>1, <2>2, <2>3, <2>4, <2>5, <3>1
  <2>6. CASE label[t][1] # r
    <3>1. durations[r] = Total(r)
      BY <1>0, <1>2, <1>4, <2>6 DEF CountersAgree
    <3> QED
      BY <2>1, <2>2, <2>3, <2>4, <2>6, <3>1
  <2> QED
    BY <2>5, <2>6
<1>5. ASSUME NEW t \in Thread, NEW l \in Label, Respond(t, l) PROVE CountersAgree'
  BY <1>0, <1>1, <1>5 DEF Respond, CountersType
<1>6. ASSUME NEW t \in Thread, Scrape(t) PROVE CountersAgree'
  BY <1>0, <1>1, <1>6 DEF Scrape, CountersType
<1>7. ASSUME NEW t \in Thread, Acquire(t) PROVE CountersAgree'
  BY <1>0, <1>1, <1>7 DEF Acquire, CountersType
<1>8. ASSUME NEW t \in Thread, ListRequests(t) PROVE CountersAgree'
  BY <1>0, <1>1, <1>8 DEF ListRequests, CountersType
<1>9. ASSUME NEW t \in Thread, ListDurations(t) PROVE CountersAgree'
  BY <1>0, <1>1, <1>9 DEF ListDurations, Release, CountersType
<1>10. CASE UNCHANGED requestVars
  BY <1>0, <1>10 DEF requestVars, CountersAgree, Total
<1> QED
  BY <1>3, <1>4, <1>5, <1>6, <1>7, <1>8, <1>9, <1>10 DEF RequestNext

LEMMA ExposedStep ==
    RequestInv /\ [RequestNext]_requestVars => HalfShown' /\ ExpositionsAgree'
<1> SUFFICES ASSUME RequestInv, [RequestNext]_requestVars
             PROVE  HalfShown' /\ ExpositionsAgree'
  OBVIOUS
<1>0. /\ CountersType /\ CountersAgree /\ HalfShown /\ ExpositionsAgree
      /\ \A t, u \in lock : t = u
  BY DEF RequestInv
\* A step that leaves the requests and the expositions alone.
<1>1. ASSUME UNCHANGED exposition,
             \A u \in Thread : doing'[u] = "list_durations" <=> doing[u] = "list_durations",
             requests' = requests \/ \A u \in Thread : doing[u] # "list_durations"
      PROVE  HalfShown' /\ ExpositionsAgree'
  BY <1>0, <1>1 DEF HalfShown, ExpositionsAgree
<1>2. ASSUME NEW t \in Thread, NEW l \in Label, Respond(t, l)
      PROVE  HalfShown' /\ ExpositionsAgree'
  <2>1. \A r \in Route : Blank.durations[r] =
            Blank.requests[<<r, "good">>] + Blank.requests[<<r, "bad">>]
    <3> SUFFICES ASSUME NEW r \in Route
                 PROVE  Blank.durations[r] = Blank.requests[<<r, "good">>] + Blank.requests[<<r, "bad">>]
      OBVIOUS
    <3>1. <<r, "good">> \in Label /\ <<r, "bad">> \in Label
      BY RouteLabels
    <3> QED
      BY <3>1 DEF Blank
  <2>2. /\ doing[t] = "nothing" /\ doing'[t] = "observe" /\ exposition'[t] = Blank
        /\ \A u \in Thread \ {t} : doing'[u] = doing[u] /\ exposition'[u] = exposition[u]
        /\ requests' = requests
    BY <1>0, <1>2 DEF Respond, CountersType
  <2> QED
    BY <1>0, <2>1, <2>2 DEF HalfShown, ExpositionsAgree
<1>3. ASSUME NEW t \in Thread, Count(t) PROVE HalfShown' /\ ExpositionsAgree'
  <2>1. \A u \in Thread : doing[u] # "list_durations"
    BY <1>0, <1>3 DEF Count, CountersType
  <2> QED
    BY <1>0, <1>1, <1>3, <2>1 DEF Count, CountersType
<1>4. ASSUME NEW t \in Thread, ListRequests(t) PROVE HalfShown' /\ ExpositionsAgree'
  <2>1. /\ doing'[t] = "list_durations" /\ exposition'[t].requests = requests
        /\ \A u \in Thread \ {t} : doing'[u] = doing[u] /\ exposition'[u] = exposition[u]
        /\ requests' = requests
    BY <1>0, <1>4 DEF ListRequests, CountersType
  <2> QED
    BY <1>0, <2>1 DEF HalfShown, ExpositionsAgree
<1>5. ASSUME NEW t \in Thread, ListDurations(t) PROVE HalfShown' /\ ExpositionsAgree'
  <2>1. /\ doing[t] = "list_durations" /\ doing'[t] = "nothing"
        /\ exposition'[t].durations = durations
        /\ exposition'[t].requests = exposition[t].requests
        /\ \A u \in Thread \ {t} : doing'[u] = doing[u] /\ exposition'[u] = exposition[u]
        /\ requests' = requests
    BY <1>0, <1>5 DEF ListDurations, Release, CountersType
  <2>2. \A u \in Thread : doing[u] # "time"
    BY <1>0, <2>1 DEF CountersType
  <2>3. \A r \in Route : durations[r] = requests[<<r, "good">>] + requests[<<r, "bad">>]
    BY <1>0, <2>2 DEF CountersAgree, Total
  <2>4. exposition'[t].requests = requests
    BY <1>0, <2>1 DEF HalfShown
  <2> QED
    BY <1>0, <2>1, <2>3, <2>4 DEF HalfShown, ExpositionsAgree
<1>6. ASSUME NEW t \in Thread, Scrape(t) \/ Acquire(t) \/ AddDuration(t)
      PROVE  HalfShown' /\ ExpositionsAgree'
  BY <1>0, <1>1, <1>6 DEF Scrape, Acquire, AddDuration, Release, CountersType
<1>7. CASE UNCHANGED requestVars
  BY <1>1, <1>7 DEF requestVars
<1> QED
  BY <1>2, <1>3, <1>4, <1>5, <1>6, <1>7 DEF RequestNext

LEMMA RequestInvStep == RequestInv /\ [RequestNext]_requestVars => RequestInv'
  BY CountersTypeStep, OneInside, CountersStep, ExposedStep DEF RequestInv

(* What GET /metrics shows of a route's requests and of their time is of   *)
(* one moment, with any number of threads half-way through a request.      *)
THEOREM ExpositionsAlwaysAgree == RequestSpec => []ExpositionsAgree
<1>1. RequestInv => ExpositionsAgree
  BY DEF RequestInv
<1> QED
  BY RequestInvInit, RequestInvStep, <1>1, PTL DEF RequestSpec

\* Requests that have been answered and are not yet counted.
Uncounted(l) == {t \in Thread : doing[t] \in {"observe", "count"} /\ label[t] = l}

\* Counted or not, there are no more requests than the bound lets respond.
WithinBounds ==
    /\ \A l \in Label : requests[l] + Cardinality(Uncounted(l)) <= MaxRequests
    /\ \A t \in Thread : \A l \in Label : exposition[t].requests[l] <= MaxRequests
    /\ \A t \in Thread : \A r \in Route : exposition[t].durations[r] <= 2 * MaxRequests

LEMMA UncountedFinite ==
    ASSUME NEW l
    PROVE  IsFiniteSet(Uncounted(l)) /\ Cardinality(Uncounted(l)) \in Nat
<1>1. Uncounted(l) \in SUBSET Thread
  BY DEF Uncounted
<1>2. IsFiniteSet(Uncounted(l))
  BY <1>1, RequestMetricsAssumption, FS_Subset
<1> QED
  BY <1>2, FS_CardinalityType

LEMMA CountersBounded ==
    ASSUME CountersType, CountersAgree, WithinBounds
    PROVE  /\ \A l \in Label : requests[l] <= MaxRequests
           /\ \A r \in Route : durations[r] <= 2 * MaxRequests
<1>1. ASSUME NEW l \in Label PROVE requests[l] <= MaxRequests
  <2>1. Cardinality(Uncounted(l)) \in Nat /\ requests[l] \in Nat
    BY UncountedFinite DEF CountersType
  <2> QED
    BY <2>1, RequestMetricsAssumption DEF WithinBounds
<1>2. ASSUME NEW r \in Route PROVE durations[r] <= 2 * MaxRequests
  <2>1. <<r, "good">> \in Label /\ <<r, "bad">> \in Label
    BY RouteLabels
  <2>2. /\ requests[<<r, "good">>] \in Nat /\ requests[<<r, "good">>] <= MaxRequests
        /\ requests[<<r, "bad">>] \in Nat /\ requests[<<r, "bad">>] <= MaxRequests
    BY <1>1, <2>1 DEF CountersType
  <2>3. Total(r) \in Nat /\ Total(r) <= 2 * MaxRequests
    BY <2>2, RequestMetricsAssumption DEF Total
  <2>4. durations[r] \in Nat /\ (durations[r] = Total(r) \/ durations[r] + 1 = Total(r))
    BY DEF CountersType, CountersAgree
  <2> QED
    BY <2>3, <2>4, RequestMetricsAssumption
<1> QED
  BY <1>1, <1>2

LEMMA WithinBoundsInit == RequestInit => WithinBounds
<1> SUFFICES ASSUME RequestInit PROVE WithinBounds
  OBVIOUS
<1>1. ASSUME NEW l \in Label PROVE requests[l] + Cardinality(Uncounted(l)) <= MaxRequests
  <2>1. Uncounted(l) = {} /\ requests[l] = 0
    BY <1>1 DEF RequestInit, Uncounted
  <2> QED
    BY <2>1, FS_EmptySet, RequestMetricsAssumption
<1>2. \A t \in Thread : exposition[t] = Blank
  BY DEF RequestInit
<1>3. /\ \A l \in Label : Blank.requests[l] = 0
      /\ \A r \in Route : Blank.durations[r] = 0
  BY DEF Blank
<1> QED
  BY <1>1, <1>2, <1>3, RequestMetricsAssumption DEF WithinBounds

LEMMA WithinBoundsStep ==
    RequestInv /\ WithinBounds /\ [RequestNext]_requestVars => WithinBounds'
<1> SUFFICES ASSUME RequestInv, WithinBounds, [RequestNext]_requestVars PROVE WithinBounds'
  OBVIOUS
<1>0. /\ CountersType /\ CountersAgree
      /\ \A l \in Label : requests[l] \in Nat /\ requests[l] <= MaxRequests
      /\ \A r \in Route : durations[r] <= 2 * MaxRequests
      /\ MaxRequests \in Nat
  BY CountersBounded, RequestMetricsAssumption DEF RequestInv, CountersType
<1> DEFINE Counted(l) == requests[l] + Cardinality(Uncounted(l)) <= MaxRequests
           ListedFit(t) == /\ \A l \in Label : exposition[t].requests[l] <= MaxRequests
                       /\ \A r \in Route : exposition[t].durations[r] <= 2 * MaxRequests
<1>1. /\ \A l \in Label : Counted(l)
      /\ \A t \in Thread : ListedFit(t)
  BY DEF WithinBounds
<1>2. (\A l \in Label : Counted(l)') /\ (\A t \in Thread : ListedFit(t)') => WithinBounds'
  BY DEF WithinBounds
<1>3. ASSUME NEW l \in Label, requests' = requests, Uncounted(l)' = Uncounted(l)
      PROVE  Counted(l)'
  BY <1>1, <1>3
<1>4. ASSUME UNCHANGED exposition PROVE \A t \in Thread : ListedFit(t)'
  BY <1>1, <1>4
<1>5. ASSUME NEW t \in Thread, NEW l \in Label, Respond(t, l) PROVE WithinBounds'
  <2> DEFINE busy == {u \in Thread : doing[u] # "nothing"}
  <2>1. /\ doing[t] = "nothing" /\ requests' = requests
        /\ requests[l] + Cardinality(busy) < MaxRequests
        /\ \A u \in Thread : /\ doing'[u] = IF u = t THEN "observe" ELSE doing[u]
                             /\ label'[u] = IF u = t THEN l ELSE label[u]
                             /\ exposition'[u] = IF u = t THEN Blank ELSE exposition[u]
    BY <1>0, <1>5 DEF Respond, CountersType
  <2>2. ASSUME NEW m \in Label PROVE Counted(m)'
    <3>1. CASE m = l
      <4>1. Uncounted(m)' = Uncounted(m) \cup {t} /\ t \notin Uncounted(m)
        BY <2>1, <3>1 DEF Uncounted
      <4>2. Cardinality(Uncounted(m)') = Cardinality(Uncounted(m)) + 1
        BY <4>1, UncountedFinite, FS_AddElement
      <4>3. Cardinality(Uncounted(m)) <= Cardinality(busy) /\ Cardinality(busy) \in Nat
        <5>1. busy \in SUBSET Thread /\ Uncounted(m) \in SUBSET busy
          BY DEF Uncounted
        <5> HIDE DEF busy
        <5>2. IsFiniteSet(busy)
          BY <5>1, RequestMetricsAssumption, FS_Subset
        <5> QED
          BY <5>1, <5>2, FS_Subset, FS_CardinalityType
      <4> HIDE DEF busy
      <4>4. requests[m] \in Nat /\ Cardinality(Uncounted(m)) \in Nat
        BY <1>0, UncountedFinite
      <4> QED
        BY <1>0, <2>1, <3>1, <4>2, <4>3, <4>4
    <3>2. CASE m # l
      <4>1. Uncounted(m)' = Uncounted(m)
        BY <2>1, <3>2 DEF Uncounted
      <4> QED
        BY <1>3, <2>1, <4>1
    <3> QED
      BY <3>1, <3>2
  <2>3. ASSUME NEW u \in Thread PROVE ListedFit(u)'
    <3>1. /\ \A m \in Label : Blank.requests[m] = 0
          /\ \A r \in Route : Blank.durations[r] = 0
      BY DEF Blank
    <3> QED
      BY <1>0, <1>1, <2>1, <3>1
  <2> QED
    BY <1>2, <2>2, <2>3
<1>6. ASSUME NEW t \in Thread, Count(t) PROVE WithinBounds'
  <2> DEFINE l == label[t]
  <2>1. /\ doing[t] = "count" /\ l \in Label /\ UNCHANGED <<label, exposition>>
        /\ \A m \in Label : requests'[m] = IF m = l THEN requests[l] + 1 ELSE requests[m]
        /\ \A u \in Thread : doing'[u] = IF u = t THEN "time" ELSE doing[u]
    BY <1>0, <1>6 DEF Count, CountersType
  <2>2. ASSUME NEW m \in Label PROVE Counted(m)'
    <3>1. CASE m = l
      <4>1. Uncounted(m)' = Uncounted(m) \ {t} /\ t \in Uncounted(m)
        BY <2>1, <3>1 DEF Uncounted
      <4>2. Cardinality(Uncounted(m)') = Cardinality(Uncounted(m)) - 1
        BY <4>1, UncountedFinite, FS_RemoveElement
      <4>3. requests[m] \in Nat /\ Cardinality(Uncounted(m)) \in Nat /\ requests'[m] = requests[m] + 1
        BY <1>0, <2>1, <3>1, UncountedFinite
      <4> QED
        BY <1>0, <1>1, <4>2, <4>3
    <3>2. CASE m # l
      <4>1. Uncounted(m)' = Uncounted(m) /\ requests'[m] = requests[m]
        BY <2>1, <3>2 DEF Uncounted
      <4> QED
        BY <1>1, <4>1
    <3> QED
      BY <3>1, <3>2
  <2> QED
    BY <1>2, <1>4, <2>1, <2>2
<1>7. ASSUME NEW t \in Thread, Scrape(t) \/ Acquire(t) \/ AddDuration(t) PROVE WithinBounds'
  <2>1. /\ UNCHANGED <<label, requests, exposition>>
        /\ \A u \in Thread : doing'[u] \in {"observe", "count"} <=> doing[u] \in {"observe", "count"}
    BY <1>0, <1>7 DEF Scrape, Acquire, AddDuration, Release, CountersType
  <2>2. \A l \in Label : Uncounted(l)' = Uncounted(l)
    BY <2>1 DEF Uncounted
  <2> QED
    BY <1>2, <1>3, <1>4, <2>1, <2>2
<1>8. ASSUME NEW t \in Thread, ListRequests(t) \/ ListDurations(t) PROVE WithinBounds'
  <2>1. /\ UNCHANGED <<label, requests>>
        /\ \A u \in Thread : doing'[u] \in {"observe", "count"} <=> doing[u] \in {"observe", "count"}
    BY <1>0, <1>8 DEF ListRequests, ListDurations, Release, CountersType
  <2>2. \A u \in Thread :
           /\ exposition'[u].requests \in {exposition[u].requests, requests}
           /\ exposition'[u].durations \in {exposition[u].durations, durations}
    <3>1. exposition \in [Thread -> [requests : [Label -> Nat], durations : [Route -> Nat]]]
      BY <1>0 DEF CountersType
    <3>2. CASE ListRequests(t)
      BY <3>1, <3>2 DEF ListRequests
    <3>3. CASE ListDurations(t)
      BY <3>1, <3>3 DEF ListDurations
    <3> QED
      BY <1>8, <3>2, <3>3
  <2>3. \A u \in Thread : ListedFit(u)'
    BY <1>0, <1>1, <2>2
  <2>4. \A l \in Label : Uncounted(l)' = Uncounted(l)
    BY <2>1 DEF Uncounted
  <2> QED
    BY <1>2, <1>3, <2>1, <2>3, <2>4
<1>9. CASE UNCHANGED requestVars
  BY <1>2, <1>3, <1>4, <1>9 DEF requestVars, Uncounted
<1> QED
  BY <1>5, <1>6, <1>7, <1>8, <1>9 DEF RequestNext

(* Whoever adds to the counters or lists them holds the lock, and a route's *)
(* time stays within that of the requests that were let in                 *)
(* (observe_request, render).                                              *)
THEOREM RequestTypeCorrect == RequestSpec => []RequestTypeOK
<1>1. RequestInv /\ WithinBounds => RequestTypeOK
  <2> SUFFICES ASSUME RequestInv, WithinBounds PROVE RequestTypeOK
    OBVIOUS
  <2>1. CountersType /\ CountersAgree
    BY DEF RequestInv
  <2>2. requests \in Requests /\ durations \in Durations
    <3>1. /\ requests \in [Label -> Nat] /\ \A l \in Label : requests[l] <= MaxRequests
          /\ durations \in [Route -> Nat] /\ \A r \in Route : durations[r] <= 2 * MaxRequests
      BY <2>1, CountersBounded DEF CountersType
    <3> QED
      BY <3>1, RequestMetricsAssumption DEF Requests, Durations
  <2>3. exposition \in [Thread -> [requests : Requests, durations : Durations]]
    <3>1. exposition \in [Thread -> [requests : [Label -> Nat], durations : [Route -> Nat]]]
      BY <2>1 DEF CountersType
    <3>2. ASSUME NEW t \in Thread
          PROVE  exposition[t].requests \in Requests /\ exposition[t].durations \in Durations
      <4>1. /\ exposition[t].requests \in [Label -> Nat]
            /\ \A l \in Label : exposition[t].requests[l] <= MaxRequests
            /\ exposition[t].durations \in [Route -> Nat]
            /\ \A r \in Route : exposition[t].durations[r] <= 2 * MaxRequests
        BY <3>1 DEF WithinBounds
      <4> QED
        BY <4>1, RequestMetricsAssumption DEF Requests, Durations
    <3> QED
      BY <3>1, <3>2
  <2> QED
    BY <2>1, <2>2, <2>3 DEF RequestTypeOK, CountersType
<1> QED
  BY <1>1, RequestInvInit, RequestInvStep, WithinBoundsInit, WithinBoundsStep, PTL DEF RequestSpec

----------------------------------------------------------------------------
(* EventStream: the file, and the checkpoint behind which every event is   *)
(* known to the service.                                                   *)

\* One appender is between its read and its write, and knows the file's end.
AppendersFit ==
    /\ \A a \in Appender : apc[a] = "write" => read[a] = Len(file)
    /\ \A a, b \in Appender : apc[a] = "write" /\ apc[b] = "write" => a = b

\* Numbers of lines whose events have all been ingested.
Covered == {n \in 0 .. Len(file) : \A i \in 1 .. n : file[i].event \in ingested}

\* What a checkpoint may hold: such a number, or what does not parse.
CoveredTexts == Covered \cup {Empty, Mixed}

\* What a batch leaves out before one of its records has been ingested.
BatchFits(p) ==
    \A i \in batch[p] : \A j \in 1 .. i : j \in batch[p] \/ file[j].event \in ingested

StreamInv ==
    /\ StreamTypeOK
    /\ file \in Seq(Line)
    /\ AppendersFit
    /\ LinesChained
    /\ checkpoint \in CoveredTexts
    /\ temp \in CoveredTexts \cup {None}
    /\ \A p \in Processor : pending[p] \in Covered /\ BatchFits(p)

LEMMA StreamInvInit == StreamInit => StreamInv
<1> SUFFICES ASSUME StreamInit PROVE StreamInv
  OBVIOUS
<1>1. file = <<>> /\ Len(file) = 0 /\ file \in Seq(Line)
  BY DEF StreamInit
<1>2. StreamTypeOK
  <2>1. 0 \in Offset /\ Len(file) <= MaxRecords
    BY <1>1, StreamAssumption DEF Offset
  <2>2. \A i \in 1 .. Len(file) : file[i] \in Line
    BY <1>1
  <2>3. batch \in [Processor -> SUBSET (1 .. Len(file))]
    BY DEF StreamInit
  <2> QED
    BY <2>1, <2>2, <2>3 DEF StreamInit, StreamTypeOK
<1>3. 0 \in Covered
  BY <1>1 DEF Covered
<1> QED
  BY <1>1, <1>2, <1>3
     DEF StreamInit, StreamInv, AppendersFit, LinesChained, BatchFits, CoveredTexts

\* The file only grows, and events stay known.
LEMMA CoveredStays ==
    ASSUME StreamInv, file' = file \/ \E r \in Line : file' = Append(file, r),
           ingested \subseteq ingested'
    PROVE  /\ Covered \subseteq Covered'
           /\ Len(file) <= Len(file')
           /\ \A i \in 1 .. Len(file) : file'[i] = file[i]
<1>1. file \in Seq(Line) /\ Len(file) \in Nat
  BY DEF StreamInv
<1>2. Len(file) <= Len(file') /\ \A i \in 1 .. Len(file) : file'[i] = file[i]
  BY <1>1
<1> QED
  BY <1>1, <1>2 DEF Covered

\* The appenders' side of the invariant.
FileInv == file \in Seq(Line) /\ Len(file) <= MaxRecords /\ AppendersFit /\ LinesChained

LEMMA AppendStep ==
    ASSUME StreamInv, NEW a \in Appender, NEW e \in Event, AppendWrite(a, e)
    PROVE  /\ FileInv'
           /\ \E r \in Line : file' = Append(file, r)
<1>1. /\ file \in Seq(Line) /\ Len(file) \in Nat /\ Len(file) < MaxRecords /\ MaxRecords \in Nat
      /\ apc \in [Appender -> {"idle", "write"}] /\ read \in [Appender -> Offset]
      /\ AppendersFit /\ LinesChained
  BY StreamAssumption DEF StreamInv, StreamTypeOK, AppendWrite
<1>2. read[a] = Len(file)
  BY <1>1 DEF AppendWrite, AppendersFit
<1>3. Len(file) # 0 => file[Len(file)].offset = Len(file) - 1
  BY <1>1 DEF LinesChained
<1> DEFINE r == NewLine(a, e)
<1>4. r.offset = Len(file) /\ r.previous = Len(file) /\ r \in Line
  <2>1. r.offset = Len(file)
    BY <1>1, <1>2, <1>3 DEF NewLine
  <2>2. r = [offset |-> r.offset, previous |-> Len(file), event |-> e]
    BY <1>2 DEF NewLine
  <2> HIDE DEF r
  <2> QED
    BY <1>1, <2>1, <2>2 DEF Line, Offset
<1>5. /\ file' = Append(file, r) /\ apc' = [apc EXCEPT ![a] = "idle"]
      /\ read' = [read EXCEPT ![a] = 0]
  BY DEF AppendWrite
<1> HIDE DEF r
<1>6. /\ file' \in Seq(Line) /\ Len(file') = Len(file) + 1 /\ file'[Len(file) + 1] = r
      /\ \A i \in 1 .. Len(file) : file'[i] = file[i]
  BY <1>1, <1>4, <1>5
<1>7. LinesChained'
  <2> SUFFICES ASSUME NEW i \in 1 .. Len(file')
               PROVE  file'[i].offset = i - 1 /\ file'[i].previous = i - 1
    BY DEF LinesChained
  <2>1. CASE i \in 1 .. Len(file)
    <3>1. file[i].offset = i - 1 /\ file[i].previous = i - 1
      BY <1>1, <2>1 DEF LinesChained
    <3> QED
      BY <1>6, <2>1, <3>1
  <2>2. CASE i = Len(file) + 1
    BY <1>1, <1>4, <1>6, <2>2
  <2> QED
    BY <1>1, <1>6, <2>1, <2>2
<1>8. AppendersFit'
  BY <1>1, <1>5 DEF AppendersFit, AppendWrite
<1> QED
  BY <1>1, <1>4, <1>5, <1>6, <1>7, <1>8 DEF FileInv

LEMMA FileStep ==
    ASSUME StreamInv, [StreamNext]_streamAllVars
    PROVE  /\ FileInv'
           /\ file' = file \/ \E r \in Line : file' = Append(file, r)
<1>0. /\ FileInv /\ apc \in [Appender -> {"idle", "write"}]
  BY DEF StreamInv, StreamTypeOK, FileInv
<1>1. CASE UNCHANGED <<file, apc, read>>
  BY <1>0, <1>1 DEF FileInv, AppendersFit, LinesChained
<1>2. ASSUME NEW a \in Appender, AppendRead(a) PROVE FileInv' /\ file' = file
  BY <1>0, <1>2 DEF AppendRead, LockFree, StreamInv, StreamTypeOK, FileInv, AppendersFit,
     LinesChained
<1>3. ASSUME NEW a \in Appender, AppendFails(a) PROVE FileInv' /\ file' = file
  BY <1>0, <1>3 DEF AppendFails, StreamInv, StreamTypeOK, FileInv, AppendersFit, LinesChained
<1> QED
  BY <1>1, <1>2, <1>3, AppendStep DEF StreamNext, streamAllVars, streamVars, Start, Ingest,
     PassRecord, OpenTemp, FillTemp, Replace, Replay, Fail

\* The processors' side: types, and what is covered.
ProcessorInv ==
    /\ StreamTypeOK
    /\ checkpoint \in CoveredTexts
    /\ temp \in CoveredTexts \cup {None}
    /\ \A p \in Processor : pending[p] \in Covered /\ BatchFits(p)

\* A processor's step that takes its numbers from those that were covered.
LEMMA ProcessorMoves ==
    ASSUME StreamInv, NEW p \in Processor, UNCHANGED streamVars,
           ingested \subseteq ingested', ingested' \subseteq Event \ Poison,
           checkpoint' \in CoveredTexts', temp' \in CoveredTexts' \cup {None},
           opened' \in [Processor -> {"temp", "checkpoint", "gone"}],
           \E n \in Covered' : pending' = [pending EXCEPT ![p] = n],
           \E place \in {"idle", "start", "ingest", "temp", "write", "replace"} :
               ppc' = [ppc EXCEPT ![p] = place],
           \E lines \in SUBSET (1 .. Len(file)) :
               /\ batch' = [batch EXCEPT ![p] = lines]
               /\ \A i \in lines : \A j \in 1 .. i : j \in lines \/ file[j].event \in ingested'
    PROVE  ProcessorInv'
<1>0. /\ StreamTypeOK /\ UNCHANGED <<file, torn, apc, read>> /\ Len(file) \in Nat
      /\ \A q \in Processor : pending[q] \in Covered /\ BatchFits(q)
  BY DEF StreamInv, streamVars
<1>1. Covered \subseteq Covered' /\ Covered' \subseteq Offset
  BY <1>0, CoveredStays, StreamAssumption DEF Covered, StreamTypeOK, Offset
<1>2. PICK n \in Covered' : pending' = [pending EXCEPT ![p] = n]
  OBVIOUS
<1>3. PICK lines \in SUBSET (1 .. Len(file)) :
          /\ batch' = [batch EXCEPT ![p] = lines]
          /\ \A i \in lines : \A j \in 1 .. i : j \in lines \/ file[j].event \in ingested'
  OBVIOUS
<1>4. \A q \in Processor : pending'[q] \in Covered'
  BY <1>0, <1>1, <1>2 DEF StreamTypeOK
<1>5. \A q \in Processor : BatchFits(q)'
  BY <1>0, <1>3 DEF BatchFits, StreamTypeOK
<1>6. StreamTypeOK'
  <2>1. checkpoint' \in Offset \cup {Empty, Mixed} /\ temp' \in Offset \cup {Empty, Mixed, None}
    BY <1>1 DEF CoveredTexts
  <2>2. pending' \in [Processor -> Offset]
    BY <1>0, <1>1, <1>2 DEF StreamTypeOK
  <2>3. batch' \in [Processor -> SUBSET (1 .. Len(file'))]
    BY <1>0, <1>3 DEF StreamTypeOK
  <2>4. ppc' \in [Processor -> {"idle", "start", "ingest", "temp", "write", "replace"}]
    BY <1>0 DEF StreamTypeOK
  <2> QED
    BY <1>0, <2>1, <2>2, <2>3, <2>4 DEF StreamTypeOK
<1> QED
  BY <1>4, <1>5, <1>6 DEF ProcessorInv

LEMMA IngestStep ==
    ASSUME StreamInv, NEW p \in Processor, Ingest(p)
    PROVE  ProcessorInv'
<1>0. /\ StreamTypeOK /\ LinesChained /\ BatchFits(p) /\ Len(file) \in Nat
      /\ checkpoint \in CoveredTexts /\ temp \in CoveredTexts \cup {None}
  BY DEF StreamInv
<1>1. PICK i \in batch[p] :
          /\ IsFirst(p, i) /\ file[i].event \notin Poison
          /\ ingested' = ingested \cup {file[i].event} /\ PassRecord(p, i)
  BY DEF Ingest
<1>2. i \in 1 .. Len(file) /\ batch[p] \subseteq 1 .. Len(file)
  BY <1>0 DEF StreamTypeOK
<1>3. /\ file[i].offset + 1 = i
      /\ file[i].event \in Event \ Poison
  BY <1>0, <1>1, <1>2 DEF LinesChained, StreamTypeOK, Line
<1>4. UNCHANGED <<streamVars, file, checkpoint, temp, opened>>
  BY <1>1 DEF PassRecord, streamVars
<1>5. Covered \subseteq Covered' /\ CoveredTexts \subseteq CoveredTexts'
  BY <1>1, <1>4, CoveredStays DEF CoveredTexts
<1>6. i \in Covered'
  <2>1. \A j \in 1 .. i : j = i \/ file[j].event \in ingested
    BY <1>0, <1>1, <1>2 DEF BatchFits, IsFirst
  <2> QED
    BY <1>1, <1>2, <1>4, <2>1 DEF Covered
<1>7. pending' = [pending EXCEPT ![p] = i]
  BY <1>1, <1>3 DEF PassRecord
<1>8. /\ batch' = [batch EXCEPT ![p] = batch[p] \ {i}]
      /\ \A k \in batch[p] \ {i} : \A j \in 1 .. k :
             j \in batch[p] \ {i} \/ file[j].event \in ingested'
  BY <1>0, <1>1 DEF PassRecord, BatchFits
<1>9. ppc' = [ppc EXCEPT ![p] = "temp"]
  BY <1>1 DEF PassRecord
<1>10. ingested \subseteq ingested' /\ ingested' \subseteq Event \ Poison
  BY <1>0, <1>1, <1>3 DEF StreamTypeOK
<1>11. /\ checkpoint' \in CoveredTexts' /\ temp' \in CoveredTexts' \cup {None}
       /\ opened' \in [Processor -> {"temp", "checkpoint", "gone"}]
  BY <1>0, <1>4, <1>5 DEF StreamTypeOK
<1>12. batch[p] \ {i} \in SUBSET (1 .. Len(file))
  BY <1>2
<1> QED
  BY <1>4, <1>6, <1>7, <1>8, <1>9, <1>10, <1>11, <1>12, ProcessorMoves

\* A checkpoint that parses is a number of lines all of whose events are ingested.
LEMMA CheckpointParses ==
    ASSUME checkpoint \in CoveredTexts, checkpoint \in Offset
    PROVE  checkpoint \in Covered
BY StreamAssumption DEF CoveredTexts, Offset

LEMMA StartStep ==
    ASSUME StreamInv, NEW p \in Processor, Start(p)
    PROVE  ProcessorInv'
<1>0. /\ StreamTypeOK /\ LinesChained /\ checkpoint \in Covered
      /\ temp \in CoveredTexts \cup {None} /\ pending[p] \in Covered /\ Len(file) \in Nat
  BY CheckpointParses DEF StreamInv, Start
<1>1. PICK last \in From(checkpoint) :
          batch' = [batch EXCEPT ![p] = {i \in From(checkpoint) : i <= last}]
  BY DEF Start
<1> DEFINE lines == {i \in From(checkpoint) : i <= last}
<1>2. lines \in SUBSET (1 .. Len(file))
  BY DEF From
<1>3. ASSUME NEW i \in lines, NEW j \in 1 .. i
      PROVE  j \in lines \/ file[j].event \in ingested
  <2>1. i \in 1 .. Len(file) /\ j \in 1 .. Len(file) /\ last \in 1 .. Len(file) /\ j <= last
    BY <1>0 DEF From
  <2>2. CASE j <= checkpoint
    BY <1>0, <2>1, <2>2 DEF Covered
  <2>3. CASE ~(j <= checkpoint)
    <3>1. checkpoint \in Nat /\ file[j].offset = j - 1
      BY <1>0, <2>1 DEF Covered, LinesChained
    <3> QED
      BY <2>1, <2>3, <3>1 DEF From
  <2> QED
    BY <2>2, <2>3
<1>4. /\ UNCHANGED <<streamVars, file, ingested, checkpoint, temp, opened, pending>>
      /\ ppc' = [ppc EXCEPT ![p] = "ingest"]
  BY DEF Start, streamVars
<1>5. Covered \subseteq Covered' /\ CoveredTexts \subseteq CoveredTexts'
  BY <1>4, CoveredStays DEF CoveredTexts
<1>6. pending' = [pending EXCEPT ![p] = pending[p]]
  BY <1>0, <1>4 DEF StreamTypeOK
<1>7. batch' = [batch EXCEPT ![p] = lines]
  BY <1>1
<1>8. ingested' \subseteq Event \ Poison
  BY <1>0, <1>4 DEF StreamTypeOK
<1>9. \A i \in lines : \A j \in 1 .. i : j \in lines \/ file[j].event \in ingested'
  BY <1>3, <1>4
<1>10. checkpoint \in CoveredTexts /\ opened \in [Processor -> {"temp", "checkpoint", "gone"}]
  BY <1>0 DEF CoveredTexts, StreamTypeOK
<1> HIDE DEF lines
<1> QED
  BY <1>0, <1>2, <1>4, <1>5, <1>6, <1>7, <1>8, <1>9, <1>10, ProcessorMoves

LEMMA ProcessorStep == StreamInv /\ [StreamNext]_streamAllVars => ProcessorInv'
<1> SUFFICES ASSUME StreamInv, [StreamNext]_streamAllVars PROVE ProcessorInv'
  OBVIOUS
<1>0. /\ StreamTypeOK /\ checkpoint \in CoveredTexts /\ temp \in CoveredTexts \cup {None}
      /\ Len(file) \in Nat /\ \A p \in Processor : pending[p] \in Covered /\ BatchFits(p)
      /\ 0 \in Covered
  BY DEF StreamInv, Covered
\* The appenders leave the processors' numbers covered.
<1>1. ASSUME UNCHANGED <<processorVars, ingested>>, torn' \in BOOLEAN,
             apc' \in [Appender -> {"idle", "write"}], read' \in [Appender -> Offset]
      PROVE  ProcessorInv'
  <2>1. /\ FileInv' /\ Covered \subseteq Covered' /\ Len(file) <= Len(file')
        /\ \A i \in 1 .. Len(file) : file'[i] = file[i]
    BY <1>1, FileStep, CoveredStays
  <2>2. /\ file' \in Seq(Line) /\ Len(file') \in Nat /\ Len(file') <= MaxRecords
        /\ \A i \in 1 .. Len(file') : file'[i] \in Line
    BY <2>1 DEF FileInv
  <2>3. UNCHANGED <<checkpoint, temp, opened, ppc, batch, pending, ingested>>
    BY <1>1 DEF processorVars
  <2>4. batch' \in [Processor -> SUBSET (1 .. Len(file'))]
    BY <1>0, <2>1, <2>2, <2>3 DEF StreamTypeOK
  <2>5. StreamTypeOK'
    BY <1>0, <1>1, <2>2, <2>3, <2>4 DEF StreamTypeOK
  <2>6. ASSUME NEW p \in Processor PROVE pending'[p] \in Covered' /\ BatchFits(p)'
    <3>1. batch[p] \subseteq 1 .. Len(file)
      BY <1>0 DEF StreamTypeOK
    <3> QED
      BY <1>0, <2>1, <2>3, <3>1 DEF BatchFits
  <2> QED
    BY <1>0, <2>1, <2>3, <2>5, <2>6 DEF ProcessorInv, CoveredTexts
<1>2. ASSUME NEW a \in Appender,
             AppendRead(a) \/ AppendFails(a) \/ \E e \in Event : AppendWrite(a, e)
      PROVE  ProcessorInv'
  <2>1. 0 \in Offset /\ Len(file) \in Offset
    BY <1>0, StreamAssumption DEF Offset, StreamTypeOK
  <2> QED
    BY <1>0, <1>1, <1>2, <2>1 DEF AppendRead, AppendFails, AppendWrite, StreamTypeOK
\* The processors' bookkeeping.
<1>3. ASSUME NEW p \in Processor,
             OpenTemp(p) \/ FillTemp(p) \/ Replace(p) \/ Replay(p) \/ Fail(p)
      PROVE  ProcessorInv'
  <2>1. UNCHANGED <<streamVars, file, ingested>>
    BY <1>3 DEF OpenTemp, FillTemp, Replace, Replay, Fail, streamVars
  <2>2. Covered' = Covered /\ CoveredTexts' = CoveredTexts
    BY <2>1 DEF Covered, CoveredTexts
  <2>3. checkpoint' \in CoveredTexts /\ temp' \in CoveredTexts \cup {None}
    <3>1. CASE FillTemp(p)
      <4>1. \A old : Overwritten(old, pending[p]) \subseteq CoveredTexts
        BY <1>0 DEF Overwritten, CoveredTexts
      <4> QED
        BY <1>0, <3>1, <4>1 DEF FillTemp
    <3> QED
      BY <1>0, <1>3, <3>1 DEF OpenTemp, Replace, Replay, Fail, CoveredTexts
  <2>8. opened' \in [Processor -> {"temp", "checkpoint", "gone"}]
    BY <1>0, <1>3 DEF OpenTemp, FillTemp, Replace, Moved, Replay, Fail, StreamTypeOK
  <2>4. \E n \in Covered : pending' = [pending EXCEPT ![p] = n]
    <3>1. pending = [pending EXCEPT ![p] = pending[p]]
      BY <1>0 DEF StreamTypeOK
    <3> QED
      BY <1>0, <1>3, <3>1 DEF OpenTemp, FillTemp, Replace, Replay, Fail
  <2>5. \E place \in {"idle", "start", "ingest", "temp", "write", "replace"} :
            ppc' = [ppc EXCEPT ![p] = place]
    BY <1>3 DEF OpenTemp, FillTemp, Replace, Replay, Fail
  <2>6. \E lines \in SUBSET (1 .. Len(file)) :
            /\ batch' = [batch EXCEPT ![p] = lines]
            /\ \A i \in lines : \A j \in 1 .. i : j \in lines \/ file[j].event \in ingested'
    <3>1. /\ batch = [batch EXCEPT ![p] = batch[p]]
          /\ batch[p] \in SUBSET (1 .. Len(file))
          /\ \A i \in batch[p] : \A j \in 1 .. i : j \in batch[p] \/ file[j].event \in ingested'
      BY <1>0, <2>1 DEF StreamTypeOK, BatchFits
    <3>2. CASE batch' = batch
      <4>1. /\ batch' = [batch EXCEPT ![p] = batch[p]]
            /\ \A i \in batch[p] : \A j \in 1 .. i :
                   j \in batch[p] \/ file[j].event \in ingested'
        BY <3>1, <3>2
      <4> USE <3>1
      <4> WITNESS batch[p] \in SUBSET (1 .. Len(file))
      <4> QED
        BY <4>1
    <3>3. CASE batch' = [batch EXCEPT ![p] = {}]
      <4> DEFINE none == {}
      <4>1. /\ batch' = [batch EXCEPT ![p] = none]
            /\ \A i \in none : \A j \in 1 .. i : j \in none \/ file[j].event \in ingested'
        BY <3>3
      <4>2. none \in SUBSET (1 .. Len(file))
        OBVIOUS
      <4> HIDE DEF none
      <4> QED
        BY <4>1, <4>2
    <3> QED
      BY <1>3, <3>2, <3>3 DEF OpenTemp, FillTemp, Replace, Replay, Fail
  <2>7. ingested' \subseteq Event \ Poison
    BY <1>0, <2>1 DEF StreamTypeOK
  <2> QED
    BY <2>1, <2>2, <2>3, <2>4, <2>5, <2>6, <2>7, <2>8, ProcessorMoves
<1>4. CASE UNCHANGED streamAllVars
  BY <1>0, <1>1, <1>4 DEF streamAllVars, streamVars, StreamTypeOK
<1> QED
  BY <1>2, <1>3, <1>4, IngestStep, StartStep DEF StreamNext

LEMMA StreamInvStep == StreamInv /\ [StreamNext]_streamAllVars => StreamInv'
  BY FileStep, ProcessorStep DEF StreamInv, FileInv, ProcessorInv

(* The stream and its processors keep their types: no event that does not  *)
(* parse is ever taken for ingested.                                       *)
THEOREM StreamTypeCorrect == StreamSpec => []StreamTypeOK
<1>1. StreamInv => StreamTypeOK
  BY DEF StreamInv
<1> QED
  BY <1>1, StreamInvInit, StreamInvStep, PTL DEF StreamSpec

(* However many threads append and however their writes fail, the complete *)
(* lines are a chain without gaps or repeats; so verify accepts the        *)
(* stream, as long as no failed write has left half a record in it, on     *)
(* which it raises (append, verify).                                       *)
THEOREM StreamAlwaysVerifies == StreamSpec => []LinesChained /\ []StreamVerifies
<1>1. StreamInv => LinesChained /\ StreamVerifies
  BY DEF StreamInv, StreamVerifies
<1> QED
  BY <1>1, StreamInvInit, StreamInvStep, PTL DEF StreamSpec

(* The checkpoint never passes a record that was not ingested, with any    *)
(* number of processors, replays and crashes on the same checkpoint file.  *)
THEOREM NoRecordEverSkipped == StreamSpec => []NoRecordSkipped
<1>1. StreamInv => NoRecordSkipped
  <2> SUFFICES ASSUME StreamInv, NEW i \in 1 .. Len(file), checkpoint \in Offset,
                      file[i].offset < checkpoint
               PROVE  file[i].event \in ingested
    BY DEF NoRecordSkipped
  <2>1. Len(file) \in Nat /\ file[i].offset = i - 1 /\ checkpoint \in Covered
    BY CheckpointParses DEF StreamInv, LinesChained
  <2> QED
    BY <2>1 DEF Covered
<1> QED
  BY <1>1, StreamInvInit, StreamInvStep, PTL DEF StreamSpec

----------------------------------------------------------------------------
(* TaxRules: rounding to the cent.                                         *)

\* ROUND_HALF_UP moves a number by half a cent at most.
LEMMA RoundedNearby ==
    ASSUME NEW x \in Nat
    PROVE  /\ ToCents(x) \in Nat
           /\ 2 * Distance(ToCents(x), x) <= Cent
  BY DEF ToCents, Distance, Cent

\* Both neighbouring cents are within a cent of it.
LEMMA NeighboursTolerated ==
    ASSUME NEW x \in Nat, NEW down, down = (x \div Cent) * Cent,
           NEW y, y = down \/ (y = down + Cent /\ down # x)
    PROVE  Distance(ToCents(x), y) <= Cent
  BY DEF ToCents, Distance, Cent

\* More than a cent and a half from the number is more than a cent from its rounding.
LEMMA FarIsFlagged ==
    ASSUME NEW x \in Nat, NEW y \in Nat, 2 * Distance(x, y) > 3 * Cent
    PROVE  Distance(ToCents(x), y) > Cent
<1>1. ToCents(x) \in Nat /\ 2 * Distance(ToCents(x), x) <= Cent
  BY RoundedNearby
<1> QED
  BY <1>1 DEF Distance, Cent

\* What a verdict is, once it is there.
VerdictFits ==
    /\ pack \in Pack /\ taxRow \in TaxRow
    /\ verdict.kind \in {"none", "refused", "judged"}
    /\ verdict.kind = "judged" => ValidPack(pack) /\ verdict.findings = RowFindings(pack, taxRow)

LEMMA VerdictFitsAlways == RulesSpec => []VerdictFits
<1>1. RulesInit => VerdictFits
  BY DEF RulesInit, VerdictFits, NoVerdict
<1>2. VerdictFits /\ [RulesNext]_rulesVars => VerdictFits'
  <2> SUFFICES ASSUME VerdictFits, [RulesNext]_rulesVars PROVE VerdictFits'
    OBVIOUS
  <2>1. pack' = pack /\ taxRow' = taxRow
    BY DEF RulesNext, Refuse, Judge, rulesVars
  <2>2. ValidPack(pack)' <=> ValidPack(pack)
    BY <2>1
  <2>3. RowFindings(pack, taxRow)' = RowFindings(pack, taxRow)
    BY <2>1
  <2>4. \/ verdict' = verdict
        \/ verdict'.kind = "refused"
        \/ /\ ValidPack(pack)
           /\ verdict'.kind = "judged"
           /\ verdict'.findings = RowFindings(pack, taxRow)
    BY DEF RulesNext, Refuse, Judge, rulesVars
  <2> QED
    BY <2>1, <2>2, <2>3, <2>4 DEF VerdictFits
<1> QED
  BY <1>1, <1>2, PTL DEF RulesSpec

(* A pack is refused or judged once, and neither changes its inputs.       *)
THEOREM RulesTypeCorrect == RulesSpec => []RulesTypeOK
<1>1. VerdictFits => RulesTypeOK
  BY DEF VerdictFits, RulesTypeOK
<1> QED
  BY <1>1, VerdictFitsAlways, PTL

(* Whatever the pack, the row and the way its tax was rounded to the cent: *)
(* the recalculation with a tolerance of a cent does not flag it, it does  *)
(* flag a tax off by more than a cent and a half, and a code is found once *)
(* (evaluate_rule, validate_rule_pack).                                    *)
THEOREM FindingsAlwaysDue == RulesSpec => []FindingsAreDue
<1>1. VerdictFits => FindingsAreDue
  <2> SUFFICES ASSUME VerdictFits, verdict.kind = "judged" PROVE FindingsAreDue
    BY DEF FindingsAreDue
  <2>0. ValidPack(pack) /\ verdict.findings = RowFindings(pack, taxRow)
    BY DEF VerdictFits
  <2>1. \A i, j \in verdict.findings : pack[i].code = pack[j].code => i = j
    BY <2>0 DEF ValidPack, CodesUnique, RowFindings
  <2> DEFINE x == Exact(taxRow)
             y == Actual(taxRow)
  <2>2. x \in Nat /\ y \in Nat
    <3>1. taxRow.amount \in Nat /\ taxRow.rate \in Nat /\ taxRow.tax \in Nat
      BY TaxRulesAssumption DEF VerdictFits
    <3> QED
      BY <3>1 DEF Exact, Actual
  <2>3. ASSUME NEW i \in 1 .. Len(pack),
               pack[i].operator = "computed_equal", pack[i].tolerance = Cent
        PROVE  i \in verdict.findings <=> Distance(ToCents(x), y) > Cent
    BY <2>0, <2>3 DEF RowFindings, Flags, ComputedUnequal
  <2>4. y \in RoundedTaxes(taxRow) => Distance(ToCents(x), y) <= Cent
    <3> DEFINE down == (x \div Cent) * Cent
    <3>1. y \in RoundedTaxes(taxRow) => y = down \/ (y = down + Cent /\ down # x)
      BY DEF RoundedTaxes
    <3> HIDE DEF x, y, down
    <3> QED
      BY <2>2, <3>1, NeighboursTolerated DEF down
  <2>5. 2 * Distance(x, y) > 3 * Cent => Distance(ToCents(x), y) > Cent
    BY <2>2, FarIsFlagged
  <2>6. Distance(ToCents(x), y) \in Int /\ Cent \in Int
    <3> HIDE DEF x, y
    <3> QED
      BY <2>2, RoundedNearby DEF Distance, Cent
  <2> HIDE DEF x, y
  <2>7. ASSUME NEW i \in 1 .. Len(pack),
               pack[i].operator = "computed_equal", pack[i].tolerance = Cent
        PROVE  /\ y \in RoundedTaxes(taxRow) => i \notin verdict.findings
               /\ 2 * Distance(x, y) > 3 * Cent => i \in verdict.findings
    BY <2>3, <2>4, <2>5, <2>6, <2>7
  <2> QED
    BY <2>1, <2>7 DEF FindingsAreDue, x, y
<1> QED
  BY <1>1, VerdictFitsAlways, PTL

----------------------------------------------------------------------------
(* Admission: what has been gone through is judged as a whole.             *)

Present(c) == controls[c].status # Missing
Gone == Control \ left
MetBy(c) == Present(c) /\ FileMet(controls[c])
ShownAlone(c) == Present(c) /\ Shown(controls[c], controls[c].file)

\* A control without an error shows its own file; one with an error shows
\* none, or the file of another.
AdmissionInv ==
    /\ head \in BOOLEAN
    /\ controls \in [Control -> Item \cup {[status |-> Missing]}]
    /\ left \subseteq Control
    /\ errors \subseteq Gone
    /\ \A f : f \in used <=> \E c \in Gone : MetBy(c) /\ controls[c].file = f
    /\ \A c \in Gone \ errors : ShownAlone(c)
    /\ \A c, d \in Gone \ errors : controls[c].file = controls[d].file => c = d
    /\ \A c \in errors :
          ShownAlone(c) => \E d \in Gone : d # c /\ MetBy(d) /\ controls[d].file = controls[c].file

LEMMA PresentIsItem ==
    ASSUME AdmissionInv, NEW c \in Control
    PROVE  /\ controls[c] \in Item \cup {[status |-> Missing]}
           /\ Present(c) => controls[c] \in ItemType
  BY AdmissionAssumption DEF AdmissionInv, Present

\* A file that passes is one that was met.
LEMMA ShownIsMet ==
    ASSUME NEW item \in ItemType, NEW f, Shown(item, f)
    PROVE  FileMet(item) /\ f = item.file /\ f \in File
  BY AdmissionAssumption DEF Shown, FileMet, ItemType, NoFile, Malformed

\* An item is accepted if it shows its file and no other used it before.
LEMMA AcceptedIsShown ==
    ASSUME NEW item \in ItemType
    PROVE  Accepted(item) <=> Shown(item, item.file) /\ item.file \notin used
<1>1. Fresh(item) <=> item.age \in 0 .. MaxAge
  <2>1. item.age \in Int
    BY DEF ItemType
  <2>2. MaxAge \in Int
    BY AdmissionAssumption
  <2> QED
    BY <2>1, <2>2 DEF Fresh
<1>2. Independent(item) <=> item.verifier = "other"
  BY DEF Independent, ItemType
<1>3. Shown(item, item.file) => FileMet(item)
  BY ShownIsMet
<1> QED
  BY <1>1, <1>2, <1>3 DEF Accepted, FileAccepted, Shown

LEMMA AdmissionInvInit == AdmissionInit => AdmissionInv
  BY DEF AdmissionInit, AdmissionInv, Gone

LEMMA AdmissionInvStep == AdmissionInv /\ [AdmissionNext]_admissionVars => AdmissionInv'
<1> SUFFICES ASSUME AdmissionInv, [AdmissionNext]_admissionVars PROVE AdmissionInv'
  OBVIOUS
<1>1. head' = head /\ controls' = controls
  BY DEF AdmissionNext, CheckMissing, CheckControl, admissionVars
<1>2. CASE UNCHANGED admissionVars
  BY <1>2 DEF admissionVars, AdmissionInv, Gone, MetBy, Present, ShownAlone
<1>3. ASSUME NEW c \in Control, CheckMissing(c) \/ CheckControl(c)
      PROVE  AdmissionInv'
  <2> DEFINE Good(d) == Present(d) /\ Shown(controls[d], controls[d].file)
             Met(d) == Present(d) /\ FileMet(controls[d])
             fileOf[d \in Control] == controls[d].file
  <2>1. /\ c \in left /\ left' = left \ {c} /\ Gone' = Gone \cup {c} /\ c \notin Gone
        /\ Gone \subseteq Control
    BY <1>3 DEF CheckMissing, CheckControl, IsNext, Gone
  <2>2. Present(c) => controls[c] \in ItemType
    BY PresentIsItem
  <2>3. \A d \in Control : Good(d) => Met(d)
    <3> SUFFICES ASSUME NEW d \in Control, Good(d) PROVE FileMet(controls[d])
      OBVIOUS
    <3> QED
      BY PresentIsItem, ShownIsMet
  <2>4. \A f : f \in used' <=> f \in used \/ (Met(c) /\ f = fileOf[c])
    BY <1>3 DEF CheckMissing, CheckControl, Present
  <2>5. errors' = IF Good(c) /\ fileOf[c] \notin used THEN errors ELSE errors \cup {c}
    <3>1. CASE Present(c)
      BY <1>3, <2>2, <3>1, AcceptedIsShown DEF CheckMissing, CheckControl, Present
    <3>2. CASE ~Present(c)
      BY <1>3, <3>2 DEF CheckMissing, CheckControl, Present
    <3> QED
      BY <3>1, <3>2
  <2>6. /\ errors \subseteq Gone
        /\ \A f : f \in used <=> \E d \in Gone : Met(d) /\ fileOf[d] = f
        /\ \A d \in Gone \ errors : Good(d)
        /\ \A d, e \in Gone \ errors : fileOf[d] = fileOf[e] => d = e
        /\ \A d \in errors : Good(d) => \E e \in Gone : e # d /\ Met(e) /\ fileOf[e] = fileOf[d]
    BY <2>1 DEF AdmissionInv, MetBy, ShownAlone
  <2> HIDE DEF Good, Met, fileOf
  <2>7. /\ errors' \subseteq Gone'
        /\ \A f : f \in used' <=> \E d \in Gone' : Met(d) /\ fileOf[d] = f
        /\ \A d \in Gone' \ errors' : Good(d)
    BY <2>1, <2>4, <2>5, <2>6
  <2>8. \A d, e \in Gone' \ errors' : fileOf[d] = fileOf[e] => d = e
    <3>1. \A d \in Gone' \ errors' : d # c => d \in Gone \ errors /\ Met(d) /\ fileOf[d] \in used
      BY <2>1, <2>3, <2>5, <2>6
    <3>2. c \in Gone' \ errors' => fileOf[c] \notin used
      BY <2>1, <2>5, <2>6
    <3> QED
      BY <2>6, <3>1, <3>2
  <2>9. \A d \in errors' : Good(d) => \E e \in Gone' : e # d /\ Met(e) /\ fileOf[e] = fileOf[d]
    BY <2>1, <2>5, <2>6
  <2>10. /\ head' \in BOOLEAN /\ left' \subseteq Control
         /\ controls' \in [Control -> Item \cup {[status |-> Missing]}]
    BY <1>1, <2>1 DEF AdmissionInv
  <2>11. /\ \A d : MetBy(d)' <=> Met(d)
         /\ \A d : ShownAlone(d)' <=> Good(d)
         /\ \A d \in Control : controls'[d].file = fileOf[d]
    BY <1>1 DEF MetBy, ShownAlone, Present, Met, Good, fileOf
  <2>12. Gone' \subseteq Control
    BY <2>1
  <2> QED
    BY <2>7, <2>8, <2>9, <2>10, <2>11, <2>12 DEF AdmissionInv
<1> QED
  BY <1>2, <1>3 DEF AdmissionNext

(* The files that _verify_file remembers are files of the evidence         *)
(* directory, and errors are of required controls.                         *)
THEOREM AdmissionTypeCorrect == AdmissionSpec => []AdmissionTypeOK
<1>1. AdmissionInv => AdmissionTypeOK
  <2> SUFFICES ASSUME AdmissionInv PROVE used \subseteq File /\ errors \subseteq Control
    BY DEF AdmissionInv, AdmissionTypeOK
  <2>1. ASSUME NEW c \in Control, MetBy(c) PROVE controls[c].file \in File
    <3>1. controls[c] \in ItemType /\ controls[c].file # NoFile
      BY <2>1, PresentIsItem DEF MetBy, FileMet
    <3> QED
      BY <3>1 DEF ItemType
  <2> QED
    BY <2>1 DEF AdmissionInv, Gone
<1> QED
  BY <1>1, AdmissionInvInit, AdmissionInvStep, PTL DEF AdmissionSpec

(* Once every control has been gone through, whatever order they were gone *)
(* through in, the release is admitted exactly when each control shows a   *)
(* fresh, passed item of an independent verifier with a file of its own    *)
(* (verify_admission).                                                     *)
THEOREM AdmissionAlwaysOnOwnEvidence == AdmissionSpec => []AdmittedOnOwnEvidence
<1>1. AdmissionInv => AdmittedOnOwnEvidence
  <2> SUFFICES ASSUME AdmissionInv, left = {} PROVE AdmittedOnOwnEvidence
    BY DEF AdmittedOnOwnEvidence
  <2>0. Gone = Control /\ head \in BOOLEAN
    BY DEF Gone, AdmissionInv
  <2> DEFINE Owned(own) == /\ \A c, d \in Control : own[c] = own[d] => c = d
                           /\ \A c \in Control : /\ controls[c].status # Missing
                                                 /\ Shown(controls[c], own[c])
  <2>1. ASSUME errors = {}
        PROVE  \E own \in [Control -> File] : Owned(own)
    <3> DEFINE own == [c \in Control |-> controls[c].file]
    <3>1. \A c \in Control : ShownAlone(c)
      BY <2>0, <2>1 DEF AdmissionInv
    <3>2. \A c \in Control : controls[c].file \in File
      <4> SUFFICES ASSUME NEW c \in Control PROVE controls[c].file \in File
        OBVIOUS
      <4> QED
        BY <3>1, PresentIsItem, ShownIsMet DEF ShownAlone
    <3>3. own \in [Control -> File]
      BY <3>2
    <3>4. Owned(own)
      BY <2>0, <2>1, <3>1 DEF AdmissionInv, ShownAlone, Present
    <3> QED
      BY <3>3, <3>4
  <2>2. ASSUME NEW own \in [Control -> File], Owned(own)
        PROVE  errors = {}
    <3>1. \A c \in Control : ShownAlone(c) /\ controls[c].file = own[c]
      BY <2>2 DEF ShownAlone, Present, Shown
    <3>2. SUFFICES ASSUME NEW c \in errors PROVE FALSE
      OBVIOUS
    <3>3. c \in Control
      BY <2>0 DEF AdmissionInv
    <3>4. \E d \in Control : d # c /\ controls[d].file = controls[c].file
      BY <2>0, <3>1, <3>2, <3>3 DEF AdmissionInv
    <3> QED
      BY <2>2, <3>1, <3>3, <3>4
  <2> QED
    BY <2>0, <2>1, <2>2 DEF AdmittedOnOwnEvidence, Admitted
<1> QED
  BY <1>1, AdmissionInvInit, AdmissionInvStep, PTL DEF AdmissionSpec

----------------------------------------------------------------------------
(* EvidenceExport: whose blocks the file and the responses hold.           *)

Place == {"idle", "read", "open", "write", "stat", "stream", "done", "failed"}
Built(f) == package[f].review = "APPROVED"

\* Only packages of an approved run are ever built, written and streamed.
BuiltInv ==
    /\ status \in {"PENDING_REVIEW", "APPROVED", "REJECTED"}
    /\ trail \in Nat
    /\ at \in [Export -> Place]
    /\ package \in [Export -> [review : {"none", "APPROVED"}, size : Nat]]
    /\ onDisk \in Seq(Export)
    /\ received \in [Export -> Seq(Export)]
    /\ promised \in [Export -> Nat]
    /\ undisturbed \subseteq Export
    /\ \A e \in Export : at[e] = "read" => status = "APPROVED"
    /\ \A e \in Export : at[e] \in {"open", "write", "stat", "stream", "done"} => Built(e)
    /\ \A e \in Export : Built(e) => package[e].size # 0
    /\ \A i \in 1 .. Len(onDisk) : Built(onDisk[i])
    /\ \A e \in Export : \A i \in 1 .. Len(received[e]) : Built(received[e][i])

\* Through its writing and streaming an undisturbed request has the file for
\* itself.
OwnFile(e) ==
    /\ at[e] \in {"write", "stat", "stream", "done", "failed"}
    /\ at[e] = "write" => Len(onDisk) = 0
    /\ at[e] \in {"stat", "stream"} => /\ Len(onDisk) = package[e].size
                                       /\ \A i \in 1 .. Len(onDisk) : onDisk[i] = e
    /\ at[e] = "stream" => promised[e] = package[e].size
    /\ at[e] = "done" => Len(received[e]) = package[e].size
    /\ \A i \in 1 .. Len(received[e]) : received[e][i] = e

NothingYet ==
    \A e \in Export : at[e] \in {"idle", "read", "open", "write", "stat"} => Len(received[e]) = 0

ResponseInv == BuiltInv /\ NothingYet /\ \A e \in undisturbed : OwnFile(e)

LEMMA BlocksAreOwn ==
    ASSUME NEW S, NEW e \in S, NEW n \in Nat, NEW new, new = [i \in 1 .. n |-> e]
    PROVE  new \in Seq(S) /\ Len(new) = n /\ \A i \in 1 .. n : new[i] = e
  OBVIOUS

\* What is on the disk after a write: the new blocks, then what is left of
\* the old ones.
LEMMA OverBlocks ==
    ASSUME NEW S, NEW e \in S, NEW n \in Nat, NEW old \in Seq(S),
           NEW new \in Seq(S), Len(new) = n, \A i \in 1 .. n : new[i] = e,
           NEW both, both = Over(new, old)
    PROVE  /\ both \in Seq(S)
           /\ Len(both) = IF n < Len(old) THEN Len(old) ELSE n
           /\ \A i \in 1 .. Len(both) : both[i] = e \/ \E j \in 1 .. Len(old) : both[i] = old[j]
           /\ \A i \in 1 .. n : both[i] = e
<1>1. new \in Seq(S) /\ Len(new) = n /\ \A i \in 1 .. n : new[i] = e
  OBVIOUS
<1> DEFINE same == [i \in 1 .. Len(new) |-> new[i]]
           rest == SubSeq(old, Len(new) + 1, Len(old))
<1>2. same = new
  BY <1>1
<1>3. Len(old) \in Nat /\ \A i \in 1 .. Len(old) : old[i] \in S
  OBVIOUS
<1>4. /\ rest \in Seq(S)
      /\ Len(rest) = IF n < Len(old) THEN Len(old) - n ELSE 0
      /\ \A i \in 1 .. Len(old) - n : rest[i] = old[n + i]
  BY <1>1, <1>3, SubSeqProperties
<1>5. both = new \o rest
  BY <1>2 DEF Over
<1> HIDE DEF same, rest
<1>6. /\ both \in Seq(S)
      /\ Len(both) = n + Len(rest)
      /\ \A i \in 1 .. n + Len(rest) : both[i] = IF i <= n THEN new[i] ELSE rest[i - n]
  <2>1. new \in Seq(S) /\ rest \in Seq(S) /\ Len(new) = n
    BY <1>1, <1>4
  <2>2. /\ new \o rest \in Seq(S)
        /\ Len(new \o rest) = Len(new) + Len(rest)
        /\ \A i \in 1 .. Len(new) + Len(rest) :
              (new \o rest)[i] = IF i <= Len(new) THEN new[i] ELSE rest[i - Len(new)]
    BY <2>1, ConcatProperties, Zenon
  <2> QED
    BY <1>5, <2>1, <2>2, Zenon
<1>7. Len(both) = IF n < Len(old) THEN Len(old) ELSE n
  BY <1>3, <1>4, <1>6
<1>8. \A i \in 1 .. n : both[i] = e
  BY <1>1, <1>4, <1>6
<1>9. ASSUME NEW i \in 1 .. Len(both), ~(i <= n)
      PROVE  i \in 1 .. Len(old) /\ both[i] = old[i]
  <2>1. i - n \in 1 .. Len(old) - n /\ i = n + (i - n)
    BY <1>3, <1>4, <1>6, <1>9
  <2>2. rest[i - n] = old[n + (i - n)]
    BY <1>4, <2>1
  <2>3. i \in 1 .. n + Len(rest)
    BY <1>6
  <2>4. both[i] = rest[i - n]
    BY <1>6, <1>9, <2>3
  <2>5. i \in 1 .. Len(old)
    BY <1>3, <1>4, <1>7, <1>9
  <2> QED
    BY <2>1, <2>2, <2>4, <2>5
<1>10. ASSUME NEW i \in 1 .. Len(both)
       PROVE  both[i] = e \/ \E j \in 1 .. Len(old) : both[i] = old[j]
  <2>1. CASE i <= n
    <3>1. i \in 1 .. n
      BY <2>1
    <3> QED
      BY <1>8, <3>1
  <2>2. CASE ~(i <= n)
    BY <1>9, <2>2
  <2> QED
    BY <2>1, <2>2
<1> QED
  BY <1>6, <1>7, <1>8, <1>10

LEMMA ResponseInvInit == ExportInit => ResponseInv
  BY DEF ExportInit, ResponseInv, BuiltInv, NothingYet, OwnFile, Built, Place

\* A write puts the request's blocks over what the file holds.
LEMMA WriteOver ==
    ASSUME BuiltInv, NEW e \in Export, Write(e)
    PROVE  /\ Built(e) /\ package[e].size \in Nat
           /\ onDisk' \in Seq(Export)
           /\ \A i \in 1 .. Len(onDisk') :
                 onDisk'[i] = e \/ \E j \in 1 .. Len(onDisk) : onDisk'[i] = onDisk[j]
           /\ Len(onDisk) = 0 => Len(onDisk') = package[e].size
           /\ Len(onDisk') \in {Len(onDisk), package[e].size}
<1> DEFINE new == Blocks(e)
           both == Over(new, onDisk)
<1>1. new = [i \in 1 .. package[e].size |-> e]
  BY DEF Blocks
<1>2. both = Over(new, onDisk) /\ onDisk' = both
  BY DEF Write
<1> HIDE DEF new, both
<1>3. package[e].size \in Nat /\ Built(e) /\ onDisk \in Seq(Export)
  BY DEF BuiltInv, Write
<1>4. /\ new \in Seq(Export) /\ Len(new) = package[e].size
      /\ \A i \in 1 .. package[e].size : new[i] = e
  BY <1>1, <1>3, BlocksAreOwn
<1>5. both \in Seq(Export)
  BY <1>2, <1>3, <1>4, OverBlocks
<1>6. \A i \in 1 .. Len(both) : both[i] = e \/ \E j \in 1 .. Len(onDisk) : both[i] = onDisk[j]
  BY <1>2, <1>3, <1>4, OverBlocks
<1>7. Len(both) = IF package[e].size < Len(onDisk) THEN Len(onDisk) ELSE package[e].size
  BY <1>2, <1>3, <1>4, OverBlocks
<1> QED
  BY <1>2, <1>3, <1>5, <1>6, <1>7

LEMMA BuiltStep == BuiltInv /\ [ExportNext]_exportVars => BuiltInv'
<1> SUFFICES ASSUME BuiltInv, [ExportNext]_exportVars PROVE BuiltInv'
  OBVIOUS
<1>0. /\ onDisk \in Seq(Export) /\ Len(onDisk) \in Nat
      /\ \A e \in Export : received[e] \in Seq(Export) /\ Len(received[e]) \in Nat
      /\ \A i \in 1 .. Len(onDisk) : onDisk[i] \in Export /\ Built(onDisk[i])
  BY DEF BuiltInv
<1>00. \A e \in Export : \A i \in 1 .. Len(received[e]) :
         received[e][i] \in Export /\ Built(received[e][i])
  <2> SUFFICES ASSUME NEW e \in Export, NEW i \in 1 .. Len(received[e])
               PROVE  received[e][i] \in Export /\ Built(received[e][i])
    OBVIOUS
  <2> QED
    BY <1>0 DEF BuiltInv
<1> USE DEF BuiltInv, Built
<1>1. CASE UNCHANGED exportVars
  BY <1>1 DEF exportVars, responseVars
<1>2. CASE GrowTrail \/ \E decision \in {"APPROVED", "REJECTED"} : Decide(decision)
  <2>1. /\ UNCHANGED <<package, onDisk, at, received, promised, undisturbed>>
        /\ trail' \in Nat /\ status' \in {"PENDING_REVIEW", "APPROVED", "REJECTED"}
        /\ status = "APPROVED" => status' = "APPROVED"
    BY <1>2 DEF GrowTrail, Decide, responseVars
  <2> QED
    BY <2>1
<1>3. ASSUME NEW e \in Export, Check(e) PROVE BuiltInv'
  BY <1>3 DEF Check, MayRead, responseVars, Place
<1>4. ASSUME NEW e \in Export, BuildPackage(e) PROVE BuiltInv'
  <2>1. /\ package' = [package EXCEPT ![e] = [review |-> "APPROVED", size |-> trail + 1]]
        /\ at' = [at EXCEPT ![e] = "open"]
        /\ UNCHANGED <<status, trail, onDisk, received, promised, undisturbed>>
    BY <1>4 DEF BuildPackage, responseVars
  <2>2. /\ package' \in [Export -> [review : {"none", "APPROVED"}, size : Nat]]
        /\ package'[e].review = "APPROVED" /\ package'[e].size # 0
        /\ \A f \in Export \ {e} : package'[f] = package[f]
    BY <2>1
  <2>3. at' \in [Export -> Place] /\ \A f \in Export : at'[f] = IF f = e THEN "open" ELSE at[f]
    BY <2>1 DEF Place
  <2>4. \A f \in Export : Built(f) => Built(f)'
    BY <2>2
  <2>5. \A f \in Export : Built(f)' => package'[f].size # 0
    BY <2>2
  <2>6. \A i \in 1 .. Len(onDisk) : Built(onDisk[i])'
    <3> HIDE DEF BuiltInv, Built
    <3> QED
      BY <1>0, <2>1, <2>4
  <2>7. \A f \in Export : \A i \in 1 .. Len(received[f]) : Built(received[f][i])'
    <3> HIDE DEF BuiltInv, Built
    <3> QED
      BY <1>00, <2>1, <2>4
  <2> QED
    BY <2>1, <2>2, <2>3, <2>5, <2>6, <2>7
<1>5. ASSUME NEW e \in Export, Open(e) PROVE BuiltInv'
  <2>1. /\ at[e] = "open" /\ at' = [at EXCEPT ![e] = "write"]
        /\ onDisk' = <<>> /\ undisturbed' \subseteq Export
        /\ UNCHANGED <<status, trail, package, received, promised>>
    BY <1>5 DEF Open, responseVars
  <2>2. at' \in [Export -> Place] /\ \A f \in Export : at'[f] = IF f = e THEN "write" ELSE at[f]
    BY <2>1 DEF Place
  <2>3. onDisk' \in Seq(Export) /\ Len(onDisk') = 0
    BY <2>1
  <2> QED
    BY <2>1, <2>2, <2>3
<1>6. ASSUME NEW e \in Export, Write(e) PROVE BuiltInv'
  <2>1. /\ Built(e)
        /\ onDisk' \in Seq(Export)
        /\ \A i \in 1 .. Len(onDisk') :
              onDisk'[i] = e \/ \E j \in 1 .. Len(onDisk) : onDisk'[i] = onDisk[j]
    BY <1>6, WriteOver
  <2>2. \A i \in 1 .. Len(onDisk') : Built(onDisk'[i])
    BY <1>0, <2>1
  <2>3. /\ at' = [at EXCEPT ![e] = "stat"]
        /\ undisturbed' \subseteq Export
        /\ UNCHANGED <<status, trail, package, received, promised>>
    BY <1>6 DEF Write, responseVars
  <2>4. at' \in [Export -> Place] /\ \A f \in Export : at'[f] = IF f = e THEN "stat" ELSE at[f]
    BY <2>3 DEF Place
  <2> QED
    BY <2>1, <2>2, <2>3, <2>4
<1>7. ASSUME NEW e \in Export, Stat(e) PROVE BuiltInv'
  BY <1>0, <1>7 DEF Stat, Place
<1>8. ASSUME NEW e \in Export, StreamBlock(e) PROVE BuiltInv'
  <2> DEFINE block == onDisk[Len(received[e]) + 1]
             more == Append(received[e], block)
  <2>1. Len(received[e]) + 1 \in 1 .. Len(onDisk)
    BY <1>0, <1>8 DEF StreamBlock
  <2>2. block \in Export /\ Built(block)
    BY <2>1
  <2>3. /\ received' = [received EXCEPT ![e] = more]
        /\ UNCHANGED <<status, trail, package, onDisk, at, promised, undisturbed>>
    BY <1>8 DEF StreamBlock
  <2> HIDE DEF block
  <2>4. /\ more \in Seq(Export) /\ Len(more) = Len(received[e]) + 1
        /\ \A i \in 1 .. Len(more) : more[i] = IF i = Len(more) THEN block ELSE received[e][i]
    <3> DEFINE have == received[e]
    <3>1. have \in Seq(Export) /\ Len(have) \in Nat /\ block \in Export
      BY <1>0, <2>2
    <3> HIDE DEF have, BuiltInv
    <3>2. /\ Append(have, block) \in Seq(Export)
          /\ Len(Append(have, block)) = Len(have) + 1
          /\ \A i \in 1 .. Len(have) + 1 :
                Append(have, block)[i] = IF i = Len(have) + 1 THEN block ELSE have[i]
      BY <3>1
    <3> QED
      BY <3>1, <3>2 DEF have
  <2> HIDE DEF more
  <2>5. \A i \in 1 .. Len(more) : Built(more[i])
    <3> SUFFICES ASSUME NEW i \in 1 .. Len(more) PROVE Built(more[i])
      OBVIOUS
    <3>1. i = Len(more) \/ i \in 1 .. Len(received[e])
      BY <1>0, <2>4
    <3> HIDE DEF Built
    <3> QED
      BY <1>00, <2>2, <2>4, <3>1
  <2>6. received' \in [Export -> Seq(Export)]
    BY <1>0, <2>3, <2>4
  <2>7. \A f \in Export : \A i \in 1 .. Len(received'[f]) : Built(received'[f][i])
    <3> SUFFICES ASSUME NEW f \in Export, NEW i \in 1 .. Len(received'[f])
                 PROVE  Built(received'[f][i])
      OBVIOUS
    <3>1. CASE f = e
      BY <1>0, <2>3, <2>5, <3>1
    <3>2. CASE f # e
      BY <1>0, <1>00, <2>3, <3>2
    <3> QED
      BY <3>1, <3>2
  <2> QED
    BY <2>3, <2>6, <2>7
<1>9. ASSUME NEW e \in Export, EndStream(e) \/ ExportFails(e) PROVE BuiltInv'
  <2>1. /\ \E place \in {"done", "failed"} : /\ at' = [at EXCEPT ![e] = place]
                                             /\ place = "done" => at[e] = "stream"
        /\ UNCHANGED <<status, trail, package, onDisk, received, promised, undisturbed>>
    BY <1>9 DEF EndStream, ExportFails, responseVars
  <2> QED
    BY <2>1 DEF Place
<1> QED
  BY <1>1, <1>2, <1>3, <1>4, <1>5, <1>6, <1>7, <1>8, <1>9 DEF ExportNext

LEMMA NothingYetStep == ResponseInv /\ [ExportNext]_exportVars => NothingYet'
<1> SUFFICES ASSUME ResponseInv, [ExportNext]_exportVars PROVE NothingYet'
  OBVIOUS
<1> USE DEF ResponseInv, NothingYet
<1>1. CASE UNCHANGED exportVars \/ GrowTrail \/ \E d \in {"APPROVED", "REJECTED"} : Decide(d)
  BY <1>1 DEF exportVars, responseVars, GrowTrail, Decide
<1>2. ASSUME NEW e \in Export,
             Check(e) \/ BuildPackage(e) \/ Open(e) \/ Write(e) \/ Stat(e) \/ EndStream(e)
             \/ ExportFails(e)
      PROVE  NothingYet'
  BY <1>2 DEF Check, BuildPackage, Open, Write, Stat, EndStream, ExportFails, responseVars, BuiltInv
<1>3. ASSUME NEW e \in Export, StreamBlock(e) PROVE NothingYet'
  BY <1>3 DEF StreamBlock, BuiltInv
<1> QED
  BY <1>1, <1>2, <1>3 DEF ExportNext

\* What a request leaves alone stays its own.
LEMMA OwnFileKept ==
    ASSUME NEW e \in Export, OwnFile(e),
           at'[e] = at[e], package'[e] = package[e], promised'[e] = promised[e],
           received'[e] = received[e],
           at[e] \in {"write", "stat", "stream"} => onDisk' = onDisk
    PROVE  OwnFile(e)'
  BY DEF OwnFile

LEMMA OwnFileStep ==
    ResponseInv /\ [ExportNext]_exportVars => (\A e \in undisturbed : OwnFile(e))'
<1> SUFFICES ASSUME ResponseInv, [ExportNext]_exportVars, NEW e \in undisturbed'
             PROVE  OwnFile(e)'
  OBVIOUS
<1>0. /\ undisturbed \subseteq Export /\ at \in [Export -> Place]
      /\ package \in [Export -> [review : {"none", "APPROVED"}, size : Nat]]
      /\ onDisk \in Seq(Export) /\ received \in [Export -> Seq(Export)]
      /\ promised \in [Export -> Nat]
      /\ \A f \in Export : at[f] \in {"idle", "read", "open", "write", "stat"} => Len(received[f]) = 0
      /\ \A f \in undisturbed : OwnFile(f)
  BY DEF ResponseInv, BuiltInv, NothingYet
<1>1. CASE UNCHANGED exportVars \/ GrowTrail \/ \E d \in {"APPROVED", "REJECTED"} : Decide(d)
  <2>1. /\ UNCHANGED <<at, package, promised, received, onDisk, undisturbed>>
        /\ e \in Export /\ OwnFile(e)
    BY <1>0, <1>1 DEF exportVars, responseVars, GrowTrail, Decide
  <2> QED
    BY <2>1, OwnFileKept
<1>2. ASSUME NEW f \in Export,
             Check(f) \/ BuildPackage(f) \/ ExportFails(f)
      PROVE  OwnFile(e)'
  <2>0. /\ UNCHANGED <<promised, received, onDisk, undisturbed>>
        /\ \A g \in Export \ {f} : at'[g] = at[g] /\ package'[g] = package[g]
        /\ at[f] \notin {"idle", "read"} => at'[f] = "failed"
    BY <1>0, <1>2 DEF Check, BuildPackage, ExportFails, responseVars
  <2>1. e \in Export /\ OwnFile(e) /\ (f = e => at'[e] = "failed")
    BY <1>0, <2>0 DEF OwnFile
  <2>2. CASE f = e
    BY <2>0, <2>1, <2>2 DEF OwnFile
  <2>3. CASE f # e
    BY <2>0, <2>1, <2>3, OwnFileKept
  <2> QED
    BY <2>2, <2>3
<1>3. ASSUME NEW f \in Export, Open(f)
      PROVE  OwnFile(e)'
  <2>1. /\ at[f] = "open" /\ at' = [at EXCEPT ![f] = "write"] /\ onDisk' = <<>>
        /\ UNCHANGED <<package, promised, received>>
        /\ e = f \/ (e \in undisturbed /\ e \notin Others(f))
    BY <1>3 DEF Open, responseVars
  <2>2. CASE e = f
    BY <1>0, <2>1, <2>2 DEF OwnFile
  <2>3. CASE e # f
    <3>1. e \in Export /\ OwnFile(e) /\ at[e] \notin {"write", "stat", "stream"}
      BY <1>0, <2>1, <2>3 DEF Others
    <3> QED
      BY <1>0, <2>1, <2>3, <3>1, OwnFileKept
  <2> QED
    BY <2>2, <2>3
<1>4. ASSUME NEW f \in Export, Write(f)
      PROVE  OwnFile(e)'
  <2>1. /\ at[f] = "write" /\ at' = [at EXCEPT ![f] = "stat"]
        /\ UNCHANGED <<package, promised, received>>
        /\ e \in undisturbed /\ e \notin Others(f) /\ e \in Export /\ OwnFile(e)
    BY <1>0, <1>4 DEF Write, responseVars
  <2>2. CASE e = f
    <3>1. Len(onDisk) = 0
      BY <2>1, <2>2 DEF OwnFile
    <3>2. /\ Len(onDisk') = package[f].size
          /\ \A i \in 1 .. Len(onDisk') :
                 onDisk'[i] = f \/ \E j \in 1 .. Len(onDisk) : onDisk'[i] = onDisk[j]
      BY <1>4, <3>1, WriteOver DEF ResponseInv
    <3>3. \A i \in 1 .. Len(onDisk') : onDisk'[i] = f
      BY <3>1, <3>2
    <3> QED
      BY <1>0, <2>1, <2>2, <3>2, <3>3 DEF OwnFile
  <2>3. CASE e # f
    <3>1. at[e] \notin {"write", "stat", "stream"}
      BY <2>1, <2>3 DEF Others
    <3> QED
      BY <1>0, <2>1, <2>3, <3>1, OwnFileKept
  <2> QED
    BY <2>2, <2>3
<1>5. ASSUME NEW f \in Export, Stat(f)
      PROVE  OwnFile(e)'
  <2>1. /\ at[f] = "stat" /\ at' = [at EXCEPT ![f] = "stream"]
        /\ promised' = [promised EXCEPT ![f] = Len(onDisk)]
        /\ UNCHANGED <<package, received, onDisk>>
        /\ e \in Export /\ OwnFile(e)
    BY <1>0, <1>5 DEF Stat
  <2>2. CASE e = f
    BY <1>0, <2>1, <2>2 DEF OwnFile
  <2>3. CASE e # f
    BY <1>0, <2>1, <2>3, OwnFileKept
  <2> QED
    BY <2>2, <2>3
<1>6. ASSUME NEW f \in Export, StreamBlock(f)
      PROVE  OwnFile(e)'
  <2>1. /\ at[f] = "stream" /\ Len(received[f]) < Len(onDisk)
        /\ received' = [received EXCEPT ![f] = Append(received[f], onDisk[Len(received[f]) + 1])]
        /\ UNCHANGED <<at, package, promised, onDisk>>
        /\ e \in Export /\ OwnFile(e)
    BY <1>0, <1>6 DEF StreamBlock
  <2>2. CASE e = f
    <3>1. Len(received[e]) \in Nat /\ Len(onDisk) \in Nat
      <4>1. received[e] \in Seq(Export) /\ onDisk \in Seq(Export)
        BY <1>0, <2>1
      <4> QED
        BY <4>1
    <3>2. Len(received[e]) + 1 \in 1 .. Len(onDisk)
      BY <2>1, <2>2, <3>1
    <3>3. onDisk[Len(received[e]) + 1] = e
      BY <2>1, <2>2, <3>2 DEF OwnFile
    <3>4. received'[e] = Append(received[e], e)
      BY <1>0, <2>1, <2>2, <3>3
    <3>5. \A i \in 1 .. Len(received[e]) : received[e][i] = e
      BY <2>1 DEF OwnFile
    <3>6. \A i \in 1 .. Len(received'[e]) : received'[e][i] = e
      <4> DEFINE have == received[e]
      <4>1. have \in Seq(Export) /\ e \in Export /\ \A i \in 1 .. Len(have) : have[i] = e
        BY <1>0, <2>1, <3>5
      <4> HIDE DEF have
      <4>2. \A i \in 1 .. Len(Append(have, e)) : Append(have, e)[i] = e
        BY <4>1
      <4> QED
        BY <3>4, <4>2 DEF have
    <3> QED
      BY <2>1, <2>2, <3>6 DEF OwnFile
  <2>3. CASE e # f
    BY <1>0, <2>1, <2>3, OwnFileKept
  <2> QED
    BY <2>2, <2>3
<1>7. ASSUME NEW f \in Export, EndStream(f)
      PROVE  OwnFile(e)'
  <2>1. /\ at[f] = "stream"
        /\ \/ at' = [at EXCEPT ![f] = "failed"]
           \/ at' = [at EXCEPT ![f] = "done"] /\ Len(received[f]) = promised[f]
        /\ UNCHANGED <<package, promised, received, onDisk>>
        /\ e \in Export /\ OwnFile(e)
    BY <1>0, <1>7 DEF EndStream, responseVars
  <2>2. CASE e = f
    BY <1>0, <2>1, <2>2 DEF OwnFile
  <2>3. CASE e # f
    BY <1>0, <2>1, <2>3, OwnFileKept
  <2> QED
    BY <2>2, <2>3
<1> QED
  BY <1>1, <1>2, <1>3, <1>4, <1>5, <1>6, <1>7 DEF ExportNext

LEMMA ResponseInvStep == ResponseInv /\ [ExportNext]_exportVars => ResponseInv'
  BY BuiltStep, NothingYetStep, OwnFileStep DEF ResponseInv

\* The sizes: a file or a response is never longer than the largest package,
\* and a client never has more than it was promised.
SizesFit ==
    /\ trail <= MaxTrail
    /\ Len(onDisk) <= MaxTrail + 1
    /\ \A e \in Export : package[e].size <= MaxTrail + 1
    /\ \A e \in Export : promised[e] <= MaxTrail + 1
    /\ \A e \in Export : Len(received[e]) <= promised[e]

LEMMA SizesInit == ExportInit => SizesFit
  BY ExportAssumption DEF ExportInit, SizesFit

LEMMA SizesStep == ResponseInv /\ SizesFit /\ [ExportNext]_exportVars => SizesFit'
<1> SUFFICES ASSUME ResponseInv, SizesFit, [ExportNext]_exportVars PROVE SizesFit'
  OBVIOUS
<1>0. /\ onDisk \in Seq(Export) /\ Len(onDisk) \in Nat /\ trail \in Nat /\ MaxTrail \in Nat
      /\ package \in [Export -> [review : {"none", "APPROVED"}, size : Nat]]
      /\ promised \in [Export -> Nat] /\ received \in [Export -> Seq(Export)]
      /\ \A e \in Export : Len(received[e]) \in Nat /\ received[e] \in Seq(Export)
  BY ExportAssumption DEF ResponseInv, BuiltInv
<1> USE DEF SizesFit
<1>1. ASSUME UNCHANGED <<package, onDisk, promised, received>>, trail' <= MaxTrail
      PROVE  SizesFit'
  BY <1>1
<1>2. CASE UNCHANGED exportVars \/ GrowTrail \/ \E d \in {"APPROVED", "REJECTED"} : Decide(d)
  <2>1. UNCHANGED <<package, onDisk, promised, received>> /\ trail' <= MaxTrail
    BY <1>0, <1>2 DEF exportVars, responseVars, GrowTrail, Decide
  <2> QED
    BY <1>1, <2>1
<1>3. ASSUME NEW e \in Export, Check(e) \/ EndStream(e) \/ ExportFails(e) PROVE SizesFit'
  BY <1>1, <1>3 DEF Check, EndStream, ExportFails, responseVars
<1>4. ASSUME NEW e \in Export, BuildPackage(e) PROVE SizesFit'
  <2>1. UNCHANGED <<trail, onDisk, promised, received>>
    BY <1>4 DEF BuildPackage, responseVars
  <2>2. \A f \in Export : package'[f].size = IF f = e THEN trail + 1 ELSE package[f].size
    BY <1>0, <1>4 DEF BuildPackage
  <2>3. trail + 1 <= MaxTrail + 1
    BY <1>0
  <2>4. \A f \in Export : package'[f].size <= MaxTrail + 1
    BY <2>2, <2>3
  <2>5. /\ trail' <= MaxTrail /\ Len(onDisk') <= MaxTrail + 1
        /\ \A f \in Export : promised'[f] <= MaxTrail + 1 /\ Len(received'[f]) <= promised'[f]
    BY <2>1
  <2> QED
    BY <2>4, <2>5
<1>5. ASSUME NEW e \in Export, Open(e) \/ Write(e) PROVE SizesFit'
  <2>1. UNCHANGED <<trail, package, promised, received>>
    BY <1>5 DEF Open, Write, responseVars
  <2>2. Len(onDisk') \in {0, Len(onDisk), package[e].size}
    BY <1>5, WriteOver DEF Open, ResponseInv
  <2> QED
    BY <1>0, <2>1, <2>2
<1>6. ASSUME NEW e \in Export, Stat(e) PROVE SizesFit'
  <2>1. UNCHANGED <<trail, package, onDisk, received>> /\ Len(received[e]) = 0
    BY <1>6 DEF Stat, ResponseInv, NothingYet
  <2>2. \A f \in Export : promised'[f] = IF f = e THEN Len(onDisk) ELSE promised[f]
    BY <1>0, <1>6 DEF Stat
  <2>3. \A f \in Export : promised'[f] <= MaxTrail + 1
    BY <2>2
  <2>4. ASSUME NEW f \in Export PROVE Len(received[f]) <= promised'[f]
    <3>1. CASE f = e
      <4>1. promised'[f] = Len(onDisk)
        BY <2>2, <3>1
      <4>2. Len(onDisk) >= 0 /\ Len(received[f]) = 0
        BY <1>0, <2>1, <3>1
      <4> HIDE DEF SizesFit
      <4> QED
        BY <4>1, <4>2
    <3>2. CASE f # e
      BY <2>2, <3>2
    <3> QED
      BY <3>1, <3>2
  <2>5. /\ trail' <= MaxTrail /\ Len(onDisk') <= MaxTrail + 1
        /\ \A f \in Export : package'[f].size <= MaxTrail + 1
    BY <2>1
  <2> QED
    BY <2>1, <2>3, <2>4, <2>5
<1>7. ASSUME NEW e \in Export, StreamBlock(e) PROVE SizesFit'
  <2>1. UNCHANGED <<trail, package, onDisk, promised>> /\ Len(received[e]) < promised[e]
    BY <1>7 DEF StreamBlock
  <2>2. \A f \in Export : Len(received'[f]) = IF f = e THEN Len(received[e]) + 1
                                                      ELSE Len(received[f])
    <3> DEFINE block == onDisk[Len(received[e]) + 1]
    <3>1. /\ received' = [received EXCEPT ![e] = Append(received[e], block)]
          /\ block \in Export
      BY <1>0, <1>7 DEF StreamBlock
    <3>2. Len(Append(received[e], block)) = Len(received[e]) + 1
      BY <1>0, <3>1
    <3> HIDE DEF block
    <3> QED
      BY <1>0, <3>1, <3>2
  <2>3. Len(received[e]) + 1 <= promised[e]
    BY <1>0, <2>1
  <2>4. \A f \in Export : Len(received'[f]) <= promised[f]
    BY <2>2, <2>3
  <2>5. /\ trail' <= MaxTrail /\ Len(onDisk') <= MaxTrail + 1
        /\ \A f \in Export : package'[f].size <= MaxTrail + 1 /\ promised'[f] <= MaxTrail + 1
        /\ promised' = promised
    BY <2>1
  <2> QED
    BY <2>4, <2>5
<1> QED
  BY <1>2, <1>3, <1>4, <1>5, <1>6, <1>7 DEF ExportNext

(* However exports write over each other's file, it never grows past the   *)
(* largest package, and no client gets more than its Content-Length        *)
(* (write_bytes, FileResponse).                                            *)
THEOREM ExportTypeCorrect == ExportSpec => []ExportTypeOK
<1>1. ResponseInv /\ SizesFit => ExportTypeOK
  <2> SUFFICES ASSUME ResponseInv, SizesFit PROVE ExportTypeOK
    OBVIOUS
  <2>1. /\ status \in {"PENDING_REVIEW", "APPROVED", "REJECTED"}
        /\ trail \in Size /\ trail \in 0 .. MaxTrail
        /\ undisturbed \subseteq Export
        /\ at \in [Export -> {"idle", "read", "open", "write", "stat", "stream", "done", "failed"}]
    BY ExportAssumption DEF ResponseInv, BuiltInv, SizesFit, Place, Size
  <2>2. package \in [Export -> [review : {"none", "PENDING_REVIEW", "APPROVED", "REJECTED"},
                                size : Size]]
    <3>1. /\ package \in [Export -> [review : {"none", "APPROVED"}, size : Nat]]
          /\ \A e \in Export : package[e].size <= MaxTrail + 1
      BY DEF ResponseInv, BuiltInv, SizesFit
    <3> QED
      BY <3>1, ExportAssumption DEF Size
  <2>3. promised \in [Export -> Size]
    <3>1. promised \in [Export -> Nat] /\ \A e \in Export : promised[e] <= MaxTrail + 1
      BY DEF ResponseInv, BuiltInv, SizesFit
    <3> QED
      BY <3>1, ExportAssumption DEF Size
  <2>4. \A i \in 1 .. Len(onDisk) : onDisk[i] \in Export
    BY DEF ResponseInv, BuiltInv
  <2>5. \A e \in Export : Len(received[e]) <= promised[e]
    BY DEF SizesFit
  <2> QED
    BY <2>1, <2>2, <2>3, <2>4, <2>5 DEF ExportTypeOK
<1> QED
  BY <1>1, SizesInit, SizesStep, ResponseInvInit, ResponseInvStep, PTL DEF ExportSpec

(* A response that no other export disturbed is the requester's whole      *)
(* package, and what a client has received whole is a package of an        *)
(* approved run, however many exports of the run write and read the one    *)
(* file together (tax_evidence, export_tax_run).                           *)
THEOREM ResponseAlwaysPackage == ExportSpec => []ResponseIsPackage
<1>1. ResponseInv => ResponseIsPackage
  <2> SUFFICES ASSUME ResponseInv, NEW e \in Export, at[e] = "done"
               PROVE  /\ e \in undisturbed => Verifies(received[e], e)
                      /\ \A f \in Export : Verifies(received[e], f) => Built(f)
    BY DEF ResponseIsPackage, Built
  <2> DEFINE blocks == received[e]
  <2>1. /\ blocks \in Seq(Export) /\ Built(e)
        /\ package[e].size \in Nat /\ package[e].size # 0
        /\ \A f \in Export : package[f].size \in Nat
        /\ \A i \in 1 .. Len(blocks) : Built(blocks[i])
    BY DEF ResponseInv, BuiltInv
  <2>2. e \in undisturbed => Len(blocks) = package[e].size /\ \A i \in 1 .. Len(blocks) : blocks[i] = e
    BY DEF ResponseInv, OwnFile
  <2> HIDE DEF blocks
  <2>3. ASSUME e \in undisturbed
        PROVE  Verifies(blocks, e)
    <3> DEFINE own == Blocks(e)
    <3>1. own = [i \in 1 .. package[e].size |-> e]
      BY DEF Blocks
    <3> HIDE DEF own
    <3>2. own \in Seq(Export) /\ Len(own) = package[e].size /\ \A i \in 1 .. package[e].size : own[i] = e
      BY <2>1, <3>1, BlocksAreOwn
    <3>3. blocks = own
      BY <2>1, <2>2, <2>3, <3>2, SeqEqual
    <3>4. blocks # <<>>
      BY <2>1, <2>2, <2>3
    <3> QED
      BY <3>3, <3>4 DEF Verifies, own
  <2>4. ASSUME NEW f \in Export, Verifies(blocks, f)
        PROVE  Built(f)
    <3>1. blocks # <<>> /\ blocks = [i \in 1 .. package[f].size |-> f]
      BY <2>4 DEF Verifies, Blocks
    <3>2. Len(blocks) \in Nat /\ Len(blocks) # 0
      BY <2>1, <3>1
    <3>3. 1 \in 1 .. Len(blocks) /\ Len(blocks) = package[f].size
      BY <2>1, <3>1, <3>2
    <3>4. blocks[1] = f
      BY <3>1, <3>3
    <3> QED
      BY <2>1, <3>3, <3>4
  <2> QED
    BY <2>3, <2>4 DEF blocks
<1> QED
  BY <1>1, ResponseInvInit, ResponseInvStep, PTL DEF ExportSpec

----------------------------------------------------------------------------
(* RegIntel: what sorting and cutting off leaves of a ranking.             *)

\* A finite set that a strict order is defined on has a least element.
LEMMA LeastNumber ==
    ASSUME NEW S, IsFiniteSet(S), S # {}, NEW lower \in [S -> SUBSET S],
           \A x \in S : x \notin lower[x],
           \A x \in S : \A y \in lower[x] : lower[y] \subseteq lower[x]
    PROVE  \E x \in S : lower[x] = {}
<1> DEFINE R == StrictSubsetOrdering(S)
           T == {lower[x] : x \in S}
<1>1. \A U \in SUBSET S : IsFiniteSet(U)
  BY FS_Subset
<1>2. T \subseteq FiniteSubsetsOf(S) /\ T # {}
  BY <1>1 DEF FiniteSubsetsOf
<1>3. IsWellFoundedOn(R, FiniteSubsetsOf(S))
  BY FS_StrictSubsetOrderingWellFounded
<1> HIDE DEF R
<1>4. \E U \in T : \A V \in T : ~(<<V, U>> \in R)
  <2> HIDE DEF T
  <2> QED
    BY <1>2, <1>3, WFMin
<1>5. PICK x \in S : \A y \in S : <<lower[y], lower[x]>> \notin R
  BY <1>4
<1>6. ASSUME NEW y \in lower[x] PROVE FALSE
  <2>1. y \in S /\ lower[y] \subseteq lower[x] /\ lower[y] # lower[x]
    OBVIOUS
  <2>2. <<lower[y], lower[x]>> \in R
    BY <2>1 DEF R, StrictSubsetOrdering
  <2> QED
    BY <1>5, <2>1, <2>2
<1> QED
  BY <1>6

LEMMA MaximumIsMember ==
    ASSUME NEW S \in SUBSET Nat, IsFiniteSet(S), S # {}
    PROVE  Maximum(S) \in S /\ \A y \in S : y <= Maximum(S)
<1> DEFINE lower == [x \in S |-> {y \in S : x < y}]
<1>1. \E x \in S : lower[x] = {}
  <2>1. lower \in [S -> SUBSET S]
    OBVIOUS
  <2>2. \A x \in S : x \notin lower[x]
    OBVIOUS
  <2>3. \A x \in S : \A y \in lower[x] : lower[y] \subseteq lower[x]
    <3> SUFFICES ASSUME NEW x \in S, NEW y \in lower[x], NEW z \in lower[y]
                 PROVE  z \in lower[x]
      OBVIOUS
    <3>1. /\ x \in Nat /\ y \in Nat /\ z \in Nat /\ z \in S /\ y \in S
          /\ x < y /\ y < z
      OBVIOUS
    <3>2. x < z
      BY <3>1
    <3> QED
      BY <3>1, <3>2
  <2> HIDE DEF lower
  <2> QED
    BY <2>1, <2>2, <2>3, LeastNumber
<1>2. \E x \in S : \A y \in S : y <= x
  BY <1>1
<1> QED
  BY <1>2 DEF Maximum

\* Rows and a score for each of them.
Scored(rows, score) ==
    /\ rows \in Seq(Version)
    /\ score \in [1 .. Len(rows) -> Nat]

LEMMA RowText ==
    ASSUME NEW rows \in Seq(Version), NEW i \in 1 .. Len(rows)
    PROVE  rows[i] \in Version /\ rows[i].text \in Text /\ rows[i].text \in Nat
<1>1. rows[i] \in Version
  OBVIOUS
<1> QED
  BY <1>1, RegIntelAssumption DEF Version

\* A row with the greatest score is among the first.
LEMMA BestIsOnTop ==
    ASSUME NEW rows, NEW score, Scored(rows, score),
           NEW set \in SUBSET (1 .. Len(rows)), set # {}, NEW limit \in Nat \ {0}
    PROVE  \E h \in Top(rows, score, set, limit) : \A i \in set : score[i] <= score[h]
<1>0. /\ Len(rows) \in Nat
      /\ \A i \in set : i \in Nat /\ score[i] \in Nat /\ rows[i].text \in Nat
  BY RowText DEF Scored
<1> DEFINE lower == [x \in set |-> {y \in set : Before(rows, score, y, x)}]
<1>1. \E h \in set : lower[h] = {}
  <2>1. lower \in [set -> SUBSET set]
    OBVIOUS
  <2>2. \A x \in set : x \notin lower[x]
    BY <1>0 DEF Before
  <2>3. \A x \in set : \A y \in lower[x] : lower[y] \subseteq lower[x]
    <3> SUFFICES ASSUME NEW x \in set, NEW y \in lower[x], NEW z \in lower[y]
                 PROVE  z \in lower[x]
      OBVIOUS
    <3>1. /\ y \in set /\ z \in set
          /\ Before(rows, score, y, x) /\ Before(rows, score, z, y)
      OBVIOUS
    <3>2. Before(rows, score, z, x)
      BY <1>0, <3>1 DEF Before
    <3> QED
      BY <3>1, <3>2
  <2>4. IsFiniteSet(set)
    <3>1. IsFiniteSet(1 .. Len(rows))
      BY <1>0, FS_Interval
    <3> QED
      BY <3>1, FS_Subset
  <2> HIDE DEF lower
  <2> QED
    BY <2>1, <2>2, <2>3, <2>4, LeastNumber
<1>2. PICK h \in set : {y \in set : Before(rows, score, y, h)} = {}
  BY <1>1
<1>3. h \in Top(rows, score, set, limit)
  BY <1>2, FS_EmptySet DEF Top
<1>4. \A i \in set : score[i] <= score[h]
  BY <1>0, <1>2 DEF Before
<1> QED
  BY <1>3, <1>4

\* A limit of as many as there are rows cuts nothing off.
LEMMA AllOnTop ==
    ASSUME NEW rows, NEW score, Scored(rows, score),
           NEW set \in SUBSET (1 .. Len(rows))
    PROVE  Top(rows, score, set, Len(rows)) = set
<1>0. /\ Len(rows) \in Nat
      /\ \A i \in set : i \in Nat /\ score[i] \in Nat /\ rows[i].text \in Nat
  BY RowText DEF Scored
<1>1. ASSUME NEW i \in set
      PROVE  Cardinality({j \in set : Before(rows, score, j, i)}) < Len(rows)
  <2> DEFINE before == {j \in set : Before(rows, score, j, i)}
  <2>1. i \notin before
    <3>1. score[i] \in Nat /\ rows[i].text \in Nat /\ i \in Nat
      BY <1>0
    <3>2. ~Before(rows, score, i, i)
      BY <3>1 DEF Before
    <3> QED
      BY <3>2
  <2>2. /\ IsFiniteSet(1 .. Len(rows)) /\ Cardinality(1 .. Len(rows)) = Len(rows)
    <3> DEFINE n == Len(rows)
    <3>1. n \in Nat
      BY <1>0
    <3> HIDE DEF n
    <3>2. /\ IsFiniteSet(1 .. n)
          /\ Cardinality(1 .. n) = IF 1 > n THEN 0 ELSE n - 1 + 1
      BY <3>1, FS_Interval
    <3>3. Cardinality(1 .. n) = n
      BY <3>1, <3>2
    <3> QED
      BY <3>2, <3>3 DEF n
  <2>3. before \in SUBSET (1 .. Len(rows)) /\ before # 1 .. Len(rows)
    <3>1. i \in 1 .. Len(rows) /\ before \subseteq set /\ set \subseteq 1 .. Len(rows)
      OBVIOUS
    <3> HIDE DEF before
    <3> QED
      BY <2>1, <3>1
  <2> HIDE DEF before
  <2> DEFINE all == 1 .. Len(rows)
  <2> HIDE DEF all
  <2>4. /\ IsFiniteSet(before) /\ Cardinality(before) <= Cardinality(all)
        /\ Cardinality(all) = Cardinality(before) => all = before
    <3>1. IsFiniteSet(all) /\ before \in SUBSET all
      BY <2>2, <2>3 DEF all
    <3> QED
      BY <3>1, FS_Subset
  <2>5. Cardinality(before) \in Nat
    BY <2>4, FS_CardinalityType
  <2>6. Cardinality(all) = Len(rows) /\ before # all
    BY <2>2, <2>3 DEF all
  <2>7. Cardinality(before) < Len(rows)
    BY <1>0, <2>4, <2>5, <2>6
  <2> QED
    BY <2>7 DEF before
<1> QED
  BY <1>1 DEF Top

LEMMA CitedIsRead ==
    ASSUME NEW rows, NEW found
    PROVE  /\ Answer(rows, found).citations \subseteq Members(rows)
           /\ Answer(rows, found).refused \in BOOLEAN
<1> DEFINE hits == Hits(rows, found)
<1>1. hits \subseteq 1 .. Len(rows)
  BY DEF Hits, Top
<1> HIDE DEF hits
<1>2. {rows[i] : i \in hits} \subseteq Members(rows)
  BY <1>1 DEF Members
<1> QED
  BY <1>2 DEF Answer, Reply, hits

LEMMA ProductOfNats == \A a, b \in Nat : a * b \in Nat
  OBVIOUS

LEMMA HybridScoreType ==
    ASSUME NEW found, NEW text \in Text, LexicalMax(found) \in Nat
    PROVE  /\ HybridScore(found, text) \in Nat
           /\ text \in found => HybridScore(found, text) >= 5500 * Lexical[text]
<1> DEFINE dense == 45 * Dense[text] * LexicalMax(found)
           words == IF text \in found THEN Lexical[text] ELSE 0
<1>1. Lexical[text] \in Nat /\ Dense[text] \in Nat
  BY RegIntelAssumption
<1>2. 45 * Dense[text] \in Nat
  BY <1>1
<1>3. dense \in Nat /\ words \in Nat
  BY <1>1, <1>2, ProductOfNats
<1>4. HybridScore(found, text) = 5500 * words + dense
  BY DEF HybridScore
<1> HIDE DEF dense
<1> QED
  BY <1>1, <1>3, <1>4

\* Where search finds what the whole corpus matches, the answer is given: the
\* best hit scores at least the lexical part of the best match.
LEMMA MatchIsAnswered ==
    ASSUME NEW rows \in Seq(Version), Matching(rows) # {}
    PROVE  ~Answer(rows, Search(rows, Len(rows))).refused
<1> DEFINE found == Search(rows, Len(rows))
           lex == LexicalScore(rows)
           matching == Matching(rows)
           scale == LexicalMax(found)
           score == HybridScores(rows, found)
           positive == {i \in 1 .. Len(rows) : score[i] > 0}
           scores == {Lexical[t] : t \in found}
<1>1. Len(rows) \in Nat /\ \A i \in 1 .. Len(rows) : rows[i].text \in Text /\ Lexical[rows[i].text] \in Nat
  BY RowText, RegIntelAssumption
<1>2. matching \subseteq 1 .. Len(rows) /\ \A i \in matching : Lexical[rows[i].text] > 0
  BY DEF Matching
<1>3. found = {rows[i].text : i \in matching}
  <2>1. Scored(rows, lex)
    BY <1>1 DEF Scored, LexicalScore
  <2> HIDE DEF lex, matching
  <2>2. Top(rows, lex, matching, Len(rows)) = matching
    BY <1>2, <2>1, AllOnTop
  <2> QED
    BY <2>2 DEF Search, lex, matching
<1> HIDE DEF found, matching, lex
<1>4. scores \in SUBSET Nat /\ scores # {} /\ IsFiniteSet(scores)
  <2>1. scores \in SUBSET Nat /\ scores # {}
    BY <1>1, <1>2, <1>3 DEF matching
  <2> DEFINE f == [i \in matching |-> Lexical[rows[i].text]]
  <2>2. f \in Surjection(matching, scores)
    BY <1>3 DEF Surjection
  <2>3. IsFiniteSet(matching)
    <3>1. IsFiniteSet(1 .. Len(rows))
      BY <1>1, FS_Interval
    <3> QED
      BY <1>2, <3>1, FS_Subset
  <2> HIDE DEF f, scores
  <2>4. IsFiniteSet(scores)
    BY <2>2, <2>3, FS_Surjection
  <2> QED
    BY <2>1, <2>4 DEF scores
<1>5. found # {} /\ scale = Maximum(scores)
  BY <1>4 DEF LexicalMax
<1>6. scale \in scores
  <2> HIDE DEF scores, scale
  <2> QED
    BY <1>4, <1>5, MaximumIsMember
<1>7. PICK m \in matching : Lexical[rows[m].text] = scale
  BY <1>3, <1>6
<1>8. scale \in Nat /\ scale > 0 /\ m \in 1 .. Len(rows) /\ rows[m].text \in found
  BY <1>1, <1>2, <1>3, <1>7
<1> HIDE DEF scale, scores
<1>9. \A i \in 1 .. Len(rows) : score[i] = HybridScore(found, rows[i].text) /\ score[i] \in Nat
  BY <1>1, <1>8, HybridScoreType DEF HybridScores, scale
<1>10. score[m] >= 5500 * scale
  BY <1>1, <1>7, <1>8, <1>9, HybridScoreType DEF scale
<1>11. Scored(rows, score)
  BY <1>9 DEF Scored, HybridScores
<1> HIDE DEF score
<1>12. m \in positive /\ positive \in SUBSET (1 .. Len(rows))
  BY <1>8, <1>9, <1>10
<1>13. PICK h \in Top(rows, score, positive, 3) : \A i \in positive : score[i] <= score[h]
  <2> HIDE DEF positive
  <2> QED
    BY <1>11, <1>12, BestIsOnTop
<1>14. h \in Hits(rows, found)
  BY <1>13 DEF Hits, score
<1>15. h \in 1 .. Len(rows) /\ score[m] <= score[h]
  BY <1>12, <1>13 DEF Top
<1>16. score[h] >= 1200 * scale
  BY <1>8, <1>9, <1>10, <1>15
<1>17. Enough(found, score[h])
  BY <1>16 DEF Enough, scale
<1> QED
  BY <1>14, <1>17 DEF Answer, Reply, score, found

\* What a call has read is still stored; if nothing was added since, it is
\* what is stored.  A stored document is audited.
RegInv ==
    /\ documents \in Seq(Version)
    /\ corpus \in [Reader -> Seq(Version)]
    /\ calling \subseteq Reader
    /\ answer \in [Reader -> [refused : BOOLEAN, citations : SUBSET Version,
                              grown : BOOLEAN, matched : BOOLEAN]]
    /\ \A d \in Members(documents) : <<d.key, d.text>> \in versioned
    /\ \A r \in calling :
          /\ Members(corpus[r]) \subseteq Members(documents)
          /\ Len(corpus[r]) <= Len(documents)
          /\ Len(corpus[r]) = Len(documents) => corpus[r] = documents
    /\ \A r \in Reader :
          /\ answer[r].citations \subseteq Members(documents)
          /\ answer[r].matched /\ ~answer[r].grown => ~answer[r].refused

LEMMA MembersOf ==
    ASSUME NEW rows \in Seq(Version)
    PROVE  /\ Members(rows) \subseteq Version
           /\ \A i \in 1 .. Len(rows) : rows[i] \in Members(rows)
           /\ Len(rows) \in Nat
  BY DEF Members

\* Where each row of the list with one more document comes from.
LEMMA InsertedRows ==
    ASSUME NEW d \in Version, NEW i \in 0 .. Len(documents), documents \in Seq(Version),
           NEW more, more = Inserted(d, i)
    PROVE  /\ more \in Seq(Version)
           /\ Len(more) = Len(documents) + 1
           /\ \A j \in 1 .. Len(documents) + 1 :
                 /\ j <= i => j \in 1 .. Len(documents) /\ more[j] = documents[j]
                 /\ j = i + 1 => more[j] = d
                 /\ j > i + 1 => j - 1 \in 1 .. Len(documents) /\ more[j] = documents[j - 1]
<1> DEFINE n == Len(documents)
           start == SubSeq(documents, 1, i)
           rest == SubSeq(documents, i + 1, n)
           one == <<d>>
           first == start \o one
<1>0. n \in Nat /\ i \in Nat /\ i <= n /\ \A j \in 1 .. n : documents[j] \in Version
  OBVIOUS
<1> HIDE DEF n
<1>1. /\ start \in Seq(Version) /\ Len(start) = i
      /\ \A j \in 1 .. i : start[j] = documents[j]
  BY <1>0, SubSeqProperties
<1>2. /\ rest \in Seq(Version) /\ Len(rest) = n - i
      /\ \A j \in 1 .. n - i : rest[j] = documents[i + j]
  BY <1>0, SubSeqProperties
<1>3. one \in Seq(Version) /\ Len(one) = 1 /\ one[1] = d
  OBVIOUS
<1>4. more = first \o rest
  BY DEF Inserted, n
<1> HIDE DEF start, rest, one
<1>5. /\ first \in Seq(Version) /\ Len(first) = i + 1
      /\ \A j \in 1 .. i + 1 : first[j] = IF j <= i THEN start[j] ELSE one[j - i]
  <2>1. /\ first \in Seq(Version) /\ Len(first) = Len(start) + Len(one)
        /\ \A j \in 1 .. Len(start) + Len(one) :
              first[j] = IF j <= Len(start) THEN start[j] ELSE one[j - Len(start)]
    BY <1>1, <1>3, ConcatProperties, Zenon
  <2> QED
    BY <1>1, <1>3, <2>1, Zenon
<1> HIDE DEF first
<1>6. /\ more \in Seq(Version) /\ Len(more) = n + 1
      /\ \A j \in 1 .. n + 1 : more[j] = IF j <= i + 1 THEN first[j] ELSE rest[j - (i + 1)]
  BY <1>0, <1>2, <1>4, <1>5, ConcatProperties
<1>7. ASSUME NEW j \in 1 .. n + 1
      PROVE  /\ j <= i => j \in 1 .. n /\ more[j] = documents[j]
             /\ j = i + 1 => more[j] = d
             /\ j > i + 1 => j - 1 \in 1 .. n /\ more[j] = documents[j - 1]
  <2>1. j <= i => j \in 1 .. n /\ more[j] = documents[j]
    BY <1>0, <1>1, <1>5, <1>6
  <2>2. j = i + 1 => more[j] = d
    BY <1>0, <1>3, <1>5, <1>6
  <2>3. j > i + 1 => j - 1 \in 1 .. n /\ more[j] = documents[j - 1]
    <3> SUFFICES ASSUME j > i + 1 PROVE j - 1 \in 1 .. n /\ more[j] = documents[j - 1]
      OBVIOUS
    <3>1. /\ j - 1 \in 1 .. n /\ j - (i + 1) \in 1 .. n - i
          /\ i + (j - (i + 1)) = j - 1 /\ ~(j <= i + 1)
      BY <1>0
    <3>2. more[j] = rest[j - (i + 1)]
      BY <1>6, <3>1
    <3>3. rest[j - (i + 1)] = documents[i + (j - (i + 1))]
      BY <1>2, <3>1
    <3> QED
      BY <3>1, <3>2, <3>3
  <2> QED
    BY <2>1, <2>2, <2>3
<1> QED
  BY <1>6, <1>7 DEF n

LEMMA InsertedAdds ==
    ASSUME NEW d \in Version, NEW i \in 0 .. Len(documents), documents \in Seq(Version),
           NEW more, more = Inserted(d, i)
    PROVE  /\ more \in Seq(Version)
           /\ Len(more) = Len(documents) + 1
           /\ Members(more) = Members(documents) \cup {d}
<1> DEFINE n == Len(documents)
<1>0. n \in Nat /\ i \in Nat /\ i <= n
  OBVIOUS
<1>1. more \in Seq(Version) /\ Len(more) = n + 1
  BY InsertedRows
<1>2. ASSUME NEW j \in 1 .. n + 1
      PROVE  /\ j <= i => j \in 1 .. n /\ more[j] = documents[j]
             /\ j = i + 1 => more[j] = d
             /\ j > i + 1 => j - 1 \in 1 .. n /\ more[j] = documents[j - 1]
  BY InsertedRows
<1> HIDE DEF n
<1>3. Members(more) \subseteq Members(documents) \cup {d}
  <2> SUFFICES ASSUME NEW j \in 1 .. n + 1 PROVE more[j] \in Members(documents) \cup {d}
    BY <1>1 DEF Members
  <2>1. CASE j <= i
    BY <1>2, <2>1 DEF Members, n
  <2>2. CASE j = i + 1
    BY <1>2, <2>2
  <2>3. CASE j > i + 1
    BY <1>2, <2>3 DEF Members, n
  <2> QED
    BY <1>0, <2>1, <2>2, <2>3
<1>4. d \in Members(more)
  <2>1. i + 1 \in 1 .. n + 1
    BY <1>0
  <2> QED
    BY <1>1, <1>2, <2>1 DEF Members
<1>5. ASSUME NEW j \in 1 .. n PROVE documents[j] \in Members(more)
  <2>1. CASE j <= i
    <3>1. j \in 1 .. n + 1
      BY <1>0
    <3> QED
      BY <1>1, <1>2, <2>1, <3>1 DEF Members
  <2>2. CASE j > i
    <3>1. j + 1 \in 1 .. n + 1 /\ j + 1 > i + 1 /\ (j + 1) - 1 = j
      BY <1>0, <2>2
    <3>2. more[j + 1] = documents[j]
      BY <1>2, <3>1
    <3> QED
      BY <1>1, <3>1, <3>2 DEF Members
  <2> QED
    BY <1>0, <2>1, <2>2
<1>6. Members(documents) \subseteq Members(more)
  BY <1>5 DEF Members, n
<1> QED
  BY <1>1, <1>3, <1>4, <1>6 DEF n

LEMMA RegInvInit == RegInit => RegInv
  BY DEF RegInit, RegInv, Members, NoAnswer

LEMMA RegInvStep == RegInv /\ [RegNext]_regVars => RegInv'
<1> SUFFICES ASSUME RegInv, [RegNext]_regVars PROVE RegInv'
  OBVIOUS
<1>1. CASE UNCHANGED regVars
  BY <1>1 DEF regVars, RegInv
<1>2. ASSUME NEW d \in Version, AddDocument(d) PROVE RegInv'
  <2>1. /\ versioned' = versioned \cup {<<d.key, d.text>>}
        /\ UNCHANGED <<corpus, calling, answer>>
    BY <1>2 DEF AddDocument
  <2>2. CASE documents' = documents
    <3>1. \A e \in Members(documents) : <<e.key, e.text>> \in versioned'
      BY <2>1 DEF RegInv
    <3> QED
      BY <2>1, <2>2, <3>1 DEF RegInv
  <2>3. CASE \E i \in 0 .. Len(documents) : documents' = Inserted(d, i)
    <3>1. PICK i \in 0 .. Len(documents) : documents' = Inserted(d, i)
      BY <2>3
    <3>2. /\ documents \in Seq(Version) /\ Len(documents) \in Nat
          /\ corpus \in [Reader -> Seq(Version)]
      BY DEF RegInv
    <3>3. /\ documents' \in Seq(Version) /\ Len(documents') = Len(documents) + 1
          /\ Members(documents') = Members(documents) \cup {d}
      BY <3>1, <3>2, InsertedAdds
    <3>4. \A e \in Members(documents') : <<e.key, e.text>> \in versioned'
      BY <2>1, <3>3 DEF RegInv
    <3>5. \A r \in calling : /\ Members(corpus[r]) \subseteq Members(documents')
                             /\ Len(corpus[r]) < Len(documents')
                             /\ Len(corpus[r]) \in Nat
      BY <3>2, <3>3 DEF RegInv
    <3>6. \A r \in Reader : /\ answer[r].citations \subseteq Members(documents')
                            /\ answer[r].matched /\ ~answer[r].grown => ~answer[r].refused
      BY <3>3 DEF RegInv
    <3> QED
      BY <2>1, <3>2, <3>3, <3>4, <3>5, <3>6 DEF RegInv
  <2> QED
    BY <1>2, <2>2, <2>3 DEF AddDocument
<1>3. ASSUME NEW r \in Reader, ReadCorpus(r) PROVE RegInv'
  <2>1. UNCHANGED <<documents, versioned>>
    BY <1>3 DEF ReadCorpus
  <2>2. CASE answer' = [answer EXCEPT ![r] = NoAnswer] /\ UNCHANGED <<corpus, calling>>
    BY <2>1, <2>2 DEF RegInv, NoAnswer
  <2>3. CASE /\ corpus' = [corpus EXCEPT ![r] = documents]
             /\ calling' = calling \cup {r} /\ UNCHANGED answer
    <3>1. Len(documents) \in Nat /\ documents \in Seq(Version)
      BY DEF RegInv
    <3>2. /\ corpus' \in [Reader -> Seq(Version)] /\ corpus'[r] = documents
          /\ \A q \in Reader \ {r} : corpus'[q] = corpus[q]
      BY <2>3, <3>1 DEF RegInv
    <3>3. calling' \subseteq Reader
      BY <2>3 DEF RegInv
    <3>4. \A q \in calling' : /\ Members(corpus'[q]) \subseteq Members(documents)
                              /\ Len(corpus'[q]) <= Len(documents)
                              /\ Len(corpus'[q]) = Len(documents) => corpus'[q] = documents
      BY <2>3, <3>1, <3>2 DEF RegInv
    <3> QED
      BY <2>1, <2>3, <3>1, <3>2, <3>3, <3>4 DEF RegInv
  <2> QED
    BY <1>3, <2>2, <2>3 DEF ReadCorpus
<1>4. ASSUME NEW r \in Reader, SearchAndAnswer(r) PROVE RegInv'
  <2> DEFINE a == Answer(corpus[r], Search(documents, Len(corpus[r])))
             grown == Len(documents) # Len(corpus[r])
             matched == Matching(corpus[r]) # {}
             new == [refused |-> a.refused, citations |-> a.citations,
                     grown |-> grown, matched |-> matched]
  <2>1. /\ documents \in Seq(Version) /\ corpus[r] \in Seq(Version)
        /\ Members(corpus[r]) \subseteq Members(documents)
        /\ ~grown => corpus[r] = documents
    BY <1>4 DEF RegInv, SearchAndAnswer
  <2>2. /\ UNCHANGED <<documents, versioned>>
        /\ corpus' = [corpus EXCEPT ![r] = <<>>]
        /\ calling' = calling \ {r}
        /\ answer' = [answer EXCEPT ![r] = new]
    BY <1>4 DEF SearchAndAnswer
  <2>3. a.citations \subseteq Members(corpus[r]) /\ a.refused \in BOOLEAN
    BY CitedIsRead
  <2>4. matched /\ ~grown => ~a.refused
    BY <2>1, MatchIsAnswered
  <2>5. Members(documents) \subseteq Version
    BY <2>1, MembersOf
  <2> HIDE DEF a, matched
  <2>6. /\ new \in [refused : BOOLEAN, citations : SUBSET Version, grown : BOOLEAN,
                    matched : BOOLEAN]
        /\ new.citations \subseteq Members(documents)
        /\ new.matched /\ ~new.grown => ~new.refused
    BY <2>1, <2>3, <2>4, <2>5 DEF matched
  <2> HIDE DEF new
  <2>7. /\ corpus' \in [Reader -> Seq(Version)] /\ calling' \subseteq Reader
        /\ \A q \in calling' : q \in calling /\ corpus'[q] = corpus[q]
    BY <2>2 DEF RegInv
  <2>8. \A q \in Reader : answer'[q] = new \/ answer'[q] = answer[q]
    BY <2>2 DEF RegInv
  <2>9. \A q \in Reader : /\ answer'[q].citations \subseteq Members(documents)
                          /\ answer'[q].matched /\ ~answer'[q].grown => ~answer'[q].refused
    BY <2>6, <2>8 DEF RegInv
  <2>10. \A q \in calling' : /\ Members(corpus'[q]) \subseteq Members(documents)
                             /\ Len(corpus'[q]) <= Len(documents)
                             /\ Len(corpus'[q]) = Len(documents) => corpus'[q] = documents
    BY <2>7 DEF RegInv
  <2>11. answer' \in [Reader -> [refused : BOOLEAN, citations : SUBSET Version,
                                 grown : BOOLEAN, matched : BOOLEAN]]
    BY <2>2, <2>6 DEF RegInv
  <2> QED
    BY <2>2, <2>7, <2>9, <2>10, <2>11 DEF RegInv
<1> QED
  BY <1>1, <1>2, <1>3, <1>4 DEF RegNext

\* One row per key and text, and no more rows than fit; what has been read is
\* still stored.
CorpusInv ==
    /\ Len(documents) <= MaxDocuments
    /\ versioned \subseteq Key \X Text
    /\ \A i, j \in 1 .. Len(documents) :
          i # j => documents[i].key # documents[j].key \/ documents[i].text # documents[j].text
    /\ \A r \in Reader : Members(corpus[r]) \subseteq Members(documents)

LEMMA InsertedUnique ==
    ASSUME RegInv, CorpusInv, NEW d \in Version, ~IsKnown(d.key, d.text),
           NEW i \in 0 .. Len(documents), NEW more, more = Inserted(d, i)
    PROVE  \A j, k \in 1 .. Len(more) :
              j # k => more[j].key # more[k].key \/ more[j].text # more[k].text
<1> DEFINE n == Len(documents)
           Old(j) == IF j <= i THEN j ELSE j - 1
           Same(c, e) == c.key = e.key /\ c.text = e.text
<1>0. documents \in Seq(Version) /\ n \in Nat /\ i \in 0 .. n
  BY DEF RegInv
<1>1. /\ Len(more) = n + 1 /\ more[i + 1] = d
      /\ \A j \in 1 .. n + 1 : j # i + 1 => Old(j) \in 1 .. n /\ more[j] = documents[Old(j)]
  <2>0. /\ Len(more) = Len(documents) + 1
        /\ \A j \in 1 .. Len(documents) + 1 :
              /\ j <= i => j \in 1 .. Len(documents) /\ more[j] = documents[j]
              /\ j = i + 1 => more[j] = d
              /\ j > i + 1 => j - 1 \in 1 .. Len(documents) /\ more[j] = documents[j - 1]
    <3> HIDE DEF n, Old, Same
    <3> QED
      BY <1>0, InsertedRows
  <2>1. /\ Len(more) = n + 1
        /\ \A j \in 1 .. n + 1 :
              /\ j <= i => j \in 1 .. n /\ more[j] = documents[j]
              /\ j = i + 1 => more[j] = d
              /\ j > i + 1 => j - 1 \in 1 .. n /\ more[j] = documents[j - 1]
    BY <2>0
  <2>2. ASSUME NEW j \in 1 .. n + 1, j # i + 1
        PROVE  Old(j) \in 1 .. n /\ more[j] = documents[Old(j)]
    <3>1. CASE j <= i
      BY <2>1, <3>1
    <3>2. CASE j > i + 1
      <4>1. Old(j) = j - 1
        BY <1>0, <3>2
      <4> QED
        BY <2>1, <3>2, <4>1
    <3> QED
      BY <1>0, <2>2, <3>1, <3>2
  <2>3. more[i + 1] = d
    BY <1>0, <2>1
  <2> QED
    BY <2>1, <2>2, <2>3
<1>2. \A j \in 1 .. n : ~Same(documents[j], d)
  BY DEF IsKnown, Members
<1>3. \A j, k \in 1 .. n : j # k => ~Same(documents[j], documents[k])
  BY DEF CorpusInv
<1>4. \A j, k \in 1 .. n + 1 : j # k /\ j # i + 1 /\ k # i + 1 => Old(j) # Old(k)
  BY <1>0
<1> HIDE DEF n, Old
<1>5. ASSUME NEW j \in 1 .. n + 1, NEW k \in 1 .. n + 1, j # k
      PROVE  ~Same(more[j], more[k])
  <2>1. CASE j = i + 1
    BY <1>1, <1>2, <1>5, <2>1
  <2>2. CASE k = i + 1
    BY <1>1, <1>2, <1>5, <2>2
  <2>3. CASE j # i + 1 /\ k # i + 1
    BY <1>1, <1>3, <1>4, <1>5, <2>3
  <2> QED
    BY <2>1, <2>2, <2>3
<1> QED
  BY <1>1, <1>5

LEMMA CorpusStep == RegInv /\ CorpusInv /\ [RegNext]_regVars => CorpusInv'
<1> SUFFICES ASSUME RegInv, CorpusInv, [RegNext]_regVars PROVE CorpusInv'
  OBVIOUS
<1>0. /\ documents \in Seq(Version) /\ Len(documents) \in Nat
      /\ corpus \in [Reader -> Seq(Version)]
  BY DEF RegInv
<1>1. CASE UNCHANGED regVars
  BY <1>1 DEF regVars, CorpusInv
<1>2. ASSUME NEW d \in Version, AddDocument(d) PROVE CorpusInv'
  <2>1. versioned' \subseteq Key \X Text /\ corpus' = corpus
    BY <1>2 DEF AddDocument, Version, CorpusInv
  <2>2. CASE UNCHANGED documents
    BY <2>1, <2>2 DEF CorpusInv
  <2>3. CASE /\ ~IsKnown(d.key, d.text) /\ Len(documents) < MaxDocuments
             /\ \E i \in 0 .. Len(documents) : documents' = Inserted(d, i)
    <3>1. PICK i \in 0 .. Len(documents) : documents' = Inserted(d, i)
      BY <2>3
    <3>2. \A j, k \in 1 .. Len(documents') :
             j # k => documents'[j].key # documents'[k].key \/ documents'[j].text # documents'[k].text
      BY <2>3, <3>1, InsertedUnique
    <3>3. /\ Len(documents') = Len(documents) + 1
          /\ Members(documents') = Members(documents) \cup {d}
      BY <1>0, <3>1, InsertedAdds
    <3>4. Len(documents') <= MaxDocuments
      BY <1>0, <2>3, <3>3, RegIntelAssumption
    <3>5. \A r \in Reader : Members(corpus[r]) \subseteq Members(documents')
      BY <3>3 DEF CorpusInv
    <3> QED
      BY <2>1, <3>2, <3>4, <3>5 DEF CorpusInv
  <2> QED
    BY <1>2, <2>2, <2>3 DEF AddDocument
<1>3. ASSUME NEW r \in Reader, NEW rows \in {documents, <<>>},
             corpus' = [corpus EXCEPT ![r] = rows], UNCHANGED <<documents, versioned>>
      PROVE  CorpusInv'
  <2>1. Members(rows) \subseteq Members(documents)
    BY DEF Members
  <2>2. \A q \in Reader : corpus'[q] = rows \/ corpus'[q] = corpus[q]
    BY <1>0, <1>3
  <2>3. \A q \in Reader : Members(corpus'[q]) \subseteq Members(documents)
    BY <2>1, <2>2 DEF CorpusInv
  <2> QED
    BY <1>3, <2>3 DEF CorpusInv
<1>4. ASSUME NEW r \in Reader, ReadCorpus(r) PROVE CorpusInv'
  <2>1. CASE UNCHANGED corpus
    BY <1>4, <2>1 DEF ReadCorpus, CorpusInv
  <2>2. CASE corpus' = [corpus EXCEPT ![r] = documents]
    BY <1>3, <1>4, <2>2 DEF ReadCorpus
  <2> QED
    BY <1>4, <2>1, <2>2 DEF ReadCorpus
<1>5. ASSUME NEW r \in Reader, SearchAndAnswer(r) PROVE CorpusInv'
  BY <1>3, <1>5 DEF SearchAndAnswer
<1> QED
  BY <1>1, <1>2, <1>4, <1>5 DEF RegNext

(* The unique key of regulation_documents holds wherever a new row comes   *)
(* to stand, and what a call has read is not lost under it (add_document,  *)
(* hybrid_search).                                                         *)
THEOREM RegTypeCorrect == RegSpec => []RegTypeOK
<1>1. RegInit => CorpusInv
  BY RegIntelAssumption DEF RegInit, CorpusInv, Members
<1>2. RegInv /\ CorpusInv => RegTypeOK
  BY MembersOf DEF RegInv, CorpusInv, RegTypeOK
<1> QED
  BY <1>1, <1>2, CorpusStep, RegInvInit, RegInvStep, PTL DEF RegSpec

(* What an answer cites is stored and audited from then on, and where a    *)
(* document matched the query and none was added between the two reads,    *)
(* the question is answered: for any corpus, any scores, and any number of *)
(* calls and additions between them (answer, hybrid_search, search).       *)
THEOREM AnswersAlwaysGrounded == RegSpec => []AnswersAreGrounded
<1>1. RegInv => AnswersAreGrounded
  BY DEF RegInv, AnswersAreGrounded
<1> QED
  BY <1>1, RegInvInit, RegInvStep, PTL DEF RegSpec

----------------------------------------------------------------------------
(* MCSideBySide: the parts together, of which only one moves.              *)

(* A part's inputs may be any, so long as there are some.                  *)
LEMMA PartsStart ==
    ASSUME Pack # {}, TaxRow # {}
    PROVE  Init => RulesInit /\ AdmissionInit
BY DEF Init, RulesInit, SomeRules, AdmissionInit, SomeAdmission

\* No create has run, so none has succeeded.
CreatesRest ==
    /\ metric["backup_create"].last = Never
    /\ \A r \in CreateRun : phase[r] = "idle" /\ ~valid[r]

LEMMA CreatesRestStep ==
    MetricsTypeOK /\ CreatesRest /\ Metrics => CreatesRest'
<1> SUFFICES ASSUME MetricsTypeOK, CreatesRest, Metrics PROVE CreatesRest'
  OBVIOUS
<1>0. /\ "backup_create" \in Operation /\ metric \in [Operation -> Metric]
      /\ phase \in [Run -> {"idle", "execute", "record", "stamp", "replace"}]
      /\ valid \in [Run -> BOOLEAN]
      /\ \A r \in CreateRun : r \in Run /\ OperationOf(r) = "backup_create"
      /\ \A r \in CreateRun : phase[r] = "idle" /\ ~valid[r] /\ phase'[r] = "idle"
      /\ metric["backup_create"].last = Never
  BY OperationsAssumption DEF MetricsTypeOK, CreateRun, CreatesRest, Metrics, OneOperation
<1>1. ASSUME UNCHANGED <<metric, valid>> PROVE CreatesRest'
  BY <1>0, <1>1 DEF CreatesRest
<1>2. ASSUME NEW r \in Run, OperationOf(r) # "backup_create",
             \A q \in Run \ {r} : valid'[q] = valid[q],
             metric'["backup_create"] = metric["backup_create"]
      PROVE  CreatesRest'
  BY <1>0, <1>2 DEF CreatesRest
<1>3. ASSUME NEW r \in Run, Begin(r) PROVE CreatesRest'
  BY <1>1, <1>3 DEF Begin
<1>4. ASSUME NEW r \in Run, phase[r] # "idle" PROVE OperationOf(r) # "backup_create"
  BY <1>0, <1>4 DEF CreateRun
<1>5. ASSUME NEW r \in Run, NEW ok \in BOOLEAN, Execute(r, ok) PROVE CreatesRest'
  <2>1. OperationOf(r) # "backup_create"
    BY <1>4, <1>5 DEF Execute
  <2> QED
    BY <1>0, <1>2, <1>5, <2>1 DEF Execute
<1>6. ASSUME NEW r \in Run, ReadMetric(r) \/ Stamp(r) PROVE CreatesRest'
  BY <1>1, <1>6 DEF ReadMetric, Stamp
<1>7. ASSUME NEW r \in Run, ReplaceMetric(r) PROVE CreatesRest'
  <2>1. OperationOf(r) # "backup_create"
    BY <1>4, <1>7 DEF ReplaceMetric
  <2>2. metric'["backup_create"] = metric["backup_create"]
    BY <1>0, <1>7, <2>1 DEF ReplaceMetric
  <2>3. \A q \in Run \ {r} : valid'[q] = valid[q]
    BY <1>0, <1>7 DEF ReplaceMetric, Rest
  <2> QED
    BY <1>2, <2>1, <2>2, <2>3
<1>8. ASSUME NEW r \in Run, Die(r) PROVE CreatesRest'
  <2>1. OperationOf(r) # "backup_create" /\ metric' = metric
    BY <1>4, <1>8 DEF Die
  <2>2. \A q \in Run \ {r} : valid'[q] = valid[q]
    BY <1>0, <1>8 DEF Die, Rest
  <2> QED
    BY <1>2, <2>1, <2>2
<1>9. CASE Tick
  BY <1>1, <1>9 DEF Tick, runVars
<1> QED
  BY <1>3, <1>5, <1>6, <1>7, <1>8, <1>9 DEF Metrics, MetricsNext, Record

\* Backups and metrics are two parts of Operations and one of their own.
CommandInv ==
    /\ part \in Part
    /\ BackupInv
    /\ MetricsInv
    /\ FilesTypeOK
    /\ IF part = "operations" THEN OperationsInv ELSE creating = {} /\ CreatesRest

LEMMA CommandInvInit == Init => CommandInv
<1> SUFFICES ASSUME Init PROVE CommandInv
  OBVIOUS
<1>1. OperationsInv
  BY OperationsInvInit DEF Init
<1>2. part \in Part /\ creating = {}
  BY DEF Init, OperationsInit
<1>3. CreatesRest
  <2>1. "backup_create" \in Operation /\ CreateRun \subseteq Run
    BY OperationsAssumption DEF CreateRun
  <2>2. /\ metric = [o \in Operation |-> NoMetric]
        /\ phase = [r \in Run |-> "idle"] /\ valid = [r \in Run |-> FALSE]
    BY DEF Init, OperationsInit, MetricsInit
  <2> QED
    BY <2>1, <2>2 DEF CreatesRest, NoMetric
<1> QED
  BY <1>1, <1>2, <1>3 DEF OperationsInv, CommandInv

LEMMA CommandInvStep ==
    CommandInv /\ [Next]_allVars
        => CommandInv' /\ [BackupNext]_backupVars /\ [MetricsNext]_metricsVars
<1> SUFFICES ASSUME CommandInv, [Next]_allVars
             PROVE  CommandInv' /\ [BackupNext]_backupVars /\ [MetricsNext]_metricsVars
  OBVIOUS
<1>1. ASSUME UNCHANGED operationsVars, UNCHANGED part
      PROVE  CommandInv' /\ [BackupNext]_backupVars /\ [MetricsNext]_metricsVars
  <2>1. UNCHANGED backupVars /\ UNCHANGED metricsVars /\ UNCHANGED commandVars
    BY <1>1 DEF operationsVars
  <2>2. BackupInv' /\ MetricsInv'
    BY <2>1, BackupInvStep, MetricsInvStep DEF CommandInv
  <2>4. FilesTypeOK' /\ creating' = creating
    BY <2>1 DEF CommandInv, FilesTypeOK, commandVars, fileVars, metricsVars, runVars
  <2>5. part = "operations" => OperationsInv'
    BY <1>1, OperationsInvStep DEF CommandInv
  <2>6. CreatesRest => CreatesRest'
    BY <2>1 DEF CreatesRest, metricsVars, runVars
  <2> QED
    BY <1>1, <2>1, <2>2, <2>4, <2>5, <2>6 DEF CommandInv
<1>2. CASE Metrics
  <2>1. /\ part = "metrics" /\ part' = part
        /\ MetricsNext /\ UNCHANGED backupVars /\ UNCHANGED commandVars
    BY <1>2 DEF Metrics
  <2>2. BackupInv' /\ MetricsInv'
    BY <2>1, BackupInvStep, MetricsInvStep DEF CommandInv
  <2>4. creating = {} /\ creating' = {}
    BY <2>1 DEF CommandInv, commandVars
  <2>5. FilesTypeOK'
    BY <2>1, <2>4 DEF CommandInv, FilesTypeOK, commandVars, fileVars
  <2>6. CreatesRest'
    BY <1>2, <2>1, CreatesRestStep DEF CommandInv, MetricsInv
  <2> QED
    BY <2>1, <2>2, <2>4, <2>5, <2>6 DEF CommandInv
<1>3. CASE Commands
  <2>1. part = "operations" /\ part' = part /\ OperationsNext
    BY <1>3 DEF Commands
  <2>2. OperationsInv
    BY <2>1 DEF CommandInv
  <2>3. OperationsInv'
    BY <2>1, <2>2, OperationsInvStep
  <2>4. [BackupNext]_backupVars
    BY <2>1, <2>2, OperationsInvType, CommandStepsBackup
  <2>5. [MetricsNext]_metricsVars
    BY <2>1, <2>2, OperationsInvType, CommandStepsMetrics
  <2> QED
    BY <2>1, <2>3, <2>4, <2>5 DEF CommandInv, OperationsInv
<1>4. CASE Stream \/ Graph \/ Exports \/ Regulations
  BY <1>1, <1>4 DEF Stream, Graph, Exports, Regulations
<1>5. CASE Rules \/ Admissions \/ RequestCounts \/ Ended \/ UNCHANGED allVars
  BY <1>1, <1>5 DEF Rules, Admissions, RequestCounts, Ended, allVars
<1> QED
  BY <1>2, <1>3, <1>4, <1>5 DEF Next

\* No part disturbs another.
LEMMA PartsStep ==
    [Next]_allVars =>
        /\ [StreamNext]_streamAllVars /\ [GraphNext]_graphVars
        /\ [ExportNext]_exportVars /\ [RegNext]_regVars /\ [RulesNext]_rulesVars
        /\ [AdmissionNext]_admissionVars /\ [RequestNext]_requestVars
<1> SUFFICES ASSUME [Next]_allVars
             PROVE  /\ StreamNext \/ UNCHANGED streamAllVars
                    /\ GraphNext \/ UNCHANGED graphVars
                    /\ ExportNext \/ UNCHANGED exportVars
                    /\ RegNext \/ UNCHANGED regVars
                    /\ RulesNext \/ UNCHANGED rulesVars
                    /\ AdmissionNext \/ UNCHANGED admissionVars
                    /\ RequestNext \/ UNCHANGED requestVars
  OBVIOUS
<1>1. CASE Stream \/ Graph \/ Metrics
  BY <1>1 DEF Stream, Graph, Metrics
<1>2. CASE Commands \/ Exports \/ Regulations \/ Rules
  BY <1>2 DEF Commands, Exports, Regulations, Rules
<1>3. CASE Admissions \/ RequestCounts \/ Ended \/ UNCHANGED allVars
  BY <1>3 DEF Admissions, RequestCounts, Ended, allVars
<1> QED
  BY <1>1, <1>2, <1>3 DEF Next

(* What is explored side by side is each part by itself: every behaviour   *)
(* is one of each part's own specification, so the theorems about the      *)
(* parts are about this run too.                                           *)
THEOREM PartsKeepTheirSpecs ==
    ASSUME Pack # {}, TaxRow # {}
    PROVE  Spec => /\ StreamSpec /\ GraphSpec /\ BackupSpec /\ MetricsSpec
                   /\ ExportSpec /\ RegSpec /\ RulesSpec /\ AdmissionSpec /\ RequestSpec
<1>1. Init => /\ StreamInit /\ GraphInit /\ BackupInit /\ MetricsInit
              /\ ExportInit /\ RegInit /\ RulesInit /\ AdmissionInit /\ RequestInit
  <2>1. Init => RulesInit /\ AdmissionInit
    BY PartsStart
  <2>2. Init => /\ StreamInit /\ GraphInit /\ BackupInit /\ MetricsInit
                /\ ExportInit /\ RegInit /\ RequestInit
    BY DEF Init, OperationsInit
  <2> QED
    BY <2>1, <2>2
<1> QED
  BY <1>1, CommandInvInit, CommandInvStep, PartsStep, PTL
     DEF Spec, StreamSpec, GraphSpec, BackupSpec, MetricsSpec, ExportSpec,
         RegSpec, RulesSpec, AdmissionSpec, RequestSpec

(* All parts keep their types, whichever of them moves.                    *)
THEOREM SideBySideTypeCorrect ==
    ASSUME Pack # {}, TaxRow # {}
    PROVE  Spec => []TypeOK
<1>1. CommandInv => part \in Part /\ OperationsTypeOK
  BY DEF CommandInv, OperationsTypeOK, BackupInv, MetricsInv, FilesTypeOK
<1>2. Spec => [](part \in Part /\ OperationsTypeOK)
  BY <1>1, CommandInvInit, CommandInvStep, PTL DEF Spec
<1>3. Spec => /\ []StreamTypeOK /\ []GraphTypeOK /\ []ExportTypeOK
              /\ []RegTypeOK /\ []RulesTypeOK /\ []AdmissionTypeOK /\ []RequestTypeOK
  BY PartsKeepTheirSpecs, StreamTypeCorrect, GraphTypeCorrect,
     ExportTypeCorrect, RegTypeCorrect, RulesTypeCorrect, AdmissionTypeCorrect,
     RequestTypeCorrect, PTL
<1>4. ASSUME part \in Part, OperationsTypeOK, StreamTypeOK, GraphTypeOK,
             ExportTypeOK, RegTypeOK, RulesTypeOK, AdmissionTypeOK, RequestTypeOK
      PROVE  TypeOK
  BY <1>4 DEF TypeOK
<1> QED
  BY <1>2, <1>3, <1>4, PTL

(* And they keep all that the run checks of them.                          *)
THEOREM SideBySideKeepsPromises ==
    ASSUME Pack # {}, TaxRow # {}, Entity \subseteq Int
    PROVE  Spec => /\ []StreamVerifies /\ []NoRecordSkipped /\ []ReportsStayTrue
                   /\ []MetricIsTrue /\ []SuccessMeansReachable /\ []AuditedRowsArePresent
                   /\ []ResponseIsPackage /\ []AnswersAreGrounded /\ []FindingsAreDue
                   /\ []AdmittedOnOwnEvidence /\ []ExpositionsAgree
                   /\ CyclesReported /\ SuccessSurvives
<1>1. CommandInv => SuccessMeansReachable
  <2>1. OperationsInv => SuccessMeansReachable
    BY DEF OperationsInv, CreateFits, SuccessMeansReachable, SuccessKnown, Reachable, Written
  <2>2. CreatesRest => SuccessMeansReachable
    BY DEF CreatesRest, SuccessMeansReachable
  <2> QED
    BY <2>1, <2>2 DEF CommandInv
<1>2. Spec => []SuccessMeansReachable
  BY <1>1, CommandInvInit, CommandInvStep, PTL DEF Spec
<1>3. Spec => /\ []StreamVerifies /\ []NoRecordSkipped /\ []ReportsStayTrue
              /\ []MetricIsTrue /\ []AuditedRowsArePresent /\ SuccessSurvives
  BY PartsKeepTheirSpecs, StreamAlwaysVerifies, NoRecordEverSkipped, ReportsAlwaysStayTrue,
     MetricAlwaysTrue, AuditedRowsAlwaysPresent, SuccessAlwaysSurvives, PTL
<1>4. Spec => /\ []ResponseIsPackage /\ []AnswersAreGrounded /\ []FindingsAreDue
              /\ []AdmittedOnOwnEvidence /\ []ExpositionsAgree
  BY PartsKeepTheirSpecs, ResponseAlwaysPackage, AnswersAlwaysGrounded, FindingsAlwaysDue,
     AdmissionAlwaysOnOwnEvidence, ExpositionsAlwaysAgree, PTL
<1>5. Spec => CyclesReported
  BY PartsKeepTheirSpecs, CyclesAlwaysReported, PTL
<1> QED
  BY <1>2, <1>3, <1>4, <1>5, PTL

==============================================================================
