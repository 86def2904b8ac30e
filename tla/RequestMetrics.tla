--------------------------- MODULE RequestMetrics ---------------------------
(***************************************************************************)
(* Metrics of observability.py, as the middleware of fastapi_app.py and    *)
(* GET /metrics use it: two counters that threads add to one after the     *)
(* other, and that an exposition reads one after the other, under one      *)
(* lock.  Every request takes one unit of time, so that a route's duration *)
(* and its count must tell the same.  Two answers, good and bad, stand for *)
(* the status codes.                                                       *)
(***************************************************************************)
EXTENDS Naturals, FiniteSets

CONSTANTS
    Thread,
    Route,
    MaxRequests     \* bound on a counter

ASSUME RequestMetricsAssumption ==
    MaxRequests \in Nat /\ Route # {} /\ IsFiniteSet(Thread)

Label == Route \X {"good", "bad"}

VARIABLES
    lock,           \* the threads that hold the lock
    doing,          \* what each thread does
    label,          \* route and status of the request it observes
    requests,       \* _requests
    durations,      \* _durations
    exposition      \* what each thread renders, or has just rendered

requestVars == <<lock, doing, label, requests, durations, exposition>>

Requests == [Label -> 0 .. MaxRequests]
Durations == [Route -> 0 .. 2 * MaxRequests]

RequestTypeOK ==
    /\ lock \subseteq Thread
    /\ doing \in [Thread -> {"nothing", "observe", "count", "time",
                             "render", "list_requests", "list_durations"}]
    /\ label \in [Thread -> Label]
    /\ requests \in Requests
    /\ durations \in Durations
    /\ exposition \in [Thread -> [requests : Requests, durations : Durations]]
    \* Whoever is inside has the lock.
    /\ lock = {t \in Thread : doing[t] \in {"count", "time", "list_requests", "list_durations"}}

Blank == [requests |-> [l \in Label |-> 0], durations |-> [r \in Route |-> 0]]

RequestInit ==
    /\ lock = {}
    /\ doing = [t \in Thread |-> "nothing"]
    /\ label \in [Thread -> {CHOOSE l \in Label : TRUE}]
    /\ requests = [l \in Label |-> 0]
    /\ durations = [r \in Route |-> 0]
    /\ exposition = [t \in Thread |-> Blank]

----------------------------------------------------------------------------
\* The middleware has the response of a request.
Respond(t, l) ==
    /\ doing[t] = "nothing"
    /\ requests[l] + Cardinality({u \in Thread : doing[u] # "nothing"}) < MaxRequests
    /\ doing' = [doing EXCEPT ![t] = "observe"]
    /\ label' = [label EXCEPT ![t] = l]
    /\ exposition' = [exposition EXCEPT ![t] = Blank]
    /\ UNCHANGED <<lock, requests, durations>>

Scrape(t) ==
    /\ doing[t] = "nothing"
    /\ doing' = [doing EXCEPT ![t] = "render"]
    /\ UNCHANGED <<lock, label, requests, durations, exposition>>

\* Mutant: no lock.
LockIgnored(t) == TRUE

LockIsFree(t) == lock \subseteq {t}

Acquire(t) ==
    /\ doing[t] \in {"observe", "render"}
    /\ LockIsFree(t)
    /\ lock' = lock \cup {t}
    /\ doing' = [doing EXCEPT ![t] = IF @ = "observe" THEN "count" ELSE "list_requests"]
    /\ UNCHANGED <<label, requests, durations, exposition>>

\* observe_request.
Count(t) ==
    /\ doing[t] = "count"
    /\ requests' = [requests EXCEPT ![label[t]] = @ + 1]
    /\ doing' = [doing EXCEPT ![t] = "time"]
    /\ UNCHANGED <<lock, label, durations, exposition>>

Release(t) ==
    /\ lock' = lock \ {t}
    /\ doing' = [doing EXCEPT ![t] = "nothing"]

AddDuration(t) ==
    /\ doing[t] = "time"
    /\ durations' = [durations EXCEPT ![label[t][1]] = @ + 1]
    /\ Release(t)
    /\ UNCHANGED <<label, requests, exposition>>

\* render.
ListRequests(t) ==
    /\ doing[t] = "list_requests"
    /\ exposition' = [exposition EXCEPT ![t].requests = requests]
    /\ doing' = [doing EXCEPT ![t] = "list_durations"]
    /\ UNCHANGED <<lock, label, requests, durations>>

ListDurations(t) ==
    /\ doing[t] = "list_durations"
    /\ exposition' = [exposition EXCEPT ![t].durations = durations]
    /\ Release(t)
    /\ UNCHANGED <<label, requests, durations>>

RequestNext ==
    \E t \in Thread :
        \/ \E l \in Label : Respond(t, l)
        \/ Scrape(t) \/ Acquire(t) \/ Count(t) \/ AddDuration(t)
        \/ ListRequests(t) \/ ListDurations(t)

RequestSpec == RequestInit /\ [][RequestNext]_requestVars

----------------------------------------------------------------------------
(* A finished exposition is of one moment: whatever threads are half-way   *)
(* through observing a request, the time it shows for a route is that of   *)
(* the very requests it counts (observe_request, render).                  *)
ExpositionsAgree ==
    \A t \in Thread : doing[t] # "list_durations" =>
        LET shown == exposition[t] IN
        \A r \in Route :
            shown.durations[r] = shown.requests[<<r, "good">>] + shown.requests[<<r, "bad">>]
=============================================================================
