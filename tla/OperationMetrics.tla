-------------------------- MODULE OperationMetrics --------------------------
(***************************************************************************)
(* record_operation of operation_metrics.py, called by main of             *)
(* operations.py when a command has ended: a text file per operation with  *)
(* the outcome and time of its last run and the time of its last success.  *)
(* A run reads the file, takes the time, and replaces the file in one      *)
(* rename; several runs of one operation (a schedule and an operator) may  *)
(* overlap.  A run is its operation and one of the slots it may run in.    *)
(* The clock is time.time(), assumed not to step back: the code does not   *)
(* ask for more, and the wall clock does not promise it.                   *)
(***************************************************************************)
EXTENDS Naturals

CONSTANTS
    Operation,  \* commands, each with a file of its own
    Slot,       \* how many runs of one operation there may be at once
    MaxTime     \* bound on the clock

ASSUME MetricsAssumption == MaxTime \in Nat \ {0}

Run == Operation \X Slot
OperationOf(r) == r[1]

\* Times are from 1; Never is a line the file does not have, or no file.
Never == 0
Time == 0 .. MaxTime
Metric == [success : BOOLEAN, run : Time, last : Time]
NoMetric == [success |-> FALSE, run |-> Never, last |-> Never]

VARIABLES
    clock,
    metric,     \* the file of each operation
    phase,      \* where each run stands
    valid,      \* how it ended
    previous,   \* the last success it has read
    timestamp,  \* the time it has taken
    overtaken,  \* runs whose file was replaced by another after they read it
    succeeded   \* when runs of each operation have succeeded

runVars == <<phase, valid, previous, timestamp, overtaken>>
metricsVars == <<clock, metric, runVars, succeeded>>

MetricsTypeOK ==
    /\ clock \in Time
    /\ metric \in [Operation -> Metric]
    /\ phase \in [Run -> {"idle", "execute", "record", "stamp", "replace"}]
    /\ valid \in [Run -> BOOLEAN]
    /\ previous \in [Run -> Time]
    /\ timestamp \in [Run -> Time]
    /\ overtaken \subseteq {r \in Run : phase[r] \in {"stamp", "replace"}}
    /\ succeeded \in [Operation -> SUBSET Time]

MetricsInit ==
    /\ clock = 1
    /\ metric = [o \in Operation |-> NoMetric]
    /\ phase = [r \in Run |-> "idle"]
    /\ valid = [r \in Run |-> FALSE]
    /\ previous = [r \in Run |-> Never]
    /\ timestamp = [r \in Run |-> Never]
    /\ overtaken = {}
    /\ succeeded = [o \in Operation |-> {}]

----------------------------------------------------------------------------
\* Time goes on, never back.
Tick ==
    /\ clock < MaxTime
    /\ clock' = clock + 1
    /\ UNCHANGED <<metric, runVars, succeeded>>

Begin(r) ==
    /\ phase[r] = "idle"
    /\ phase' = [phase EXCEPT ![r] = "execute"]
    /\ UNCHANGED <<clock, metric, valid, previous, timestamp, overtaken, succeeded>>

\* _execute returns a result, valid or not, or raises.
Execute(r, ok) ==
    /\ phase[r] = "execute"
    /\ phase' = [phase EXCEPT ![r] = "record"]
    /\ valid' = [valid EXCEPT ![r] = ok]
    /\ UNCHANGED <<clock, metric, previous, timestamp, overtaken, succeeded>>

\* target.read_text() and the search for the last success in it.
ReadMetric(r) ==
    /\ phase[r] = "record"
    /\ previous' = [previous EXCEPT ![r] = metric[OperationOf(r)].last]
    /\ phase' = [phase EXCEPT ![r] = "stamp"]
    /\ UNCHANGED <<clock, metric, valid, timestamp, overtaken, succeeded>>

\* time.time(), after the read.
Stamp(r) ==
    /\ phase[r] = "stamp"
    /\ timestamp' = [timestamp EXCEPT ![r] = clock]
    /\ succeeded' = IF valid[r]
                    THEN [succeeded EXCEPT ![OperationOf(r)] = @ \cup {clock}]
                    ELSE succeeded
    /\ phase' = [phase EXCEPT ![r] = "replace"]
    /\ UNCHANGED <<clock, metric, valid, previous, overtaken>>

\* Mutant: a failure writes no last success.
LastSuccessForgotten(r) == IF valid[r] THEN timestamp[r] ELSE Never

\* Mutant: every run writes its own time as the last success.
LastSuccessAlways(r) == timestamp[r]

LastSuccess(r) == IF valid[r] THEN timestamp[r] ELSE previous[r]

Overtakes(r) ==
    {q \in Run \ {r} : OperationOf(q) = OperationOf(r) /\ phase[q] \in {"stamp", "replace"}}

Rest(r) ==
    /\ phase' = [phase EXCEPT ![r] = "idle"]
    /\ valid' = [valid EXCEPT ![r] = FALSE]
    /\ previous' = [previous EXCEPT ![r] = Never]
    /\ timestamp' = [timestamp EXCEPT ![r] = Never]

\* A temporary file of its own, then os.replace.
ReplaceMetric(r) ==
    /\ phase[r] = "replace"
    /\ metric' = [metric EXCEPT ![OperationOf(r)] =
                     [success |-> valid[r], run |-> timestamp[r], last |-> LastSuccess(r)]]
    /\ overtaken' = (overtaken \cup Overtakes(r)) \ {r}
    /\ Rest(r)
    /\ UNCHANGED <<clock, succeeded>>

\* The process dies, or the file cannot be read or written: it stays as it was.
Die(r) ==
    /\ phase[r] # "idle"
    /\ overtaken' = overtaken \ {r}
    /\ Rest(r)
    /\ UNCHANGED <<clock, metric, succeeded>>

\* What a run does once its command has ended.
Record(r) == ReadMetric(r) \/ Stamp(r) \/ ReplaceMetric(r)

MetricsNext ==
    \/ Tick
    \/ \E r \in Run : \/ Begin(r) \/ Record(r) \/ Die(r)
                      \/ \E ok \in BOOLEAN : Execute(r, ok)

MetricsSpec == MetricsInit /\ [][MetricsNext]_metricsVars

----------------------------------------------------------------------------
(* However runs overlap, the last success a file shows is the time of a    *)
(* success of that operation, never later than the last run it shows, and  *)
(* that run's own time if it succeeded (record_operation), as long as the  *)
(* clock does not step back.                                               *)
MetricIsTrue ==
    \A o \in Operation :
        LET m == metric[o] IN
        /\ m.last \in succeeded[o] \cup {Never}
        /\ m.last <= m.run
        /\ m.success => m.last = m.run

(* A file that shows a success goes on showing it or a later one, unless   *)
(* the run that replaces the file was overtaken by another since it read   *)
(* it (docs/production-runbook.md: a failure preserves the last success),  *)
(* as long as the clock does not step back.                                *)
SuccessSurvives ==
    [][\A o \in Operation :
          metric'[o].last < metric[o].last =>
              \E r \in overtaken : OperationOf(r) = o /\ phase[r] = "replace"
                                   /\ phase'[r] = "idle"]_metricsVars
=============================================================================
