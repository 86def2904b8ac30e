------------------------- MODULE MCCasesAndUpserts -------------------------
(***************************************************************************)
(* ControlPulse and GraphUpsert for TLC, one run for both: a behaviour     *)
(* picks a part and moves in it alone.  While the cases move no upsert has *)
(* come, so nothing UpsertFairness asks for is enabled.                    *)
(***************************************************************************)
EXTENDS ControlPulse, GraphUpsert

CONSTANTS ann, bob

VARIABLE part

bothVars == <<part, vars, upsertVars>>

MCUser == {ann, bob}

\* One event id that racing callers report with different contents, one of
\* them breaking two controls.
Plain == [type |-> "OTHER", actor |-> ann, privileged |-> FALSE, night |-> FALSE,
          approved |-> TRUE, success |-> TRUE, disabled |-> FALSE]

MCContent == {
    [Plain EXCEPT !.type = "DEPLOYMENT", !.approved = FALSE,
                  !.privileged = TRUE, !.night = TRUE],
    [Plain EXCEPT !.type = "BACKUP", !.success = FALSE, !.actor = bob],
    Plain}

\* Opposite orders, a circle of three, a repeated row, an empty list.
MCBatches == {<<>>, <<1, 1>>, <<1, 2>>, <<2, 1>>, <<2, 3>>, <<3, 1>>}

Cases ==
    /\ part = "cases"
    /\ Next
    /\ UNCHANGED <<part, upsertVars>>

Upserts ==
    /\ part = "upserts"
    /\ UpsertNext
    /\ UNCHANGED <<part, vars>>

BothInit ==
    /\ part \in {"cases", "upserts"}
    /\ Init
    /\ UpsertInit

BothNext == Cases \/ Upserts

BothSpec == BothInit /\ [][BothNext]_bothVars /\ UpsertFairness
=============================================================================
