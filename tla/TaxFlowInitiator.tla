------------------------- MODULE TaxFlowInitiator -------------------------
(***************************************************************************)
(* TaxFlow with a history variable: who had each rule run made.  The code  *)
(* keeps that nowhere; tax_run_workflow.requested_by is the caller whose   *)
(* request_review inserted the row.                                        *)
(***************************************************************************)
EXTENDS TaxFlow

VARIABLE initiator

historyVars == <<vars, initiator>>

HistoryInit == Init /\ initiator = [r \in RunId |-> NoUser]

\* The call whose RunCommit gave it run r.
Maker(r) == CHOOSE c \in Call : pc[c] = "store" /\ call'[c].run = r

HistoryNext ==
    /\ Next
    /\ initiator' = [r \in RunId |->
                        IF runs[r] = None /\ runs'[r] # None
                        THEN call[Maker(r)].user ELSE initiator[r]]

HistorySpec == HistoryInit /\ [][HistoryNext]_historyVars

----------------------------------------------------------------------------
(* The user who had a run made is not the one who decides on it: the       *)
(* initiator and the reviewer are separated (architecture.md; review_run). *)
InitiatorNeverReviews ==
    \A r \in RunId : Final(r) => workflow[r].reviewed_by # initiator[r]
============================================================================
