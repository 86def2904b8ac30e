----------------------------- MODULE MCTaxFlow -----------------------------
(* Instances of TaxFlow for TLC: calls, users, packs and run ids are       *)
(* interchangeable.                                                        *)
EXTENDS TaxFlow, TLC

Interchangeable ==
    UNION {Permutations(S) : S \in {Call, RunId, User, Pack}}
=============================================================================
