----------------------------- MODULE MCEndToEnd -----------------------------
(***************************************************************************)
(* Instance of EndToEnd for TLC: threads and consumer names are            *)
(* interchangeable.                                                        *)
(***************************************************************************)
EXTENDS EndToEnd, TLC

Interchangeable == Permutations(Thread) \cup Permutations(Consumer)
=============================================================================
