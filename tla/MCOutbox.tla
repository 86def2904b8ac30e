------------------------------ MODULE MCOutbox ------------------------------
(* Instances of Outbox for TLC.  Workers and operators are interchangeable; *)
(* the symmetry set is used only by runs without temporal properties.       *)
EXTENDS Outbox, TLC

WorkerSymmetry == Permutations(Worker) \cup Permutations(Operator)
=============================================================================
