------------------------- MODULE MCEvidenceCustody -------------------------
(* An instance of EvidenceCustody for TLC: one run of one of two tenants.  *)
EXTENDS EvidenceCustody, TLC

CONSTANTS acme, other, run1

MCTenant == {acme, other}
MCTenantOf == [r \in {run1} |-> acme]

Interchangeable == Permutations(Session)
=============================================================================
