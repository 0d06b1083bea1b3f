--------------------------- MODULE MCProvisioning ---------------------------
(***************************************************************************)
(* Provisioning for TLC: a batch is two licenses, and the plan may ask for *)
(* more than two batches.                                                  *)
(***************************************************************************)
EXTENDS Provisioning, TLC

CONSTANTS s1, s2, t1, t2

\* Requests are interchangeable, and so are tasks.
ProvisioningSymmetry == Permutations(Savers) \union Permutations(Tasks)
=============================================================================
