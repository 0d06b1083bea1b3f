---------------------------- MODULE MCLicensePlan ----------------------------
(***************************************************************************)
(* LicensePlan for TLC.  Each configuration names the requests that run.   *)
(***************************************************************************)
EXTENDS LicensePlan, TLC

CONSTANTS l1, l2, l3, l4, l5, e1, e2, a1, a2, p1, p2, v1, v2, k1, k2, f1

\* Licenses, e-mails and requests of one kind are interchangeable.
Symmetry ==
    Permutations(Licenses \ Provisioned) \union Permutations(Provisioned)
      \union Permutations(Emails) \union Permutations(Assigners)
      \union Permutations(AutoAppliers) \union Permutations(Activators)
      \union Permutations(Revokers)
=============================================================================
