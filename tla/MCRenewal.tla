----------------------------- MODULE MCRenewal -----------------------------
(***************************************************************************)
(* Renewal for TLC.                                                        *)
(***************************************************************************)
EXTENDS Renewal, TLC

CONSTANTS l1, l2, s1, s2, s3, s4, p1, p2, j1, n1, d1

\* Learners, licenses and plans are interchangeable.
RenewalSymmetry ==
    Permutations(Learners) \union Permutations(Slots) \union Permutations(Plans)
=============================================================================
