----------------------------- MODULE MCNightly -----------------------------
(***************************************************************************)
(* Nightly for TLC: a plan, renewed into another one, and a third plan that *)
(* expires with the second.                                                *)
(***************************************************************************)
EXTENDS Nightly

CONSTANTS p1, p2, p3, u1, u2

MCPlans == {p1, p2, p3}
MCPlanOf == [k \in Pks |-> CASE k = 3 -> p2 [] k = 4 -> p3 [] OTHER -> p1]
MCExpires == [p \in MCPlans |-> IF p = p1 THEN 0 ELSE 2]
MCRenewalOf == [p \in MCPlans |-> IF p = p1 THEN p2 ELSE None]
MCRenewedTo == [k \in Pks |-> IF k = 1 THEN 3 ELSE None]
=============================================================================
