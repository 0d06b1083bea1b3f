-------------------------- MODULE MCAdministration --------------------------
\* Model checking of Administration: plan 3 belongs to another customer.
EXTENDS Administration

MCCustomer == [p \in RPlans |-> IF p = 3 THEN "B" ELSE "A"]
=============================================================================
