----------------------------- MODULE MCOutbound -----------------------------
\* Model checking of Outbound: the day on which the plan of a license expires.
EXTENDS Outbound

MCPlanExpires == [k \in Pks |-> IF k = 2 THEN 2 ELSE 1]
=============================================================================
