---------------------------- MODULE Entitlement ----------------------------
(***************************************************************************)
(* What a subscription plan promises its customer: a pool of seats.        *)
(* Learners without a seat get free ones, all at once; seats are withdrawn *)
(* for good, and in the same moment replaced by as many new ones.          *)
(*                                                                         *)
(* There are no requests, locks or memory here.  LicensePlan shows that    *)
(* the endpoints implement it.                                             *)
(***************************************************************************)
EXTENDS FiniteSets

CONSTANTS
    Seats,      \* every seat that can ever be in the pool
    Paid,       \* the seats that the customer paid for
    Learners,
    Nobody

VARIABLES
    holder,     \* seat -> the learner who has it, or Nobody
    free,       \* the seats that may be given out
    withdrawn   \* the seats that are gone for good

entitlementVars == <<holder, free, withdrawn>>

Held == {s \in Seats : holder[s] # Nobody}
Unused == Seats \ (Held \union free \union withdrawn)

EntitlementInit ==
    /\ holder = [s \in Seats |-> Nobody]
    /\ free = Paid
    /\ withdrawn = {}

\* Some free seats go to as many learners, none of whom has one.
Grant ==
    \E S \in (SUBSET free) \ {{}} :
       /\ holder' \in [Seats -> Learners \union {Nobody}]
       /\ \A s \in Seats \ S : holder'[s] = holder[s]
       /\ \A s \in S : holder'[s] # Nobody /\ \A t \in Seats \ {s} : holder'[t] # holder'[s]
       /\ free' = free \ S
       /\ UNCHANGED withdrawn

\* Some seats are withdrawn, and replaced.
Withdraw ==
    \E S \in (SUBSET Held) \ {{}} : \E N \in SUBSET Unused :
       /\ Cardinality(N) = Cardinality(S)
       /\ holder' = [s \in Seats |-> IF s \in S THEN Nobody ELSE holder[s]]
       /\ free' = free \union N
       /\ withdrawn' = withdrawn \union S

EntitlementSpec == EntitlementInit /\ [][Grant \/ Withdraw]_entitlementVars
=============================================================================
