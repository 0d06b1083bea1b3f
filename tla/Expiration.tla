----------------------------- MODULE Expiration -----------------------------
(***************************************************************************)
(* The command expire_subscriptions, which ends the enrollments of the     *)
(* licenses of expired plans, chunk by chunk.                              *)
(***************************************************************************)
EXTENDS NightlyTable

CONSTANTS
    ChunkSize,    \* LICENSE_EXPIRATION_BATCH_SIZE
    CallsFail     \* may a call to the LMS fail?

ASSUME ExpirationAssumption == ChunkSize \in Nat \ {0} /\ CallsFail \in BOOLEAN

VARIABLES
    processed,    \* the plans with expiration_processed
    ended,        \* external: the licenses whose enrollments have been ended
    expire        \* the running command

expireVars == <<processed, ended, expire>>

ExpireIdle == [pc |-> "idle", plans |-> {}, chain |-> {}, plan |-> None,
               licenses |-> {}, failures |-> FALSE]

ExpireInit == processed = {} /\ ended = {} /\ expire = ExpireIdle

RenewedInto(P) == {q \in Plans : RenewalOf[q] \in P}

\* prior_renewals: the plans that were renewed, in one step or more, into p.
PriorPlans(p) ==
    {q \in Plans : \A P \in SUBSET Plans : RenewedInto(P \union {p}) \subseteq P => q \in P}

\* The last plan of the chain of renewals that p is in.
LastPlan(p) == CHOOSE q \in Plans : RenewalOf[q] = None /\ p \in {q} \union PriorPlans(q)

\* The nightly run: plans that expired since the run of the day before.
ExpiredPlans == {p \in Plans : Expires[p] = day /\ p \notin processed}

\* A run by hand, with --subscription-uuids: processed plans are not left out.
ExpiredPlansAmong(P) == {p \in P : Expires[p] <= day}

ExpireStart ==
    /\ expire.pc = "idle" /\ "expire" \notin ran
    /\ ran' = ran \union {"expire"}
    /\ expire' = [ExpireIdle EXCEPT !.pc = "plans", !.plans = ExpiredPlans]
    /\ UNCHANGED <<day, tableVars, processed, ended>>

ExpireByHand(P) ==
    /\ expire.pc = "idle" /\ Call
    /\ ExpiredPlansAmong(P) # {}
    /\ expire' = [ExpireIdle EXCEPT !.pc = "plans", !.plans = ExpiredPlansAmong(P)]
    /\ UNCHANGED <<day, ran, rows, history, source, linked, processed, ended>>

\* Mutant: plans with a renewal are expired like the others.
ExpireNextPlanAnyway(p) ==
    /\ expire.pc = "plans" /\ p \in expire.plans
    /\ expire' = [expire EXCEPT !.plans = @ \ {p}, !.pc = "chain",
                                !.chain = {p} \union PriorPlans(p)]
    /\ UNCHANGED <<day, ran, tableVars, processed, ended>>

\* Mutant: the plans that were renewed into the plan are forgotten.
ExpireNextPlanAlone(p) ==
    /\ expire.pc = "plans" /\ p \in expire.plans
    /\ expire' = IF RenewalOf[p] # None THEN [expire EXCEPT !.plans = @ \ {p}]
                 ELSE [expire EXCEPT !.plans = @ \ {p}, !.pc = "chain", !.chain = {p}]
    /\ UNCHANGED <<day, ran, tableVars, processed, ended>>

\* A plan that has a renewal is skipped; with another one all the plans before
\* it are expired too, in any order.
ExpireNextPlan(p) ==
    /\ expire.pc = "plans" /\ p \in expire.plans
    /\ expire' = IF RenewalOf[p] # None THEN [expire EXCEPT !.plans = @ \ {p}]
                 ELSE [expire EXCEPT !.plans = @ \ {p}, !.pc = "chain",
                                     !.chain = {p} \union PriorPlans(p)]
    /\ UNCHANGED <<day, ran, tableVars, processed, ended>>

\* _expire_subscription_plan reads the licenses of a plan of the chain ...
ExpireRead(q) ==
    /\ expire.pc = "chain" /\ q \in expire.chain
    /\ expire' = [expire EXCEPT !.pc = "chunks", !.plan = q, !.chain = @ \ {q},
                    !.licenses = {k \in Pks : PlanOf[k] = q /\ Allocated(k)},
                    !.failures = FALSE]
    /\ UNCHANGED <<day, ran, tableVars, processed, ended>>

Chunk(K) ==
    {C \in SUBSET K : Cardinality(C) = IF Cardinality(K) < ChunkSize THEN Cardinality(K)
                                       ELSE ChunkSize}

\* ... and sends them to license_expiration_task, which raises what the client
\* raises; the other chunks are still sent.
ExpireChunk ==
    /\ expire.pc = "chunks" /\ expire.licenses # {}
    /\ \E C \in Chunk(expire.licenses) :
         \/ /\ ended' = ended \union C
            /\ expire' = [expire EXCEPT !.licenses = @ \ C]
         \/ /\ CallsFail
            /\ expire' = [expire EXCEPT !.licenses = @ \ C, !.failures = TRUE]
            /\ UNCHANGED ended
    /\ UNCHANGED <<day, ran, tableVars, processed>>

\* Mutant: the plan is marked although a chunk failed.
ExpireFlagAnyway ==
    /\ expire.pc = "chunks" /\ expire.licenses = {}
    /\ processed' = processed \union {expire.plan}
    /\ expire' = [expire EXCEPT !.pc = "chain", !.plan = None]
    /\ UNCHANGED <<day, ran, tableVars, ended>>

\* expiration_processed is saved unless a chunk failed.
ExpireFlag ==
    /\ expire.pc = "chunks" /\ expire.licenses = {}
    /\ processed' = IF expire.failures THEN processed ELSE processed \union {expire.plan}
    /\ expire' = [expire EXCEPT !.pc = "chain", !.plan = None, !.failures = FALSE]
    /\ UNCHANGED <<day, ran, tableVars, ended>>

ExpireChainDone ==
    /\ expire.pc = "chain" /\ expire.chain = {}
    /\ expire' = [expire EXCEPT !.pc = "plans"]
    /\ UNCHANGED <<day, ran, tableVars, processed, ended>>

ExpireDone ==
    /\ expire.pc = "plans" /\ expire.plans = {}
    /\ expire' = ExpireIdle
    /\ UNCHANGED <<day, ran, tableVars, processed, ended>>

ExpireStep ==
    \/ \E p \in Plans : ExpireNextPlan(p) \/ ExpireRead(p)
    \/ ExpireChunk
    \/ ExpireFlag
    \/ ExpireChainDone
    \/ ExpireDone
=============================================================================
