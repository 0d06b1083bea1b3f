------------------------------ MODULE Renewal ------------------------------
(***************************************************************************)
(* Renewal of a subscription plan: renew_subscription and its callers.     *)
(*                                                                         *)
(* A processor reads the SubscriptionPlanRenewal, then the licenses of the *)
(* prior plan and those of the renewed plan, and only then opens the       *)
(* transaction that creates the missing licenses, copies the licenses it   *)
(* read, moves the auto-apply flag and marks the renewal as processed.     *)
(* Neither the renewal nor the two plans are locked meanwhile.             *)
(***************************************************************************)
EXTENDS Naturals, FiniteSets

CONSTANTS
    Learners,     \* the learners with a license in the prior plan, one each
    Slots,        \* the license uuids of renewed plans that can exist (bound)
    Plans,        \* the uuids of renewed plans that can exist (bound)
    Prior,        \* the prior plan
    None,         \* NULL in a foreign key or in user_email
    Jobs,         \* runs of the process_renewals command
    Endpoints,    \* requests to .../subscription-plan-renewals/{uuid}/process
    Admins,       \* runs of the process_renewal action of the Django admin
    MaxLicenses,  \* the largest number_of_licenses (bound)
    Overlap       \* may other work on the renewal and its plan overlap a processor?

Processors == Jobs \union Endpoints \union Admins

ASSUME RenewalAssumption ==
    /\ IsFiniteSet(Learners) /\ IsFiniteSet(Slots)
    /\ Prior \notin Plans /\ None \notin Plans \union Learners \union Slots
    /\ MaxLicenses \in Nat
    /\ Overlap \in BOOLEAN

VARIABLES
    original,     \* learner -> status of the license in the prior plan
    renewed_to,   \* learner -> License.renewed_to of that license
    future,       \* the licenses of the renewed plans: Slots -> FutureRow
    auto,         \* the plans with should_auto_apply_licenses
    renewal,      \* the row of the SubscriptionPlanRenewal
    step,         \* where each processor is
    plan_read,    \* processor -> the renewed plan it read, None if there is none
    auto_read,    \* processor -> auto as the plans in its memory say
    copies,       \* processor -> learner -> the status to copy, or "none"
    changed       \* processor -> the learners whose license in the prior plan
                  \* changed since the processor read it (history)

rvars == <<original, renewed_to, future, auto, renewal, step, plan_read, auto_read, copies,
           changed>>
readVars == <<plan_read, auto_read, copies, changed>>

\* LicenseTypesToRenew, as the statuses that are copied.
LicenseTypesToRenew == {{}, {"activated"}, {"assigned", "activated"}}

FutureRow == [plan : Plans \union {None},
              status : {"absent", "unassigned", "assigned", "activated", "revoked"},
              learner : Learners \union {None}]

AbsentSlot == [plan |-> None, status |-> "absent", learner |-> None]

FreeSlot(p) == [plan |-> p, status |-> "unassigned", learner |-> None]

RenewalRow == [renewed_subscription_plan : Plans \union {None},
               processed : BOOLEAN,
               number_of_licenses : 1..MaxLicenses,
               license_types_to_copy : LicenseTypesToRenew,
               disable_auto_apply_licenses : BOOLEAN,
               exempt_from_batch_processing : BOOLEAN]

LicensesOf(p) == {s \in Slots : future[s].plan = p}

\* SubscriptionPlan.num_licenses
NumLicenses(p) == Cardinality({s \in LicensesOf(p) : future[s].status # "revoked"})

Holds(s) == future[s].status \in {"assigned", "activated"}

NoCopies == [l \in Learners |-> "none"]

\* A renewal is created for a plan, with or without a renewed plan that has
\* some unassigned licenses already.
RenewalInit ==
    /\ original \in [Learners -> {"assigned", "activated"}]
    /\ renewed_to = [l \in Learners |-> None]
    /\ renewal \in {row \in RenewalRow : ~row.processed}
    /\ \E L \in SUBSET Slots :
         /\ renewal.renewed_subscription_plan = None => L = {}
         /\ future = [s \in Slots |-> IF s \in L
                        THEN FreeSlot(renewal.renewed_subscription_plan) ELSE AbsentSlot]
    /\ auto \in {{}, {Prior}}
    /\ step = [r \in Processors |-> "idle"]
    /\ plan_read = [r \in Processors |-> None]
    /\ auto_read = [r \in Processors |-> {}]
    /\ copies = [r \in Processors |-> NoCopies]
    /\ changed = [r \in Processors |-> {}]

Resting == \A r \in Processors : step[r] = "idle"

Finished(r) ==
    /\ step' = [step EXCEPT ![r] = "idle"]
    /\ plan_read' = [plan_read EXCEPT ![r] = None]
    /\ auto_read' = [auto_read EXCEPT ![r] = {}]
    /\ copies' = [copies EXCEPT ![r] = NoCopies]
    /\ changed' = [changed EXCEPT ![r] = {}]

-----------------------------------------------------------------------------
\* The command selects unprocessed renewals that are not exempt.
CommandSelects == ~renewal.processed /\ ~renewal.exempt_from_batch_processing

\* The endpoint answers 200 for a processed renewal and leaves it alone.  The
\* admin action processes whatever is selected.
EndpointProcesses == ~renewal.processed

\* The renewal is read, and its plans with it.
RenewalStart(r) ==
    /\ step[r] = "idle"
    /\ Overlap \/ Resting
    /\ r \in Jobs => CommandSelects
    /\ r \in Endpoints => EndpointProcesses
    /\ plan_read' = [plan_read EXCEPT ![r] = renewal.renewed_subscription_plan]
    /\ auto_read' = [auto_read EXCEPT ![r] = auto]
    /\ step' = [step EXCEPT ![r] = "originals"]
    /\ UNCHANGED <<original, renewed_to, future, auto, renewal, copies, changed>>

\* Mutant: every allocated license is copied, whatever license_types_to_copy.
OriginalsAllocated == {l \in Learners : original[l] # "revoked"}

\* _original_licenses_to_copy
OriginalLicensesToCopy == {l \in Learners : original[l] \in renewal.license_types_to_copy}

\* More of them than number_of_licenses is a RenewalProcessingError.
ReadOriginals(r) ==
    /\ step[r] = "originals"
    /\ IF renewal.number_of_licenses < Cardinality(OriginalLicensesToCopy)
       THEN Finished(r)
       ELSE /\ copies' = [copies EXCEPT ![r] =
                  [l \in Learners |-> IF l \in OriginalLicensesToCopy THEN original[l] ELSE "none"]]
            /\ step' = [step EXCEPT ![r] = "future"]
            /\ UNCHANGED <<plan_read, auto_read, changed>>
    /\ UNCHANGED <<original, renewed_to, future, auto, renewal>>

\* Mutant: licenses in the renewed plan that are not unassigned are accepted.
ReadFutureUnchecked(r) ==
    /\ step[r] = "future"
    /\ step' = [step EXCEPT ![r] = "commit"]
    /\ UNCHANGED <<original, renewed_to, future, auto, renewal, readVars>>

\* The licenses of a renewed plan that exists must be unassigned and not more
\* than asked for.
ReadFuture(r) ==
    LET existing == IF plan_read[r] = None THEN {} ELSE LicensesOf(plan_read[r]) IN
    /\ step[r] = "future"
    /\ IF \/ \E s \in existing : future[s].status # "unassigned"
          \/ Cardinality(existing) > renewal.number_of_licenses
       THEN Finished(r)
       ELSE /\ step' = [step EXCEPT ![r] = "commit"]
            /\ UNCHANGED readVars
    /\ UNCHANGED <<original, renewed_to, future, auto, renewal>>

Copied(r) == {l \in Learners : copies[r][l] # "none"}

\* Mutant: a new plan is created although the renewal has one.
RenewIntoNew(r) ==
    {p \in Plans : LicensesOf(p) = {} /\ p # renewal.renewed_subscription_plan}

\* The plan that is renewed into: the one read, or a new one.
RenewInto(r) ==
    IF plan_read[r] # None THEN {plan_read[r]}
    ELSE {p \in Plans : LicensesOf(p) = {} /\ p # renewal.renewed_subscription_plan}

\* Mutant: the licenses that the renewed plan has already are not subtracted.
AddedRegardless(p) ==
    {N \in SUBSET LicensesOf(None) : Cardinality(N) = renewal.number_of_licenses}

\* increase_num_licenses(number_of_licenses - num_licenses), nothing if negative.
Added(p) ==
    {N \in SUBSET LicensesOf(None) :
        \/ NumLicenses(p) + Cardinality(N) = renewal.number_of_licenses
        \/ N = {} /\ NumLicenses(p) > renewal.number_of_licenses}

\* zip(original_licenses, future_plan.licenses.all()), in any order.
Pairings(L, S) == {f \in [L -> S] : \A l, m \in L : f[l] = f[m] => l = m}

\* Mutant: toggle_auto_apply_licenses does not switch the other plans off.
AutoAfterKeeping(r, p) ==
    IF Prior \notin auto_read[r] THEN auto
    ELSE IF renewal.disable_auto_apply_licenses THEN auto ELSE auto \union {p}

\* toggle_auto_apply_licenses when the prior plan, as read, auto-applies; else
\* the renewed plan is saved with the flag it was read with.
AutoAfter(r, p) ==
    IF Prior \in auto_read[r]
    THEN IF renewal.disable_auto_apply_licenses THEN {} ELSE {p}
    ELSE (auto \ {p}) \union (auto_read[r] \intersect {p})

\* _renew_all_licenses: the licenses after the copies, as they were read, are
\* written over the licenses they are paired with, and the links to them.
RenewedRows(r, p, new, pair) ==
    [s \in Slots |->
       IF \E l \in Copied(r) : pair[l] = s
       THEN LET l == CHOOSE l \in Copied(r) : pair[l] = s
            IN  [plan |-> p, status |-> copies[r][l], learner |-> l]
       ELSE IF s \in new THEN FreeSlot(p) ELSE future[s]]

RenewedLinks(r, pair) ==
    [l \in Learners |-> IF l \in Copied(r) THEN pair[l] ELSE renewed_to[l]]

\* renewed_to is a OneToOneField.
UniqueLinks(links) ==
    \A l, m \in Learners : links[l] = links[m] /\ links[l] # None => l = m

\* The transaction: the renewed plan, its licenses and links, the flag and the
\* renewal itself.
RenewalCommit(r) ==
    /\ step[r] = "commit"
    /\ \E p \in RenewInto(r) : \E new \in Added(p) :
         \E pair \in Pairings(Copied(r), LicensesOf(p) \union new) :
           /\ UniqueLinks(RenewedLinks(r, pair))
           /\ future' = RenewedRows(r, p, new, pair)
           /\ renewed_to' = RenewedLinks(r, pair)
           /\ auto' = AutoAfter(r, p)
           /\ renewal' = [renewal EXCEPT !.renewed_subscription_plan = p, !.processed = TRUE]
    /\ Finished(r)
    /\ UNCHANGED original

\* An exception rolls the transaction back.
RenewalRollback(r) ==
    /\ step[r] = "commit"
    /\ Finished(r)
    /\ UNCHANGED <<original, renewed_to, future, auto, renewal>>

-----------------------------------------------------------------------------
\* What other requests do to the two plans and to the flag.  The processors
\* that have the license of l in memory do not see it.
PriorChanged(l, status) ==
    /\ original' = [original EXCEPT ![l] = status]
    /\ changed' = [r \in Processors |->
                     IF step[r] \in {"future", "commit"} THEN changed[r] \union {l}
                     ELSE changed[r]]
    /\ UNCHANGED <<renewed_to, future, auto, renewal, step, plan_read, auto_read, copies>>

PriorActivated(l) == original[l] = "assigned" /\ PriorChanged(l, "activated")

PriorRevoked(l) == original[l] \in {"assigned", "activated"} /\ PriorChanged(l, "revoked")

FutureAssigned(s, l) ==
    /\ Overlap \/ Resting
    /\ future[s].status = "unassigned"
    /\ \A t \in LicensesOf(future[s].plan) : Holds(t) => future[t].learner # l
    /\ future' = [future EXCEPT ![s] =
                    [plan |-> future[s].plan, status |-> "assigned", learner |-> l]]
    /\ UNCHANGED <<original, renewed_to, auto, renewal, step, readVars>>

FutureRevoked(s, new) ==
    /\ Overlap \/ Resting
    /\ Holds(s) /\ future[new].status = "absent"
    /\ future' = [future EXCEPT
                    ![s] = [plan |-> future[s].plan, status |-> "revoked",
                            learner |-> future[s].learner],
                    ![new] = FreeSlot(future[s].plan)]
    /\ UNCHANGED <<original, renewed_to, auto, renewal, step, readVars>>

\* The admin form of the customer agreement selects a plan, or none.
AutoSelected(P) ==
    /\ Overlap \/ Resting
    /\ P \subseteq {Prior} \union ({renewal.renewed_subscription_plan} \ {None})
    /\ Cardinality(P) <= 1
    /\ auto' = P
    /\ UNCHANGED <<original, renewed_to, future, renewal, step, readVars>>

RenewalNext ==
    \/ \E r \in Processors :
         \/ RenewalStart(r)
         \/ ReadOriginals(r)
         \/ ReadFuture(r)
         \/ RenewalCommit(r)
         \/ RenewalRollback(r)
    \/ \E l \in Learners : PriorActivated(l) \/ PriorRevoked(l)
    \/ \E s \in Slots, l \in Learners : FutureAssigned(s, l)
    \/ \E s, new \in Slots : FutureRevoked(s, new)
    \/ \E P \in SUBSET ({Prior} \union Plans) : AutoSelected(P)

RenewalSpec == RenewalInit /\ [][RenewalNext]_rvars

RenewalTypeOK ==
    /\ original \in [Learners -> {"assigned", "activated", "revoked"}]
    /\ renewed_to \in [Learners -> Slots \union {None}]
    /\ future \in [Slots -> FutureRow]
    /\ auto \in SUBSET ({Prior} \union Plans)
    /\ renewal \in RenewalRow
    /\ step \in [Processors -> {"idle", "originals", "future", "commit"}]
    /\ plan_read \in [Processors -> Plans \union {None}]
    /\ auto_read \in [Processors -> SUBSET ({Prior} \union Plans)]
    /\ copies \in [Processors -> [Learners -> {"none", "assigned", "activated"}]]
    /\ changed \in [Processors -> SUBSET Learners]

(***************************************************************************)
(* A renewal is renewed into one plan: every license that processors ever  *)
(* created is in the plan that the renewal names.                          *)
(***************************************************************************)
RenewedOnce ==
    \A s \in Slots : future[s].plan \in {None, renewal.renewed_subscription_plan}

(***************************************************************************)
(* The renewed plan has number_of_licenses licenses, however often it is   *)
(* processed and whatever was revoked since.                               *)
(***************************************************************************)
RenewedSize ==
    renewal.processed =>
       NumLicenses(renewal.renewed_subscription_plan) = renewal.number_of_licenses

(***************************************************************************)
(* No learner holds two licenses of one renewed plan, although the copies  *)
(* are written with bulk_update, which skips License.clean.                *)
(***************************************************************************)
NoLearnerTwice ==
    \A s, t \in Slots :
       (/\ Holds(s) /\ Holds(t)
        /\ future[s].plan = future[t].plan
        /\ future[s].learner = future[t].learner) => s = t

(***************************************************************************)
(* License.renewed_to leads to a license of the same learner in the plan   *)
(* that was renewed into.                                                  *)
(***************************************************************************)
LinksFaithful ==
    \A l \in Learners : renewed_to[l] # None =>
       /\ future[renewed_to[l]].learner = l
       /\ future[renewed_to[l]].plan = renewal.renewed_subscription_plan

(***************************************************************************)
(* Why these hold while nothing overlaps a processor: what it has read of  *)
(* the renewal, of the flags and of the renewed plan is still so.          *)
(***************************************************************************)
OneAtWork == \A q, r \in Processors : step[q] # "idle" /\ step[r] # "idle" => q = r

ReadsCurrent ==
    \A r \in Processors : step[r] # "idle" =>
       /\ plan_read[r] = renewal.renewed_subscription_plan
       /\ auto_read[r] = auto
       /\ step[r] = "commit" /\ plan_read[r] # None =>
            /\ \A s \in LicensesOf(plan_read[r]) : future[s].status = "unassigned"
            /\ Cardinality(LicensesOf(plan_read[r])) <= renewal.number_of_licenses

\* A license without a plan does not exist, and one that is not allocated has
\* no learner.
RowsSound ==
    /\ \A s \in Slots :
         /\ future[s].plan = None <=> future[s] = AbsentSlot
         /\ future[s].status \in {"absent", "unassigned"} => future[s].learner = None
    /\ renewal.processed => renewal.renewed_subscription_plan # None

(***************************************************************************)
(* At most one of the plans auto-applies its licenses.                     *)
(***************************************************************************)
AtMostOneAutoApplies == \A p, q \in auto : p = q

RenewalInv ==
    /\ RenewalTypeOK /\ RowsSound /\ OneAtWork /\ ReadsCurrent
    /\ RenewedOnce /\ NoLearnerTwice /\ LinksFaithful /\ AtMostOneAutoApplies

(***************************************************************************)
(* Processing a renewal again makes no undue change: the plan and the      *)
(* links stay, and no license is taken from its learner.                   *)
(***************************************************************************)
ReprocessingHarmless ==
    [][renewal.processed =>
         /\ renewal'.renewed_subscription_plan = renewal.renewed_subscription_plan
         /\ \A l \in Learners : renewed_to[l] # None => renewed_to'[l] = renewed_to[l]
         /\ \A s \in Slots : Holds(s) => future'[s].learner = future[s].learner]_rvars

(***************************************************************************)
(* The learners who are carried over are those who have a license of the   *)
(* right type when the renewal takes effect, with the status it then has.  *)
(* The licenses are read before the transaction and nothing locks them, so *)
(* this can fail for a learner whose license changes in between: a revoked *)
(* one is carried over, one who activates may be dropped.  It fails for no *)
(* other learner.                                                          *)
(***************************************************************************)
CarriedOverExactly ==
    [][~renewal.processed /\ renewal'.processed =>
         \E r \in Processors : step[r] = "commit" /\ \A l \in Learners \ changed[r] :
            IF original[l] \in renewal.license_types_to_copy
            THEN renewed_to'[l] # None /\ future'[renewed_to'[l]].status = original[l]
            ELSE renewed_to'[l] = None]_rvars
=============================================================================
