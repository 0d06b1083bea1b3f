---------------------------- MODULE RenewalAdmin ----------------------------
(***************************************************************************)
(* The records that schedule renewals: POST, PUT, PATCH and DELETE of      *)
(* /provisioning-admins/subscription-plan-renewals, the admin form, and    *)
(* the chains of plans and renewals that the API reports from them.        *)
(* Requests read the row, validate it and save all its fields, so that     *)
(* requests on the same row overlap between the read and the save.         *)
(***************************************************************************)
EXTENDS Naturals, FiniteSets

CONSTANTS
    RPlans,         \* plans, natural numbers above 0
    NoPlan,         \* NULL
    RIds,           \* ids of renewals
    Workers,        \* web workers
    Customer,       \* plan -> its customer agreement
    MaxDate,        \* dates are 0..MaxDate (bound)
    MaxROps         \* requests (bound)

ASSUME RenewalAdminAssumption ==
    /\ RPlans \subseteq Nat \ {0} /\ IsFiniteSet(RPlans) /\ NoPlan \notin RPlans
    /\ RIds \subseteq Nat \ {0} /\ IsFiniteSet(RIds)
    /\ {MaxDate, MaxROps} \subseteq Nat

VARIABLES
    planDates,      \* plan -> [start, expires], or NoDates when it does not exist
    renewals,       \* id -> row, or NoRenewal
    rreq,           \* worker -> the request it serves
    rops            \* requests so far (bounded by MaxROps)

renewalAdminVars == <<planDates, renewals, rreq, rops>>

Dates == 0..MaxDate
NoDates == [start |-> 0, expires |-> 0]
NoRenewal == [prior |-> NoPlan, renewed |-> NoPlan, effective |-> 0, expires |-> 0, processed |-> FALSE]
RIdle == [pc |-> "idle", id |-> 0, row |-> NoRenewal]

Exists(i) == renewals[i].prior # NoPlan

\* The largest plan does not exist until a renewal creates it.
RenewalAdminInit ==
    /\ planDates = [p \in RPlans |-> IF \E q \in RPlans : q > p THEN [start |-> 0, expires |-> 1] ELSE NoDates]
    /\ renewals = [i \in RIds |-> NoRenewal]
    /\ rreq = [w \in Workers |-> RIdle]
    /\ rops = 0

Asked == rops < MaxROps /\ rops' = rops + 1
Known == {p \in RPlans : planDates[p] # NoDates}

-----------------------------------------------------------------------------
\* validate, of both the create and the update serializer: the agreement of a plan
\* that the request names, and the dates.
SameCustomer(p, q) == q # NoPlan => Customer[p] = Customer[q]
ValidDates(row) ==
    /\ row.effective >= planDates[row.prior].start
    /\ row.expires > row.effective

\* Mutant: two renewals may lead to the same plan.
UniquePrior(i, row) ==
    \A j \in RIds \ {i} : Exists(j) => renewals[j].prior # row.prior

\* The one-to-one columns: the database refuses a second renewal of a plan, and a
\* second renewal into a plan; NULLs do not collide.
UniquePlans(i, row) ==
    \A j \in RIds \ {i} : Exists(j) =>
       /\ renewals[j].prior # row.prior
       /\ row.renewed # NoPlan => renewals[j].renewed # row.renewed

\* create: a renewal with both plans is found, one with either plan conflicts, and
\* otherwise a row is inserted.
MatchesBoth(p, q) == \E i \in RIds : Exists(i) /\ renewals[i].prior = p /\ renewals[i].renewed = q
MatchesEither(p, q) ==
    \E i \in RIds : Exists(i) /\ (renewals[i].prior = p \/ (q # NoPlan /\ renewals[i].renewed = q))

CreateCheck(w, p, q, effective, expires) ==
    LET row == [prior |-> p, renewed |-> q, effective |-> effective, expires |-> expires, processed |-> FALSE]
    IN  /\ Asked
        /\ rreq[w] = RIdle
        /\ SameCustomer(p, q) /\ ValidDates(row)
        /\ ~MatchesBoth(p, q) /\ ~MatchesEither(p, q)   \* else answered at once
        /\ rreq' = [rreq EXCEPT ![w] = [pc |-> "insert", id |-> 0, row |-> row]]
        /\ UNCHANGED <<planDates, renewals>>

\* An id for a new row; the id of a deleted one is not used again while a request
\* still knows it.
NextId(i) ==
    /\ ~Exists(i) /\ \A j \in RIds : j < i => Exists(j)
    /\ \A w \in Workers : rreq[w].id # i

\* The insert, or an integrity error when another request was faster.
CreateInsert(w) ==
    LET row == rreq[w].row
    IN  /\ rreq[w].pc = "insert"
        /\ \E i \in RIds :
             /\ NextId(i)
             /\ renewals' = IF UniquePlans(i, row) THEN [renewals EXCEPT ![i] = row] ELSE renewals
        /\ rreq' = [rreq EXCEPT ![w] = RIdle]
        /\ UNCHANGED <<planDates, rops>>

\* update and partial_update: the row as it is when the request begins.
UpdateRead(w, i) ==
    /\ Asked
    /\ rreq[w] = RIdle /\ Exists(i)
    /\ rreq' = [rreq EXCEPT ![w] = [pc |-> "update", id |-> i, row |-> renewals[i]]]
    /\ UNCHANGED <<planDates, renewals>>

\* Mutant: only the fields of the request are written.
UpdateSaveFields(w, renewed, effective, expires) ==
    LET old == rreq[w].row
        i == rreq[w].id
        row == [old EXCEPT !.renewed = renewed, !.effective = effective, !.expires = expires]
        now == renewals[i]
        mixed == [now EXCEPT !.renewed = IF renewed = old.renewed THEN @ ELSE renewed,
                             !.effective = IF effective = old.effective THEN @ ELSE effective,
                             !.expires = IF expires = old.expires THEN @ ELSE expires]
    IN  /\ rreq[w].pc = "update"
        /\ renewed # rreq[w].row.renewed => SameCustomer(row.prior, renewed)
        /\ ValidDates(row)
        /\ renewals' = IF Exists(i) /\ UniquePlans(i, row)
                       THEN [renewals EXCEPT ![i] = mixed] ELSE renewals
        /\ rreq' = [rreq EXCEPT ![w] = RIdle]
        /\ UNCHANGED <<planDates, rops>>

\* The fields of the request replace those that were read; the dates of the result
\* are validated, and the agreement of a plan that the request names.  All fields
\* are saved, also those that changed meanwhile.  The prior plan
\* is no field of the request, and processed renewals may be updated.  A row that
\* was deleted meanwhile is inserted again.
UpdateSave(w, renewed, effective, expires) ==
    LET i == rreq[w].id
        row == [rreq[w].row EXCEPT !.renewed = renewed, !.effective = effective, !.expires = expires]
    IN  /\ rreq[w].pc = "update"
        /\ renewed # rreq[w].row.renewed => SameCustomer(row.prior, renewed)
        /\ ValidDates(row)
        /\ renewals' = IF UniquePlans(i, row) THEN [renewals EXCEPT ![i] = row] ELSE renewals
        /\ rreq' = [rreq EXCEPT ![w] = RIdle]
        /\ UNCHANGED <<planDates, rops>>

HasChangePermission(i) == ~renewals[i].processed

\* SubscriptionPlanRenewalForm.is_valid, for a renewal that may be edited.  The form
\* compares with the plan's expiration and allows a renewal that expires on the
\* day it takes effect; it does not compare the agreements.  (Today is day 0, so no
\* effective date is in the past.)
SaveRenewalForm(i, row) ==
    /\ Asked
    /\ Exists(i) \/ NextId(i)
    /\ HasChangePermission(i)
    /\ row.expires >= row.effective
    /\ row.effective >= planDates[row.prior].expires
    /\ UniquePlans(i, row)
    /\ renewals' = [renewals EXCEPT ![i] = row]
    /\ UNCHANGED <<planDates, rreq>>

\* destroy, of any renewal.
DestroyRenewal(i) ==
    /\ Asked
    /\ Exists(i)
    /\ renewals' = [renewals EXCEPT ![i] = NoRenewal]
    /\ UNCHANGED <<planDates, rreq>>

\* renew_subscription, which the module Renewal models in detail, when it succeeds:
\* it creates the future plan with the dates of the renewal, or takes the plan that
\* the renewal names, whose own dates stay.  (The nightly command and the endpoint
\* skip processed renewals, the admin action does not.)
RenewalProcessed(i) ==
    /\ Asked
    /\ Exists(i)
    /\ IF renewals[i].renewed # NoPlan
       THEN /\ renewals' = [renewals EXCEPT ![i].processed = TRUE]
            /\ UNCHANGED planDates
       ELSE \E q \in {x \in RPlans \ Known : Customer[x] = Customer[renewals[i].prior]} :
              /\ renewals' = [renewals EXCEPT ![i].renewed = q, ![i].processed = TRUE]
              /\ planDates' = [planDates EXCEPT ![q] =
                                 [start |-> renewals[i].effective, expires |-> renewals[i].expires]]
    /\ UNCHANGED rreq

RenewalAdminNext ==
    \/ \E w \in Workers, p \in Known, q \in Known \union {NoPlan}, d, e \in Dates : CreateCheck(w, p, q, d, e)
    \/ \E w \in Workers : CreateInsert(w)
    \/ \E w \in Workers, i \in RIds : UpdateRead(w, i)
    \/ \E w \in Workers, q \in Known \union {NoPlan}, d, e \in Dates : UpdateSave(w, q, d, e)
    \/ \E i \in RIds, p \in Known, q \in Known \union {NoPlan}, d, e \in Dates :
          SaveRenewalForm(i, [prior |-> p, renewed |-> q, effective |-> d, expires |-> e, processed |-> FALSE])
    \/ \E i \in RIds : DestroyRenewal(i) \/ RenewalProcessed(i)

RenewalAdminSpec == RenewalAdminInit /\ [][RenewalAdminNext]_renewalAdminVars

-----------------------------------------------------------------------------
\* get_renewal, get_origin_renewal: an id, or 0.
RenewalFrom(p) ==
    IF \E i \in RIds : renewals[i].prior = p THEN CHOOSE i \in RIds : renewals[i].prior = p ELSE 0
RenewalInto(q) ==
    IF \E i \in RIds : renewals[i].renewed = q THEN CHOOSE i \in RIds : renewals[i].renewed = q ELSE 0

Steps == 0..(Cardinality(RIds) + 1)

\* future_renewals: the ids in order, 0 after the last one.
FutureRenewals(p) ==
    LET walk[n \in Steps] ==
          IF n = 0 THEN RenewalFrom(p)
          ELSE IF walk[n - 1] = 0 \/ renewals[walk[n - 1]].renewed = NoPlan THEN 0
          ELSE RenewalFrom(renewals[walk[n - 1]].renewed)
    IN  walk

\* prior_renewals: the same, backwards.
PriorRenewals(q) ==
    LET walk[n \in Steps] ==
          IF n = 0 THEN RenewalInto(q)
          ELSE IF walk[n - 1] = 0 THEN 0
          ELSE RenewalInto(renewals[walk[n - 1]].prior)
    IN  walk

Ids(walk) == {walk[n] : n \in Steps} \ {0}

\* Mutant: only the next renewal counts.
ExpirationOfNextRenewal(p) ==
    IF RenewalFrom(p) = 0 THEN planDates[p].expires ELSE renewals[RenewalFrom(p)].expires

\* days_until_expiration_including_renewals, as the date that it counts to.
ExpirationIncludingRenewals(p) ==
    LET ends == {renewals[i].expires : i \in Ids(FutureRenewals(p))}
    IN  IF ends = {} THEN planDates[p].expires ELSE CHOOSE d \in ends : \A e \in ends : e <= d

-----------------------------------------------------------------------------
(***************************************************************************)
(* However requests on a renewal overlap, and whichever of them validates  *)
(* against values that another has replaced, a renewal never expires       *)
(* before it takes effect.                                                 *)
(***************************************************************************)
RenewalDatesOrdered == \A i \in RIds : Exists(i) => renewals[i].effective <= renewals[i].expires

(***************************************************************************)
(* From a plan that is no renewal of another, future_renewals ends, and    *)
(* prior_renewals of every plan it passes leads back through the same      *)
(* renewals: chains of renewals neither merge nor branch.  (Two renewals   *)
(* into each other's plans can be created; from those plans there is no    *)
(* end.)                                                                   *)
(***************************************************************************)
ChainsEnd ==
    \A p \in Known : RenewalInto(p) = 0 =>
       LET future == FutureRenewals(p)
       IN  /\ \E n \in Steps : future[n] = 0
           /\ \A n \in Steps : future[n] # 0 /\ renewals[future[n]].renewed # NoPlan =>
                 Ids(PriorRenewals(renewals[future[n]].renewed)) = {future[m] : m \in 0..n}

(***************************************************************************)
(* Along a chain whose renewals take effect one after the other, the days  *)
(* that a plan has left including its renewals are those of the last       *)
(* renewal of the chain.                                                   *)
(***************************************************************************)
LastRenewalCounts ==
    \A p \in Known :
       LET future == FutureRenewals(p)
           links == {n \in Steps : future[n] # 0}
       IN  /\ links # {} /\ links # Steps
           /\ \A n \in links : n > 0 => renewals[future[n - 1]].expires <= renewals[future[n]].effective
           => \A n \in links : (n + 1 \notin links) =>
                 ExpirationIncludingRenewals(p) = renewals[future[n]].expires

(***************************************************************************)
(* Whatever sequence of requests and forms made them, renewals form chains *)
(* that can be followed to an end, and their dates are in order.           *)
(***************************************************************************)
RenewalsSound == RenewalDatesOrdered /\ ChainsEnd /\ LastRenewalCounts
=============================================================================
