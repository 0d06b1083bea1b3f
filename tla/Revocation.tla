----------------------------- MODULE Revocation -----------------------------
(***************************************************************************)
(* POST .../licenses/bulk-revoke/ and revoke_all_licenses_task.            *)
(*                                                                         *)
(* The plan's row is read when the request starts, and revoke_license      *)
(* counts the revocations of activated licenses on that instance and saves *)
(* it whole.  Every revoked license is replaced by a new unassigned one.   *)
(***************************************************************************)
EXTENDS LicenseTable

CONSTANTS
    RevocationCap,          \* is_revocation_cap_enabled
    RevokeMaxPercentage     \* revoke_max_percentage

ASSUME RevocationAssumption ==
    /\ RevocationCap \in BOOLEAN
    /\ RevokeMaxPercentage \in Nat

\* ceil(num_licenses * (revoke_max_percentage / 100)), in exact arithmetic: the
\* floats of the code may round a whole number up by one more.
RevocationsAllowed == (NumLicenses * RevokeMaxPercentage + 99) \div 100

\* Mutant: the limit is compared with the licenses that are left, and the
\* revocations applied so far are forgotten.
RevokeStartForgetful(r, emails) ==
    /\ pc[r] = "idle"
    /\ emails # {}
    /\ RevocationCap => Cardinality(emails) <= RevocationsAllowed
    /\ todo' = [todo EXCEPT ![r] = emails]
    /\ plan_read' = [plan_read EXCEPT ![r] = 0]
    /\ Goto(r, "select")
    /\ UNCHANGED <<tableVars, view>>

\* bulk_revoke refuses more e-mails than num_revocations_remaining.
RevokeStart(r, emails) ==
    /\ pc[r] = "idle"
    /\ emails # {}
    /\ RevocationCap =>
          Cardinality(emails) + num_revocations_applied <= RevocationsAllowed
    /\ todo' = [todo EXCEPT ![r] = emails]
    /\ plan_read' = [plan_read EXCEPT ![r] = num_revocations_applied]
    /\ Goto(r, "select")
    /\ UNCHANGED <<tableVars, view>>

\* _revoke_by_email_and_plan: among several licenses prefer an assigned one.
RevocableFor(e) ==
    LET assigned == {l \in AllocatedTo(e) : licenses[l].status = "assigned"}
    IN  IF assigned # {} THEN assigned ELSE AllocatedTo(e)

Charged(r) == {l \in Licenses : view[r][l].status = "activated"}

\* What one pass over the e-mails selects: a license for each e-mail that has
\* one, unless it is activated and the limit of the plan is reached.
Selections(emails, applied) ==
    {L \in SUBSET UNION {RevocableFor(e) : e \in emails} :
        LET charged == Cardinality({l \in L : licenses[l].status = "activated"}) IN
        /\ \A e \in emails : Cardinality(L \intersect RevocableFor(e)) <= 1
        /\ RevocationCap /\ charged > 0 => applied + charged <= RevocationsAllowed
        /\ \A e \in emails : RevocableFor(e) # {} /\ L \intersect RevocableFor(e) = {} =>
              /\ RevocationCap
              /\ applied + charged >= RevocationsAllowed
              /\ \A l \in RevocableFor(e) : licenses[l].status = "activated"}

\* The queries of the transaction; e-mails without a license are errors of the
\* answer, and with no license at all the request ends.
RevokeSelect(r) ==
    /\ pc[r] = "select"
    /\ \E L \in Selections(todo[r], plan_read[r]) :
         IF L = {} THEN Done(r)
         ELSE /\ view' = [view EXCEPT ![r] = RowsOf(L, licenses)]
              /\ Goto(r, "commit")
              /\ UNCHANGED <<todo, plan_read>>
    /\ UNCHANGED tableVars

\* revoke_all_licenses_task: every allocated license, when there is no cap.
RevokeAllSelect(r) ==
    /\ pc[r] = "idle"
    /\ ~RevocationCap
    /\ \E l \in Licenses : Allocated(l)
    /\ view' = [view EXCEPT ![r] = RowsOf({l \in Licenses : Allocated(l)}, licenses)]
    /\ Goto(r, "commit")
    /\ UNCHANGED <<tableVars, todo, plan_read>>

\* revoke_license: License.revoke and increase_num_licenses(1) for each one.
RevokeCommit(r) ==
    /\ pc[r] = "commit"
    /\ \E new \in FreshLicenses(Cardinality(InMemory(r))) :
         licenses' = [l \in Licenses |->
                        IF l \in InMemory(r) THEN RevokedRow(view[r][l])
                        ELSE IF l \in new THEN UnassignedRow
                        ELSE licenses[l]]
    /\ num_revocations_applied' =
         IF RevocationCap /\ Charged(r) # {}
         THEN plan_read[r] + Cardinality(Charged(r))
         ELSE num_revocations_applied
    /\ Done(r)

\* An exception rolls the transaction back.
RevokeRollback(r) ==
    /\ pc[r] = "commit"
    /\ Done(r)
    /\ UNCHANGED tableVars

RevocationNext ==
    \E r \in Revokers :
       \/ \E emails \in SUBSET Emails : RevokeStart(r, emails)
       \/ RevokeSelect(r)
       \/ RevokeAllSelect(r)
       \/ RevokeCommit(r)
       \/ RevokeRollback(r)
=============================================================================
