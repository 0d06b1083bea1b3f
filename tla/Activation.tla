----------------------------- MODULE Activation -----------------------------
(***************************************************************************)
(* POST /license-activation/?activation_key=...                            *)
(*                                                                         *)
(* A learner presents the activation key of a license.  When the learner   *)
(* has several unrevoked licenses in the plan, all but one of them are     *)
(* reset to unassigned, one save at a time, and then the remaining one is  *)
(* activated.  There is no lock and no transaction.                        *)
(***************************************************************************)
EXTENDS LicenseTable

\* Mutant: the query of license_for_activation forgets the e-mail.
UnrevokedOfAnybody(e) ==
    {l \in Stored : licenses[l].user_email # NoEmail /\ licenses[l].status # "revoked"}

\* The learner's licenses in the plan, as get_licenses_by_email returns them
\* without the revoked ones.
Unrevoked(e) ==
    {l \in Stored : licenses[l].user_email = e /\ licenses[l].status # "revoked"}

\* get_license_by_email_and_activation_key finds a license that is not
\* revoked.  Otherwise the answer is a 404 or a 422 and nothing changes.
ActivateLookup(r, e) ==
    /\ pc[r] = "idle"
    /\ Unrevoked(e) # {}
    /\ todo' = [todo EXCEPT ![r] = {e}]
    /\ Goto(r, "dups")
    /\ UNCHANGED <<tableVars, view, plan_read>>

\* The second query of license_for_activation.  An activated license is kept
\* before any assigned one; among assigned ones the newest assigned_date, which
\* may be any of them, since each date is the clock of another web worker.
ActivateSelect(r) ==
    /\ pc[r] = "dups"
    /\ \E e \in todo[r] : \E keep \in Unrevoked(e) :
         /\ \/ licenses[keep].status = "activated"
            \/ \A l \in Unrevoked(e) : licenses[l].status # "activated"
         /\ view' = [view EXCEPT ![r] =
                       RowsOf({l \in Unrevoked(e) :
                                 l # keep \/ licenses[l].status = "assigned"},
                              [l \in Licenses |-> IF l = keep THEN ActivatedRow(e)
                                                  ELSE UnassignedRow])]
    /\ Goto(r, "reset")
    /\ UNCHANGED <<tableVars, todo, plan_read>>

\* The licenses were revoked since the lookup: indexing the empty list fails.
ActivateGone(r) ==
    /\ pc[r] = "dups"
    /\ \A e \in todo[r] : Unrevoked(e) = {}
    /\ Done(r)
    /\ UNCHANGED tableVars

Duplicates(r) == {l \in InMemory(r) : view[r][l].status = "unassigned"}

\* Mutant: reset_to_unassigned forgets lms_user_id.
ActivateResetPartly(r) ==
    /\ pc[r] = "reset"
    /\ \E l \in Duplicates(r) :
         /\ licenses' = [licenses EXCEPT ![l].status = "unassigned",
                                         ![l].user_email = NoEmail]
         /\ view' = [view EXCEPT ![r][l] = AbsentRow]
    /\ UNCHANGED <<num_revocations_applied, pc, todo, plan_read>>

\* _clean_up_duplicate_licenses: reset_to_unassigned and save of one duplicate.
ActivateReset(r) ==
    /\ pc[r] = "reset"
    /\ \E l \in Duplicates(r) :
         /\ licenses' = [licenses EXCEPT ![l] = UnassignedRow]
         /\ view' = [view EXCEPT ![r][l] = AbsentRow]
    /\ UNCHANGED <<num_revocations_applied, pc, todo, plan_read>>

\* Only an assigned license is activated; an activated one is just returned.
ActivateReady(r) ==
    /\ pc[r] = "reset"
    /\ Duplicates(r) = {}
    /\ IF InMemory(r) = {} THEN Done(r) ELSE Goto(r, "clean") /\ UNCHANGED localVars
    /\ UNCHANGED tableVars

ActivationStep(r) ==
    \/ ActivateSelect(r)
    \/ ActivateGone(r)
    \/ ActivateReset(r)
    \/ ActivateReady(r)
    \/ FullClean(r)
    \/ SaveRow(r)

ActivationNext ==
    \E r \in Activators :
       \/ \E e \in Emails : ActivateLookup(r, e)
       \/ ActivationStep(r)
=============================================================================
