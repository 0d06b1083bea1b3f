------------------------------ MODULE AutoApply ------------------------------
(***************************************************************************)
(* POST /customer-agreement/{uuid}/auto-apply/ on the plan that auto-      *)
(* applies.  It takes no lock and no transaction: the checks, the choice   *)
(* of a license, the query of License.clean and the UPDATE are statements  *)
(* of their own.                                                           *)
(***************************************************************************)
EXTENDS LicenseTable

\* _check_subscription_licenses lets the request proceed.
AutoApplyCheck(r, e) ==
    /\ pc[r] = "idle"
    /\ RevokedFrom(e) = {}
    /\ AllocatedTo(e) = {}
    /\ Unassigned # {}
    /\ todo' = [todo EXCEPT ![r] = {e}]
    /\ Goto(r, "choose")
    /\ UNCHANGED <<tableVars, view, plan_read>>

\* unassigned_licenses.first(), and the fields set on it in memory.
AutoApplyPick(r) ==
    /\ pc[r] = "choose"
    /\ \E e \in todo[r], l \in Unassigned :
         view' = [view EXCEPT ![r] = RowsOf({l}, [m \in {l} |-> ActivatedRow(e)])]
    /\ Goto(r, "clean")
    /\ UNCHANGED <<tableVars, todo, plan_read>>

\* first() returned None: the others took the last license meanwhile.
AutoApplyNone(r) ==
    /\ pc[r] = "choose"
    /\ Unassigned = {}
    /\ Done(r)
    /\ UNCHANGED tableVars

AutoApplyNext ==
    \E r \in AutoAppliers :
       \/ \E e \in Emails : AutoApplyCheck(r, e)
       \/ AutoApplyPick(r)
       \/ AutoApplyNone(r)
       \/ FullClean(r)
       \/ SaveRow(r)
=============================================================================
