------------------------------- MODULE Freeze -------------------------------
(***************************************************************************)
(* delete_unused_licenses_post_freeze on a plan with                       *)
(* can_freeze_unused_licenses.  License has delete signals and relations,  *)
(* so unassigned_licenses.delete() first selects the unassigned licenses   *)
(* and then deletes the selected rows by primary key.  The plan, read at   *)
(* the start, is then saved with every field.                              *)
(***************************************************************************)
EXTENDS LicenseTable

FreezeCollect(r) ==
    /\ pc[r] = "idle"
    /\ view' = [view EXCEPT ![r] = RowsOf(Unassigned, licenses)]
    /\ plan_read' = [plan_read EXCEPT ![r] = num_revocations_applied]
    /\ Goto(r, "delete")
    /\ UNCHANGED <<tableVars, todo>>

FreezeDelete(r) ==
    /\ pc[r] = "delete"
    /\ licenses' = [l \in Licenses |->
                      IF l \in InMemory(r) THEN DeletedRow ELSE licenses[l]]
    /\ num_revocations_applied' = plan_read[r]
    /\ Done(r)

FreezeNext == \E r \in Freezers : FreezeCollect(r) \/ FreezeDelete(r)
=============================================================================
