---------------------------- MODULE LicenseTable ----------------------------
(***************************************************************************)
(* The rows of one SubscriptionPlan and of its Licenses, as the database   *)
(* holds them, and the local state of the requests that work on them.      *)
(*                                                                         *)
(* A request is a sequence of SQL statements.  Outside transaction.atomic  *)
(* each statement commits by itself; inside, other requests see the writes *)
(* only at the commit (READ COMMITTED).  So a request is modelled as the   *)
(* steps between which another request can commit: what it read is kept in *)
(* its local variables and may be stale when it writes.                    *)
(***************************************************************************)
EXTENDS Naturals, FiniteSets

CONSTANTS
    Licenses,       \* the license uuids that can ever exist (bound)
    Provisioned,    \* the licenses that exist at the start, all unassigned
    Emails,         \* learners; the lms_user_id is the learner's too
    NoEmail,        \* NULL in user_email and in lms_user_id
    Assigners,      \* requests to /licenses/assign/
    AutoAppliers,   \* requests to /customer-agreement/../auto-apply/
    Activators,     \* requests to /license-activation/
    Revokers,       \* requests to bulk-revoke, and revoke_all_licenses_task
    Freezers        \* runs of the freeze action

Requests == Assigners \union AutoAppliers \union Activators
              \union Revokers \union Freezers

ASSUME TableAssumption ==
    /\ IsFiniteSet(Licenses) /\ Provisioned \subseteq Licenses
    /\ IsFiniteSet(Emails) /\ NoEmail \notin Emails

(***************************************************************************)
(* A request is of one kind.                                               *)
(***************************************************************************)
ASSUME KindsDisjoint ==
    /\ Assigners \intersect (AutoAppliers \union Activators
                                \union Revokers \union Freezers) = {}
    /\ AutoAppliers \intersect (Activators \union Revokers \union Freezers) = {}
    /\ Activators \intersect (Revokers \union Freezers) = {}
    /\ Revokers \intersect Freezers = {}

VARIABLES
    licenses,                 \* the License table: Licenses -> Row
    num_revocations_applied,  \* the field of the plan's row
    pc,                       \* where each request is
    todo,                     \* the e-mails a request still works for
    view,                     \* the rows a request has in memory, to be saved
    plan_read                 \* num_revocations_applied as a request holds it

tableVars == <<licenses, num_revocations_applied>>
localVars == <<todo, view, plan_read>>

\* "absent": not created yet; "deleted": its row is gone for good.
Status == {"absent", "deleted", "unassigned", "assigned", "activated", "revoked"}

Row == [status : Status,
        user_email : Emails \union {NoEmail},
        lms_user_id : Emails \union {NoEmail}]

AbsentRow ==
    [status |-> "absent", user_email |-> NoEmail, lms_user_id |-> NoEmail]

DeletedRow ==
    [status |-> "deleted", user_email |-> NoEmail, lms_user_id |-> NoEmail]

\* A request has no row in memory; a license it did not read is "absent".
NoRows == [l \in Licenses |-> AbsentRow]

InMemory(r) == {l \in Licenses : view[r][l].status # "absent"}

\* The rows of the licenses in L, and no other.
RowsOf(L, rows) == [l \in Licenses |-> IF l \in L THEN rows[l] ELSE AbsentRow]

\* A new License, and what reset_to_unassigned leaves of an old one.
UnassignedRow ==
    [status |-> "unassigned", user_email |-> NoEmail, lms_user_id |-> NoEmail]

\* The fields that an assignment writes; lms_user_id is not one of them.
AssignedRow(e) ==
    [status |-> "assigned", user_email |-> e, lms_user_id |-> NoEmail]

\* License.activate, and the row that auto-apply saves.
ActivatedRow(e) ==
    [status |-> "activated", user_email |-> e, lms_user_id |-> e]

\* License.revoke saves the row as it is in memory, but for the status.
RevokedRow(row) == [status |-> "revoked", user_email |-> row.user_email,
                    lms_user_id |-> row.lms_user_id]

\* An UPDATE that does not name lms_user_id.
KeepLmsUser(row, old) == [status |-> row.status, user_email |-> row.user_email,
                          lms_user_id |-> old.lms_user_id]

\* Mutant: unassigned_licenses as every license that is not allocated.
NotAllocatedLicenses ==
    {l \in Licenses : licenses[l].status \in {"unassigned", "revoked"}}

\* Mutant: unassigned_licenses as every license that is not activated.
NotActivatedLicenses ==
    {l \in Licenses : licenses[l].status \in {"unassigned", "assigned"}}

Unassigned == {l \in Licenses : licenses[l].status = "unassigned"}

\* ASSIGNED or ACTIVATED, which are also the revocable statuses.
Allocated(l) == licenses[l].status \in {"assigned", "activated"}

\* Mutant: the filter on the status forgets ASSIGNED.
ActivatedTo(e) ==
    {l \in Licenses : licenses[l].status = "activated" /\ licenses[l].user_email = e}

AllocatedTo(e) == {l \in Licenses : Allocated(l) /\ licenses[l].user_email = e}

RevokedFrom(e) ==
    {l \in Licenses : licenses[l].status = "revoked" /\ licenses[l].user_email = e}

\* SubscriptionPlan.num_licenses: every license but the revoked ones.
NumLicenses ==
    Cardinality({l \in Licenses :
                   licenses[l].status \in {"unassigned", "assigned", "activated"}})

\* The licenses that have a row.
Stored == {l \in Licenses : licenses[l].status \notin {"absent", "deleted"}}

\* The query of License.clean for a row about to be saved as assigned or
\* activated: no other license of the plan is allocated to the same e-mail.
CleanPasses(l, e) == AllocatedTo(e) \ {l} = {}

\* The License table after some rows are saved over it.
Saved(rows) ==
    [l \in Licenses |-> IF rows[l].status # "absent" THEN rows[l] ELSE licenses[l]]

\* Mutant: no license is created in place of a revoked one.
NoFreshLicenses(n) == {{}}

\* increase_num_licenses: the rows of n fresh, unassigned licenses.
FreshLicenses(n) ==
    {N \in SUBSET {l \in Licenses : licenses[l].status = "absent"} : Cardinality(N) = n}

InitTable ==
    /\ licenses = [l \in Licenses |-> IF l \in Provisioned THEN UnassignedRow ELSE AbsentRow]
    /\ num_revocations_applied = 0
    /\ pc = [r \in Requests |-> "idle"]
    /\ todo = [r \in Requests |-> {}]
    /\ view = [r \in Requests |-> NoRows]
    /\ plan_read = [r \in Requests |-> 0]

\* A request moves on; Done forgets what it held in memory.
Goto(r, label) == pc' = [pc EXCEPT ![r] = label]

Done(r) ==
    /\ Goto(r, "idle")
    /\ todo' = [todo EXCEPT ![r] = {}]
    /\ view' = [view EXCEPT ![r] = NoRows]
    /\ plan_read' = [plan_read EXCEPT ![r] = 0]

\* License.save is two statements: the query of full_clean and the UPDATE of
\* every field (an INSERT when the row is gone).  A ValidationError ends the
\* request.
FullClean(r) ==
    /\ pc[r] = "clean"
    /\ \/ /\ \A l \in InMemory(r) : CleanPasses(l, view[r][l].user_email)
          /\ Goto(r, "save")
          /\ UNCHANGED localVars
       \/ /\ \E l \in InMemory(r) : ~CleanPasses(l, view[r][l].user_email)
          /\ Done(r)
    /\ UNCHANGED tableVars

SaveRow(r) ==
    /\ pc[r] = "save"
    /\ licenses' = Saved(view[r])
    /\ Done(r)
    /\ UNCHANGED num_revocations_applied

TableTypeOK ==
    /\ licenses \in [Licenses -> Row]
    /\ num_revocations_applied \in Nat
    /\ todo \in [Requests -> SUBSET Emails]
    /\ view \in [Requests -> [Licenses -> Row]]
    /\ plan_read \in [Requests -> Nat]
=============================================================================
