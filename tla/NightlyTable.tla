---------------------------- MODULE NightlyTable ----------------------------
(***************************************************************************)
(* What the nightly commands share: the plans of one customer with their   *)
(* expiration dates and renewals, their licenses with dates, personal data *)
(* and history, and the requests of learners and admins between them.      *)
(*                                                                         *)
(* Time is counted in days and stops counting at MaxDay, which stands for  *)
(* any later day: the commands keep running.                               *)
(***************************************************************************)
EXTENDS Naturals, FiniteSets

CONSTANTS
    Pks,          \* primary keys of licenses: natural numbers, for their order
    Learners,
    Plans,
    None,         \* NULL
    PlanOf,       \* license -> its plan
    Expires,      \* plan -> the day of its expiration_date
    RenewalOf,    \* plan -> the plan it is renewed into, or None
    RenewedTo,    \* license -> License.renewed_to, or None
    MaxDay,       \* the last day that is told apart (bound)
    MaxCalls      \* how many requests of learners and admins there are (bound)

ASSUME NightlyAssumption ==
    /\ Pks \subseteq Nat \ {0} /\ IsFiniteSet(Pks) /\ MaxDay \in Nat /\ MaxCalls \in Nat
    /\ PlanOf \in [Pks -> Plans]
    /\ Expires \in [Plans -> 0..(MaxDay - 1)]
    /\ None \notin Plans \union Learners \union Pks
    /\ RenewalOf \in [Plans -> Plans \union {None}]
    /\ RenewedTo \in [Pks -> Pks \union {None}]

VARIABLES
    day,          \* the number of nights
    ran,          \* the commands that ran today
    rows,         \* the License table
    history,      \* license -> the e-mails in its historical records
    source,       \* the licenses with a SubscriptionLicenseSource
    linked,       \* external: the learners linked to the enterprise
    calls         \* requests so far (bounded by MaxCalls)

tableVars == <<rows, history, source, linked, calls>>

LicenseRow == [status : {"unassigned", "assigned", "activated", "revoked"},
               user_email : Learners \union {None},
               lms_user_id : Learners \union {None},
               assigned_date : 0..MaxDay,
               revoked_date : 0..MaxDay]

Blank == [status |-> "unassigned", user_email |-> None, lms_user_id |-> None,
          assigned_date |-> 0, revoked_date |-> 0]

Allocated(k) == rows[k].status \in {"assigned", "activated"}

\* is_active and start_date are the same for all plans.
Current(p) == day <= Expires[p]

\* A command has days - or more - passed since a date?
Older(date, days) == date + days < day

Commands == {"expire", "unlink", "retire"}

TableInit ==
    /\ day = 0
    /\ ran = {}
    /\ rows = [k \in Pks |-> Blank]
    /\ history = [k \in Pks |-> {}]
    /\ source = {}
    /\ linked = {}
    /\ calls = 0

-----------------------------------------------------------------------------
Call == calls < MaxCalls /\ calls' = calls + 1

\* assign: the plan need not be current.  A learner is linked to the enterprise
\* by link_learners_to_enterprise_task, and the source is saved with the license.
Assigned(k, u) ==
    /\ Call
    /\ rows[k].status = "unassigned"
    /\ \A j \in Pks : PlanOf[j] = PlanOf[k] /\ Allocated(j) => rows[j].user_email # u
    /\ rows' = [rows EXCEPT ![k] = [Blank EXCEPT !.status = "assigned", !.user_email = u,
                                                 !.assigned_date = day]]
    /\ history' = [history EXCEPT ![k] = @ \union {u}]
    /\ source' = source \union {k}
    /\ linked' = linked \union {u}
    /\ UNCHANGED <<day, ran>>

\* The learner activates a license of a current plan.
Activated(k) ==
    /\ Call
    /\ rows[k].status = "assigned" /\ rows[k].user_email # None /\ Current(PlanOf[k])
    /\ rows' = [rows EXCEPT ![k].status = "activated", ![k].lms_user_id = rows[k].user_email]
    /\ UNCHANGED <<day, ran, history, source, linked>>

\* License.revoke
Revoked(k) ==
    /\ Call
    /\ Allocated(k)
    /\ rows' = [rows EXCEPT ![k].status = "revoked", ![k].revoked_date = day]
    /\ UNCHANGED <<day, ran, history, source, linked>>

\* The next day, once every command has run.
NextDay ==
    /\ ran = Commands
    /\ ran' = {}
    /\ day' = IF day < MaxDay THEN day + 1 ELSE day
    /\ UNCHANGED tableVars

TableTypeOK ==
    /\ day \in 0..MaxDay
    /\ ran \subseteq Commands
    /\ rows \in [Pks -> LicenseRow]
    /\ history \in [Pks -> SUBSET Learners]
    /\ source \subseteq Pks
    /\ linked \subseteq Learners
    /\ calls \in 0..MaxCalls
=============================================================================
