----------------------------- MODULE Aftermath -----------------------------
(***************************************************************************)
(* What follows a committed assignment or revocation: LicenseAction rows   *)
(* (the audit trail), the revocation of course enrollments and the e-mail  *)
(* on a revocation cap that is reached.  Nothing of it is in the           *)
(* transaction, so that a request or a task that dies loses the rest.      *)
(*                                                                         *)
(* A call is one request with its correlation id; a task that is retried   *)
(* keeps it.                                                               *)
(***************************************************************************)
EXTENDS Naturals, FiniteSets

CONSTANTS
    Seats,          \* licenses
    People,         \* learners
    Nobody,         \* NULL
    Calls,          \* requests, each with a correlation id of its own
    Caps,           \* how many revocations a plan may allow: numbers or NoCap
    NoCap,          \* is_revocation_cap_enabled is false
    MaxTaskRetries, \* retry_kwargs of LoggedTaskWithRetry
    MaxBreaks       \* how many writes, messages and calls fail (bound)

ASSUME AftermathAssumption ==
    /\ Caps \union {NoCap, MaxTaskRetries, MaxBreaks} \subseteq Nat
    /\ Nobody \notin People

VARIABLES
    seat,         \* license -> status and learner
    activating,   \* licenses that a learner's request has read as assigned
    enrolled,     \* external: enrollments, as learner and license
    call,         \* request -> what it is doing
    actions,      \* LicenseAction rows: license -> request -> type -> how many
    unenroll,     \* messages of revoke_course_enrollments_for_user_task
    cap,          \* num_revocations_allowed
    left,         \* num_revocations_remaining
    capMails,     \* messages of send_revocation_cap_notification_email_task
    breaks        \* failures so far (bounded by MaxBreaks)

aftermathVars == <<seat, activating, enrolled, call, actions, unenroll, cap, left, capMails, breaks>>

CallIdle == [pc |-> "idle", kind |-> "none", todo |-> {}, cur |-> <<>>, changed |-> {},
             retries |-> 0, broken |-> FALSE]

AllocatedSeats == {s \in Seats : seat[s].status \in {"assigned", "activated"}}

AftermathInit ==
    /\ seat \in [Seats -> {[status |-> "unassigned", who |-> Nobody]}
                          \union [status : {"activated"}, who : People]]
    /\ \A u \in People : Cardinality({s \in Seats : seat[s].who = u}) <= 1
    /\ enrolled = {<<seat[s].who, s>> : s \in AllocatedSeats}
    /\ call = [r \in Calls |-> CallIdle]
    /\ actions = [s \in Seats |-> [r \in Calls |-> 0]]
    /\ activating = {} /\ unenroll = {} /\ cap \in Caps /\ left = cap /\ capMails = 0 /\ breaks = 0

Broke == breaks < MaxBreaks /\ breaks' = breaks + 1

-----------------------------------------------------------------------------
\* _assign: the licenses, and after the commit their rows, all or none; an error
\* is logged and the request goes on.
AssignCommitted(r, s, u) ==
    /\ call[r] = CallIdle /\ seat[s].status = "unassigned"
    /\ \A t \in AllocatedSeats : seat[t].who # u
    /\ seat' = [seat EXCEPT ![s] = [status |-> "assigned", who |-> u]]
    /\ call' = [call EXCEPT ![r] = [CallIdle EXCEPT !.pc = "assigned", !.kind = "assign",
                                                    !.changed = {s}]]
    /\ UNCHANGED <<activating, enrolled, actions, unenroll, cap, left, capMails, breaks>>

AssignAudited(r) ==
    /\ call[r].pc = "assigned"
    /\ \/ /\ actions' = [s \in Seats |-> [actions[s] EXCEPT ![r] =
                            IF s \in call[r].changed THEN @ + 1 ELSE @]]
          /\ call' = [call EXCEPT ![r].pc = "done"]
          /\ UNCHANGED breaks
       \/ /\ Broke
          /\ call' = [call EXCEPT ![r].pc = "done", ![r].broken = TRUE]
          /\ UNCHANGED actions
    /\ UNCHANGED <<seat, activating, enrolled, unenroll, cap, left, capMails>>

\* License.activate saves the instance that was read, even if the license was
\* revoked meanwhile, and the learner enrolls with it.
ActivationRead(s) ==
    /\ seat[s].status = "assigned"
    /\ activating' = activating \union {s}
    /\ UNCHANGED <<seat, enrolled, call, actions, unenroll, cap, left, capMails, breaks>>

ActivationSave(s) ==
    /\ s \in activating
    /\ activating' = activating \ {s}
    /\ seat' = [seat EXCEPT ![s].status = "activated"]
    /\ enrolled' = enrolled \union {<<seat[s].who, s>>}
    /\ UNCHANGED <<call, actions, unenroll, cap, left, capMails, breaks>>

-----------------------------------------------------------------------------
ActivatedOf(S) == {s \in S : seat[s].status = "activated"}

\* The commit of a transaction that revokes the licenses S; the results remember
\* which of them were activated.
Committed(r, S, kind) ==
    /\ seat' = [s \in Seats |-> IF s \in S THEN [seat[s] EXCEPT !.status = "revoked"] ELSE seat[s]]
    /\ left' = IF cap = NoCap THEN left ELSE left - Cardinality(ActivatedOf(S))
    /\ call' = [call EXCEPT ![r].pc = "post", ![r].kind = kind,
                            ![r].todo = {<<s, seat[s].status>> : s \in S},
                            ![r].changed = @ \union S]

\* bulk_revoke
BulkRevoke(r, S) ==
    /\ call[r] = CallIdle /\ S # {} /\ S \subseteq AllocatedSeats
    /\ cap # NoCap => Cardinality(S) <= left
    /\ Committed(r, S, "bulk")
    /\ UNCHANGED <<activating, enrolled, actions, unenroll, cap, capMails, breaks>>

\* revoke_all refuses a plan with a cap and sends its task.
RevokeAll(r) ==
    /\ call[r] = CallIdle /\ cap = NoCap
    /\ call' = [call EXCEPT ![r].pc = "task", ![r].kind = "all"]
    /\ UNCHANGED <<seat, activating, enrolled, actions, unenroll, cap, left, capMails, breaks>>

\* A retry begins again with the licenses that are revocable by then, and the
\* results that were left of the attempt before are gone.
Retried(r) ==
    IF call[r].retries < MaxTaskRetries
    THEN [call[r] EXCEPT !.pc = "task", !.todo = {}, !.retries = @ + 1,
                         !.broken = @ \/ call[r].todo # {}]
    ELSE [call[r] EXCEPT !.pc = "done", !.todo = {}, !.broken = TRUE]

\* revoke_all_licenses_task: all of the licenses or, after an error, none.
RevokeAllTask(r) ==
    /\ call[r].pc = "task"
    /\ \/ Committed(r, AllocatedSeats, "all") /\ UNCHANGED breaks
       \/ Broke /\ call' = [call EXCEPT ![r] = Retried(r)] /\ UNCHANGED <<seat, left>>
    /\ UNCHANGED <<activating, enrolled, actions, unenroll, cap, capMails>>

\* Mutant: rows are written without looking for one.
PostAuditUnguarded(r, x) ==
    /\ call[r].pc = "post" /\ x \in call[r].todo
    /\ actions' = [actions EXCEPT ![x[1]][r] = @ + 1]
    /\ call' = [call EXCEPT ![r].pc = "messages", ![r].cur = x]
    /\ UNCHANGED <<seat, activating, enrolled, unenroll, cap, left, capMails, breaks>>

\* execute_post_revocation_tasks: the row, unless there is one with this
\* correlation id, in which case the rest is left out.  An error is logged.
PostAudit(r, x) ==
    /\ call[r].pc = "post" /\ x \in call[r].todo
    /\ \/ /\ actions[x[1]][r] > 0
          /\ call' = [call EXCEPT ![r].todo = @ \ {x}]
          /\ UNCHANGED <<actions, breaks>>
       \/ /\ actions[x[1]][r] = 0
          /\ actions' = [actions EXCEPT ![x[1]][r] = @ + 1]
          /\ call' = [call EXCEPT ![r].pc = "messages", ![r].cur = x]
          /\ UNCHANGED breaks
       \/ /\ actions[x[1]][r] = 0 /\ Broke
          /\ call' = [call EXCEPT ![r].pc = "messages", ![r].cur = x, ![r].broken = TRUE]
          /\ UNCHANGED actions
    /\ UNCHANGED <<seat, activating, enrolled, unenroll, cap, left, capMails>>

\* Mutant: enrollments are revoked if the license is activated now.
UnenrollNow(x) == seat[x[1]].status = "activated"

\* Enrollments are revoked if the license was activated when it was revoked.
UnenrollDue(x) == x[2] = "activated"

\* Mutant: the cap counts as reached when it is exceeded.
CapExceeded == cap # NoCap /\ left < 0

\* Not has_revocations_remaining.
CapReached == cap # NoCap /\ left <= 0

\* The messages: the enrollments of the learner, and the cap.
PostMessages(r) ==
    /\ call[r].pc = "messages"
    /\ unenroll' = IF UnenrollDue(call[r].cur)
                   THEN unenroll \union {seat[call[r].cur[1]].who} ELSE unenroll
    /\ capMails' = IF CapReached /\ capMails < 2 THEN capMails + 1 ELSE capMails
    /\ call' = [call EXCEPT ![r].pc = "post", ![r].todo = @ \ {call[r].cur}, ![r].cur = <<>>]
    /\ UNCHANGED <<seat, activating, enrolled, actions, cap, left, breaks>>

\* The request fails or its worker dies: the task of revoke_all may be retried.
PostBreaks(r) ==
    /\ call[r].pc \in {"post", "messages"} /\ call[r].todo # {} /\ Broke
    /\ \/ call' = [call EXCEPT ![r].pc = "done", ![r].broken = TRUE]
       \/ call[r].kind = "all" /\ call' = [call EXCEPT ![r] = Retried(r)]
    /\ UNCHANGED <<seat, activating, enrolled, actions, unenroll, cap, left, capMails>>

PostEnd(r) ==
    /\ call[r].pc = "post" /\ call[r].todo = {}
    /\ call' = [call EXCEPT ![r].pc = "done"]
    /\ UNCHANGED <<seat, activating, enrolled, actions, unenroll, cap, left, capMails, breaks>>

\* revoke_course_enrollments_for_user_task: all enrollments that the learner has
\* with the customer by then; an error is logged and the task ends.
Unenroll(u) ==
    /\ u \in unenroll
    /\ unenroll' = unenroll \ {u}
    /\ \/ enrolled' = {e \in enrolled : e[1] # u} /\ UNCHANGED breaks
       \/ Broke /\ UNCHANGED enrolled
    /\ UNCHANGED <<seat, activating, call, actions, cap, left, capMails>>

CallStep(r) ==
    \/ AssignAudited(r) \/ RevokeAllTask(r) \/ PostMessages(r) \/ PostEnd(r) \/ PostBreaks(r)
    \/ \E x \in call[r].todo : PostAudit(r, x)

AftermathNext ==
    \/ \E r \in Calls : CallStep(r) \/ RevokeAll(r) \/ \E S \in SUBSET Seats : BulkRevoke(r, S)
    \/ \E r \in Calls, s \in Seats, u \in People : AssignCommitted(r, s, u)
    \/ \E s \in Seats : ActivationRead(s) \/ ActivationSave(s)
    \/ \E u \in People : Unenroll(u)

AftermathSpec == AftermathInit /\ [][AftermathNext]_aftermathVars

\* Requests and tasks go on, and messages are delivered.
AftermathProgress ==
    \/ \E r \in Calls : CallStep(r)
    \/ \E u \in People : Unenroll(u)

FairAftermathSpec == AftermathSpec /\ WF_aftermathVars(AftermathProgress)

-----------------------------------------------------------------------------
(***************************************************************************)
(* A request leaves at most one row for a license, even if its task is     *)
(* retried after an activation has brought the revoked license back, and   *)
(* exactly one for each license it changed if nothing failed.              *)
(***************************************************************************)
AuditTrail ==
    \A r \in Calls, s \in Seats :
       /\ actions[s][r] <= 1
       /\ call[r].pc = "done" /\ ~call[r].broken /\ s \in call[r].changed => actions[s][r] = 1

(***************************************************************************)
(* The enrollments of a learner whose activated license is revoked end,    *)
(* unless a call, a message or a worker was lost or the learner has        *)
(* activated the license again.                                            *)
(***************************************************************************)
EnrollmentsFollow ==
    \A s \in Seats :
       (<<seat[s].who, s>> \in enrolled /\ seat[s].status = "revoked")
         ~> (<<seat[s].who, s>> \notin enrolled \/ breaks > 0 \/ seat[s].status # "revoked")

(***************************************************************************)
(* When the last revocation of a plan is used, customer success is told.   *)
(***************************************************************************)
CapTold == (cap # NoCap /\ left = 0) ~> (capMails > 0 \/ breaks > 0)

(***************************************************************************)
(* What has to follow a revocation outside the transaction follows it: the *)
(* end of the enrollments and the message about a plan without             *)
(* revocations.                                                            *)
(***************************************************************************)
RevocationFollowed == EnrollmentsFollow /\ CapTold
=============================================================================
