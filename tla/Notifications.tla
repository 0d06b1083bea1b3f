--------------------------- MODULE Notifications ---------------------------
(***************************************************************************)
(* The celery tasks that follow an assignment, an activation, an auto-     *)
(* applied license and a reminder: linking learners to the customer,       *)
(* creating their Braze aliases and sending them e-mails, with the retries *)
(* of LoggedTaskWithRetry.                                                 *)
(*                                                                         *)
(* A request stands for one chunk of at most 50 learners.                  *)
(***************************************************************************)
EXTENDS Naturals, FiniteSets

CONSTANTS
    Staff,          \* learners of the plan
    Jobs,           \* celery messages
    MaxJobRetries,  \* retry_kwargs of LoggedTaskWithRetry
    MaxJobFaults,   \* how many calls fail (bound)
    MaxRequests     \* how many requests are made (bound)

ASSUME NotificationsAssumption == {MaxJobRetries, MaxJobFaults, MaxRequests} \subseteq Nat

VARIABLES
    held,         \* learner -> the status of the learner's license, or "none"
    optedOut,     \* disable_onboarding_notifications of the agreement
    job,          \* message -> its task, or JobFree
    linked,       \* external: learners linked to the customer
    aliased,      \* external: learners with a Braze alias
    told,         \* external: e-mails accepted by Braze
    reminded,     \* learners whose last_remind_date is that of a reminder
    jobFaults,    \* failures so far (bounded by MaxJobFaults)
    requests      \* requests so far (bounded by MaxRequests)

notificationVars ==
    <<held, optedOut, job, linked, aliased, told, reminded, jobFaults, requests>>

JobFree == [kind |-> "none", to |-> {}, pending |-> {}, pc |-> "idle", notify |-> FALSE, retries |-> 0]

NewJob(kind, to, notify) ==
    [JobFree EXCEPT !.kind = kind, !.to = to, !.pc = "start", !.notify = notify]

NotificationsInit ==
    /\ held = [u \in Staff |-> "none"] /\ optedOut \in BOOLEAN
    /\ job = [j \in Jobs |-> JobFree]
    /\ linked = {} /\ aliased = {} /\ told = {} /\ reminded = {}
    /\ jobFaults = 0 /\ requests = 0

-----------------------------------------------------------------------------
\* Requests.  Each changes licenses first and sends its messages afterwards.
Requested == requests < MaxRequests /\ requests' = requests + 1

Sent(kind, to, notify) ==
    \E j \in Jobs : job[j] = JobFree /\ job' = [job EXCEPT ![j] = NewJob(kind, to, notify)]

SentUnless(out, kind, to) == IF out THEN UNCHANGED job ELSE Sent(kind, to, FALSE)

\* _assign and _link_and_notify_assigned_emails
AssignAndLink(S, notify) ==
    /\ Requested
    /\ S # {} /\ \A u \in S : held[u] \in {"none", "revoked"}
    /\ held' = [u \in Staff |-> IF u \in S THEN "assigned" ELSE held[u]]
    /\ Sent("link", S, notify /\ ~optedOut)
    /\ reminded' = reminded \ S
    /\ UNCHANGED <<optedOut, linked, aliased, told, jobFaults>>

\* LicenseActivationView.post and _track_and_notify
ActivateAndNotify(u) ==
    /\ Requested /\ held[u] = "assigned"
    /\ held' = [held EXCEPT ![u] = "activated"]
    /\ SentUnless(optedOut, "activation", {u})
    /\ UNCHANGED <<optedOut, linked, aliased, told, reminded, jobFaults>>

\* auto_apply sends its e-mail whether or not there was a license to apply.
AutoApplyAndNotify(u) ==
    /\ Requested /\ held[u] = "none"
    /\ \E found \in BOOLEAN :
         held' = [held EXCEPT ![u] = IF found THEN "activated" ELSE @]
    /\ Sent("auto", {u}, FALSE)
    /\ UNCHANGED <<optedOut, linked, aliased, told, reminded, jobFaults>>

\* remind, for learners who must all have a license that waits for activation,
\* and remind_all, for all of them.
Remind(S) ==
    /\ Requested
    /\ S # {} /\ \A u \in S : held[u] = "assigned"
    /\ Sent("remind", S, FALSE)
    /\ UNCHANGED <<held, optedOut, linked, aliased, told, reminded, jobFaults>>

RevokeHeld(u) ==
    /\ Requested /\ held[u] \in {"assigned", "activated"}
    /\ held' = [held EXCEPT ![u] = "revoked"]
    /\ UNCHANGED <<optedOut, job, linked, aliased, told, reminded, jobFaults>>

-----------------------------------------------------------------------------
\* Mutant: the first failure is the last.
FailedOnce(j) ==
    /\ jobFaults < MaxJobFaults /\ jobFaults' = jobFaults + 1
    /\ job' = [job EXCEPT ![j] = JobFree]

\* A task that fails starts again, up to max_retries times.
Failed(j) ==
    /\ jobFaults < MaxJobFaults /\ jobFaults' = jobFaults + 1
    /\ job' = [job EXCEPT ![j] =
                 IF @.retries = MaxJobRetries THEN JobFree
                 ELSE [NewJob(@.kind, @.to, @.notify) EXCEPT !.retries = job[j].retries + 1]]

\* The e-mail on an auto-applied license is given up when the customer's data
\* cannot be read or Braze refuses it.
Swallowed(j) ==
    /\ job[j].kind = "auto"
    /\ jobFaults < MaxJobFaults /\ jobFaults' = jobFaults + 1
    /\ job' = [job EXCEPT ![j] = JobFree]

Done(j) == job' = [job EXCEPT ![j] = JobFree]

\* Mutant: the e-mail is linked to the failure of the task as well.
LinkLearnersEager(j) ==
    /\ job[j].kind = "link" /\ job[j].pc = "start"
    /\ \/ linked' = linked \union job[j].to
       \/ UNCHANGED linked
    /\ job' = [job EXCEPT ![j] = IF job[j].notify THEN NewJob("assigned", job[j].to, FALSE) ELSE JobFree]
    /\ UNCHANGED <<held, optedOut, aliased, told, reminded, jobFaults, requests>>

\* link_learners_to_enterprise_task.  Both tasks linked to its success are sent
\* by it, and nothing orders the two.
LinkLearners(j) ==
    /\ job[j].kind = "link" /\ job[j].pc = "start"
    /\ \/ /\ ~job[j].notify
          /\ linked' = linked \union job[j].to
          /\ Done(j) /\ UNCHANGED jobFaults
       \/ /\ job[j].notify
          /\ linked' = linked \union job[j].to
          /\ \E i \in Jobs \ {j} :
               /\ job[i] = JobFree
               /\ job' = [job EXCEPT ![j] = NewJob("alias", job[j].to, FALSE),
                                     ![i] = NewJob("assigned", job[j].to, FALSE)]
          /\ UNCHANGED jobFaults
       \/ Failed(j) /\ UNCHANGED linked
       \/ Failed(j) /\ linked' = linked \union job[j].to
    /\ UNCHANGED <<held, optedOut, aliased, told, reminded, requests>>

\* create_braze_aliases_task
CreateAliases(j) ==
    /\ job[j].kind = "alias" /\ job[j].pc = "start"
    /\ \/ aliased' = aliased \union job[j].to /\ Done(j) /\ UNCHANGED jobFaults
       \/ Failed(j) /\ UNCHANGED aliased
    /\ UNCHANGED <<held, optedOut, linked, told, reminded, requests>>

\* _batch_notify_or_remind_assigned_emails up to the recipients: who still waits
\* for activation, and the data of the customer.
ReadPending(j) ==
    /\ job[j].kind \in {"assigned", "remind"} /\ job[j].pc = "start"
    /\ \/ LET pending == {u \in job[j].to : held[u] = "assigned"} IN
          /\ IF pending = {} THEN Done(j)
             ELSE job' = [job EXCEPT ![j].pc = "send", ![j].pending = pending]
          /\ UNCHANGED jobFaults
       \/ Failed(j)
    /\ UNCHANGED <<held, optedOut, linked, aliased, told, reminded, requests>>

\* send_post_activation_email_task, send_auto_applied_license_email_task: the
\* data of the customer.
ReadCustomer(j) ==
    /\ job[j].kind \in {"activation", "auto"} /\ job[j].pc = "start"
    /\ \/ /\ job' = [job EXCEPT ![j].pc = "send", ![j].pending = job[j].to]
          /\ UNCHANGED jobFaults
       \/ Failed(j) /\ job[j].kind = "activation"
       \/ Swallowed(j)
    /\ UNCHANGED <<held, optedOut, linked, aliased, told, reminded, requests>>

\* Mutant: the e-mail relies on the aliases task.
SendMailOnly(j) ==
    /\ job[j].pc = "send"
    /\ told' = told \union ({job[j].kind} \X job[j].pending)
    /\ IF job[j].kind = "remind" THEN job' = [job EXCEPT ![j].pc = "mark"] ELSE Done(j)
    /\ UNCHANGED <<held, optedOut, linked, aliased, reminded, jobFaults, requests>>

\* create_braze_alias_for_emails and send_campaign_message: either may fail, and
\* the e-mail may have been accepted when its answer is lost.
SendMail(j) ==
    /\ job[j].pc = "send"
    /\ \/ UNCHANGED aliased /\ UNCHANGED told /\ (Failed(j) \/ Swallowed(j))
       \/ /\ aliased' = aliased \union job[j].pending
          /\ \/ UNCHANGED told /\ (Failed(j) \/ Swallowed(j))
             \/ /\ told' = told \union ({job[j].kind} \X job[j].pending)
                /\ \/ Failed(j) \/ Swallowed(j)
                   \/ /\ IF job[j].kind = "remind" THEN job' = [job EXCEPT ![j].pc = "mark"] ELSE Done(j)
                      /\ UNCHANGED jobFaults
    /\ UNCHANGED <<held, optedOut, linked, reminded, requests>>

\* Mutant: all learners of the request are marked before the e-mail is sent.
MarkRemindedFirst(j) ==
    /\ job[j].kind = "remind" /\ job[j].pc \in {"start", "mark"}
    /\ reminded' = reminded \union job[j].to
    /\ IF job[j].pc = "mark" THEN Done(j)
       ELSE job' = [job EXCEPT ![j].pc = "send", ![j].pending = job[j].to]
    /\ UNCHANGED <<held, optedOut, linked, aliased, told, jobFaults, requests>>

\* set_date_fields_to_now
MarkReminded(j) ==
    /\ job[j].kind = "remind" /\ job[j].pc = "mark"
    /\ \/ reminded' = reminded \union job[j].pending /\ Done(j) /\ UNCHANGED jobFaults
       \/ Failed(j) /\ UNCHANGED reminded
    /\ UNCHANGED <<held, optedOut, linked, aliased, told, requests>>

RunJob(j) ==
    \/ LinkLearners(j) \/ CreateAliases(j) \/ ReadPending(j) \/ ReadCustomer(j)
    \/ SendMail(j) \/ MarkReminded(j)

NotificationsNext ==
    \/ \E S \in SUBSET Staff : Remind(S) \/ \E notify \in BOOLEAN : AssignAndLink(S, notify)
    \/ \E u \in Staff : ActivateAndNotify(u) \/ AutoApplyAndNotify(u) \/ RevokeHeld(u)
    \/ \E j \in Jobs : RunJob(j)

NotificationsSpec == NotificationsInit /\ [][NotificationsNext]_notificationVars

\* Every message is delivered to a worker, and a worker goes on with its task.
NotificationsProgress == \E j \in Jobs : RunJob(j)

FairNotificationsSpec == NotificationsSpec /\ WF_notificationVars(NotificationsProgress)

-----------------------------------------------------------------------------
(***************************************************************************)
(* Nobody is written to without a Braze alias, although the task that      *)
(* creates the aliases may run after the one that sends the e-mail.        *)
(***************************************************************************)
MailNeedsAlias == \A m \in told : m[2] \in aliased

(***************************************************************************)
(* The invitation to activate a license reaches only learners who are      *)
(* linked to the customer, whatever fails and is retried.                  *)
(***************************************************************************)
InvitedAreLinked == \A m \in told : m[1] = "assigned" => m[2] \in linked

(***************************************************************************)
(* last_remind_date says that a reminder was sent, also when the task      *)
(* fails between the steps and starts again.                               *)
(***************************************************************************)
RemindedMeansMailed == \A u \in reminded : <<"remind", u>> \in told

(***************************************************************************)
(* A learner who is assigned a license and is to be notified gets the      *)
(* e-mail, or the license changes before it is sent, as long as no more    *)
(* calls fail than a task may retry.                                       *)
(***************************************************************************)
AssignedEventuallyTold ==
    \A u \in Staff :
       (\E j \in Jobs : job[j].kind = "link" /\ job[j].notify /\ u \in job[j].to)
         ~> <<"assigned", u>> \in told \/ held[u] # "assigned" \/ jobFaults > MaxJobRetries

(***************************************************************************)
(* The tasks behind a request, which celery runs in any order and retries, *)
(* keep the order between an alias, a link, an e-mail and its date.        *)
(***************************************************************************)
MailsInOrder == MailNeedsAlias /\ InvitedAreLinked /\ RemindedMeansMailed
=============================================================================
