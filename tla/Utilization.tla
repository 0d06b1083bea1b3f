---------------------------- MODULE Utilization ----------------------------
(***************************************************************************)
(* E-mails to admins on how far the licenses of a plan that auto-applies   *)
(* are used: one a week after auto-apply was turned on, scheduled by the   *)
(* command send_license_utilization_emails, and one for each threshold,    *)
(* scheduled by every auto-applied license.  A Notification row records    *)
(* that an e-mail was sent.                                                *)
(***************************************************************************)
EXTENDS Naturals, FiniteSets

CONSTANTS
    UTasks,       \* celery task executions
    MaxLicenses,  \* how many licenses the plan may have (bound)
    InitialAfter, \* DAYS_BEFORE_INITIAL_UTILIZATION_EMAIL_SENT
    MaxErrors,    \* how many calls fail (bound)
    MaxURetries,  \* max_retries of LoggedTaskWithRetry
    TasksOverlap  \* may two tasks of the plan run at the same time?

ASSUME UtilizationAssumption ==
    /\ {MaxLicenses, InitialAfter, MaxErrors, MaxURetries} \subseteq Nat
    /\ TasksOverlap \in BOOLEAN

VARIABLES
    num, allocated,  \* num_licenses and num_allocated_licenses
    on,              \* days since auto-apply was turned on, or Off
    notified,        \* the types of the Notification rows of the plan
    task,            \* task -> what it is doing
    mails,           \* external: type -> e-mails accepted by Braze (0, 1, 2 or more)
    errors           \* failures so far (bounded by MaxErrors)

utilizationVars == <<num, allocated, on, notified, task, mails, errors>>

Off == 99

Types == {"initial", "limited", "none_left"}

TaskIdle == [pc |-> "idle", kind |-> "none", type |-> "none", retries |-> 0]

UtilizationInit ==
    /\ num \in 1..MaxLicenses /\ allocated = 0 /\ on \in {0, Off}
    /\ notified = {} /\ errors = 0
    /\ task = [t \in UTasks |-> TaskIdle]
    /\ mails = [y \in Types |-> 0]

-----------------------------------------------------------------------------
\* highest_utilization_threshold_reached and the type of notification for it.
HighestThresholdReached ==
    IF num = 0 THEN "none"
    ELSE IF allocated >= num THEN "none_left"
    ELSE IF 4 * allocated >= 3 * num THEN "limited" ELSE "none"

\* Mutant: only the notifications for this threshold.
OnlyThis(y) == {y}

\* The notifications for this threshold and higher ones.
AtLeast(y) == CASE y = "none_left" -> {"none_left"} [] y = "limited" -> {"limited", "none_left"}

Schedule(kind) ==
    \E t \in UTasks :
      /\ task[t].pc = "idle"
      /\ task' = [task EXCEPT ![t] = [TaskIdle EXCEPT !.pc = "check", !.kind = kind]]

\* _auto_apply_new_license
AutoApplied ==
    /\ on # Off /\ allocated < num
    /\ allocated' = allocated + 1
    /\ Schedule("threshold")
    /\ UNCHANGED <<num, on, notified, mails, errors>>

\* Licenses are assigned and revoked without a word to the admins.
AllocationChanges ==
    /\ \/ allocated < num /\ allocated' = allocated + 1
       \/ allocated > 0 /\ allocated' = allocated - 1
    /\ UNCHANGED <<num, on, notified, task, mails, errors>>

Provisioned ==
    /\ num < MaxLicenses /\ num' = num + 1
    /\ UNCHANGED <<allocated, on, notified, task, mails, errors>>

Toggle ==
    /\ on' = IF on = Off THEN 0 ELSE Off
    /\ UNCHANGED <<num, allocated, notified, task, mails, errors>>

\* A day passes, and the command schedules the first e-mail every day.
UtilizationCommand ==
    /\ on # Off
    /\ on' = IF on < InitialAfter THEN on + 1 ELSE on
    /\ Schedule("initial")
    /\ UNCHANGED <<num, allocated, notified, mails, errors>>

-----------------------------------------------------------------------------
\* Mutant: the Notification rows are not looked for.
TypeToSendAgain(kind) == IF kind = "initial" THEN "initial" ELSE HighestThresholdReached

\* Whether there is something to send, and of what type; a task for a plan whose
\* auto-apply was turned off fails on the missing date.
TypeToSend(kind) ==
    IF kind = "initial"
    THEN IF "initial" \in notified \/ on = Off \/ on < InitialAfter THEN "none" ELSE "initial"
    ELSE IF \/ HighestThresholdReached = "none"
            \/ AtLeast(HighestThresholdReached) \cap notified # {}
         THEN "none" ELSE HighestThresholdReached

Running(t) == task[t].pc = "send"

\* send_initial_utilization_email_task and
\* send_utilization_threshold_reached_email_task up to the transaction.
TaskCheck(t) ==
    /\ task[t].pc = "check"
    /\ TasksOverlap \/ \A s \in UTasks : ~Running(s)
    /\ LET y == TypeToSend(task[t].kind) IN
         task' = [task EXCEPT ![t] = IF y = "none" THEN TaskIdle
                                     ELSE [@ EXCEPT !.pc = "send", !.type = y]]
    /\ UNCHANGED <<num, allocated, on, notified, mails, errors>>

Mailed(y) == mails' = [mails EXCEPT ![y] = IF @ < 2 THEN @ + 1 ELSE @]

\* Mutant: the rows are saved outside of the transaction.
TaskSendUnprotected(t) ==
    /\ task[t].pc = "send"
    /\ notified' = notified \union {task[t].type}
    /\ \/ /\ Mailed(task[t].type) /\ task' = [task EXCEPT ![t] = TaskIdle] /\ UNCHANGED errors
       \/ /\ errors < MaxErrors /\ errors' = errors + 1
          /\ UNCHANGED mails
          /\ task' = [task EXCEPT ![t] = TaskIdle]
    /\ UNCHANGED <<num, allocated, on>>

\* The transaction: rows for all admins and the e-mail to them, or neither; an
\* error after the e-mail was accepted takes back the rows only.  The exceptions
\* of Braze and of the network are retried, others are not.
TaskSend(t) ==
    /\ task[t].pc = "send"
    /\ \/ /\ Mailed(task[t].type)
          /\ notified' = notified \union {task[t].type}
          /\ task' = [task EXCEPT ![t] = TaskIdle]
          /\ UNCHANGED errors
       \/ /\ errors < MaxErrors /\ errors' = errors + 1
          /\ UNCHANGED notified
          /\ Mailed(task[t].type) \/ UNCHANGED mails
          /\ \/ task' = [task EXCEPT ![t] = TaskIdle]
             \/ /\ task[t].retries < MaxURetries
                /\ task' = [task EXCEPT ![t].pc = "check", ![t].retries = @ + 1]
    /\ UNCHANGED <<num, allocated, on>>

UtilizationNext ==
    \/ AutoApplied \/ AllocationChanges \/ Provisioned \/ Toggle \/ UtilizationCommand
    \/ \E t \in UTasks : TaskCheck(t) \/ TaskSend(t)

UtilizationSpec == UtilizationInit /\ [][UtilizationNext]_utilizationVars

-----------------------------------------------------------------------------
(***************************************************************************)
(* While tasks of a plan do not overlap and no call fails, admins get each *)
(* kind of e-mail at most once, however licenses come and go.              *)
(***************************************************************************)
NotifiedOnce == ~TasksOverlap /\ errors = 0 => \A y \in Types : mails[y] <= 1

(***************************************************************************)
(* A Notification row means that the e-mail was accepted, whatever failed  *)
(* in between.                                                             *)
(***************************************************************************)
RecordedMeansSent == \A y \in notified : mails[y] >= 1

(***************************************************************************)
(* Once admins were told that no license is left they are not told later   *)
(* that few are.                                                           *)
(***************************************************************************)
NoLesserAlarm ==
    [][~TasksOverlap /\ "none_left" \in notified => mails'["limited"] = mails["limited"]]_utilizationVars

(***************************************************************************)
(* What the Notification table says of the e-mails about a plan is so: one *)
(* row, one e-mail, and none that an earlier one has overtaken.            *)
(***************************************************************************)
AlarmsSound == []NotifiedOnce /\ []RecordedMeansSent /\ NoLesserAlarm
=============================================================================
