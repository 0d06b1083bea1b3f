----------------------------- MODULE Reminders -----------------------------
(***************************************************************************)
(* The commands send_license_expiration_reminders ("reminder", some days   *)
(* before a plan expires) and send_subscription_plan_expiration_emails     *)
(* ("expired", in the days after it), which send e-mails through Braze in  *)
(* batches and mark the licenses they sent for.                            *)
(*                                                                         *)
(* Days stop counting at MaxDay.  The two commands run side by side; each  *)
(* is started at least once a day and not while it is running.             *)
(***************************************************************************)
EXTENDS Naturals, FiniteSets

CONSTANTS
    Pks,          \* primary keys of licenses: natural numbers, for their order
    Learners,
    None,         \* NULL
    PlanExpires,  \* license -> the day its plan expires
    MailBatchSize, \* --batch-size
    DaysBefore,   \* --days-before-expiration
    DaysSince,    \* --days-since-expiration
    MaxDay,       \* the last day that is told apart (bound)
    MaxChanges,   \* how many requests change licenses (bound)
    MaxLost       \* how many changes to Braze or to the database fail (bound)

ASSUME RemindersAssumption ==
    /\ Pks \subseteq Nat \ {0} /\ IsFiniteSet(Pks)
    /\ {MailBatchSize, DaysSince} \subseteq Nat \ {0}
    /\ {DaysBefore, MaxDay, MaxChanges, MaxLost} \subseteq Nat
    /\ None \notin Learners
    /\ PlanExpires \in [Pks -> 0..(MaxDay - 1)]

VARIABLES
    today,        \* the day
    ranToday,     \* the commands that were started today
    mailRows,     \* the License table
    mailer,       \* command -> what it is doing
    got,          \* external: the e-mails accepted by Braze
    twice,        \* external: the e-mails accepted more than once
    lost,         \* failures so far (bounded by MaxLost)
    changes       \* requests so far (bounded by MaxChanges)

reminderVars == <<today, ranToday, mailRows, mailer, got, twice, lost, changes>>

Kinds == {"reminder", "expired"}

\* sent: which of expiration_reminder_sent_date and
\* subscription_plan_expiration_email_sent_date are not NULL.
MailRow == [status : {"unassigned", "assigned", "activated", "revoked"},
            user_email : Learners \union {None},
            sent : SUBSET Kinds]

UnassignedRow == [status |-> "unassigned", user_email |-> None, sent |-> {}]

Mails == Kinds \X Pks \X Learners

MailerIdle == [pc |-> "idle", due |-> {}, after |-> 0, batch |-> <<>>, failed |-> FALSE]

RemindersInit ==
    /\ today = 0 /\ ranToday = {} /\ got = {} /\ twice = {} /\ lost = 0 /\ changes = 0
    /\ mailRows \in [Pks -> {UnassignedRow}
                         \union [status : {"activated"}, user_email : Learners, sent : {{}}]]
    /\ mailer = [c \in Kinds |-> MailerIdle]

-----------------------------------------------------------------------------
\* Mutant: only the day before today is looked at.
InWindowYesterday(c, k) ==
    IF c = "reminder" THEN PlanExpires[k] = today + DaysBefore
    ELSE today = PlanExpires[k] + 1

\* The window of the expiration date: one day, or the days before today.
InWindow(c, k) ==
    IF c = "reminder" THEN PlanExpires[k] = today + DaysBefore
    ELSE PlanExpires[k] < today /\ today <= PlanExpires[k] + DaysSince

\* _get_expiring_licenses_base_queryset
\* and _get_recently_expired_plan_licenses_base_queryset
Expiring(c) ==
    {k \in Pks : mailRows[k].status = "activated" /\ InWindow(c, k) /\ c \notin mailRows[k].sent}

\* _process_enterprise_customer: the count, and the data of the customer, without
\* which the command ends.
MailerStart(c) ==
    /\ mailer[c].pc = "idle"
    /\ ranToday' = ranToday \union {c}
    /\ \/ /\ mailer' = [mailer EXCEPT ![c] =
                          IF Expiring(c) = {} THEN MailerIdle
                          ELSE [MailerIdle EXCEPT !.pc = "batch", !.due = Expiring(c)]]
          /\ UNCHANGED lost
       \/ /\ Expiring(c) # {} /\ lost < MaxLost
          /\ lost' = lost + 1
          /\ UNCHANGED mailer
    /\ UNCHANGED <<today, mailRows, got, twice, changes>>

\* Mutant: licenses are skipped by their number, not by their keys.
SlicedBatch(c) ==
    LET skip == Cardinality({k \in Pks : k <= mailer[c].after})
        left == {k \in Expiring(c) : Cardinality({j \in Expiring(c) : j < k}) >= skip}
    IN  {k \in left : Cardinality({j \in left : j < k}) < MailBatchSize}

\* The first licenses above the last key of the batch before.
NextBatch(c) ==
    LET left == {k \in Expiring(c) : k > mailer[c].after}
    IN  {k \in left : Cardinality({j \in left : j < k}) < MailBatchSize}

MailerBatch(c) ==
    /\ mailer[c].pc = "batch"
    /\ LET B == NextBatch(c) IN
         mailer' = [mailer EXCEPT ![c] =
                      IF B = {} THEN MailerIdle
                      ELSE [@ EXCEPT !.pc = "send",
                                     !.after = CHOOSE k \in B : \A j \in B : j <= k,
                                     !.batch = [k \in B |-> mailRows[k].user_email]]]
    /\ UNCHANGED <<today, ranToday, mailRows, got, twice, lost, changes>>

\* What Braze accepts for a batch.
BatchMails(c) ==
    {<<c, k, mailer[c].batch[k]>> : k \in DOMAIN mailer[c].batch} \cap Mails

\* _send_expiration_reminder_emails_batch, _send_subscription_expiration_emails_batch:
\* the messages are accepted, or they are not, or it is not known that they are;
\* a batch that failed is left for the next run.
MailerSend(c) ==
    /\ mailer[c].pc = "send"
    /\ \/ /\ mailer' = [mailer EXCEPT ![c].pc = "mark"]
          /\ UNCHANGED lost
          /\ got' = got \union BatchMails(c) /\ twice' = twice \union (got \cap BatchMails(c))
       \/ /\ lost < MaxLost /\ lost' = lost + 1
          /\ mailer' = [mailer EXCEPT ![c].pc = "batch", ![c].failed = TRUE]
          /\ \/ UNCHANGED <<got, twice>>
             \/ got' = got \union BatchMails(c) /\ twice' = twice \union (got \cap BatchMails(c))
    /\ UNCHANGED <<today, ranToday, mailRows, changes>>

\* Mutant: the licenses are not marked.
MailerMarkNothing(c) ==
    /\ mailer[c].pc = "mark"
    /\ mailer' = [mailer EXCEPT ![c].pc = "batch"]
    /\ UNCHANGED <<today, ranToday, mailRows, got, twice, lost, changes>>

\* bulk_update of the date, and of nothing else, whoever has the license now.
MailerMark(c) ==
    /\ mailer[c].pc = "mark"
    /\ \/ /\ mailRows' = [k \in Pks |-> IF k \in DOMAIN mailer[c].batch
                                    THEN [mailRows[k] EXCEPT !.sent = @ \union {c}] ELSE mailRows[k]]
          /\ mailer' = [mailer EXCEPT ![c].pc = "batch"]
          /\ UNCHANGED lost
       \/ /\ lost < MaxLost /\ lost' = lost + 1
          /\ mailer' = [mailer EXCEPT ![c].pc = "batch", ![c].failed = TRUE]
          /\ UNCHANGED mailRows
    /\ UNCHANGED <<today, ranToday, got, twice, changes>>

MailerStep(c) == MailerStart(c) \/ MailerBatch(c) \/ MailerSend(c) \/ MailerMark(c)

-----------------------------------------------------------------------------
\* Requests that change a license; due forgets it.
Changed(k, row) ==
    /\ changes < MaxChanges /\ changes' = changes + 1
    /\ mailRows' = [mailRows EXCEPT ![k] = row]
    /\ mailer' = [c \in Kinds |-> [mailer[c] EXCEPT !.due = @ \ {k}]]
    /\ UNCHANGED <<today, ranToday, got, twice, lost>>

RowAssigned(k, u) ==
    /\ mailRows[k].status = "unassigned"
    /\ Changed(k, [mailRows[k] EXCEPT !.status = "assigned", !.user_email = u])

RowActivated(k) ==
    /\ mailRows[k].status = "assigned" /\ today <= PlanExpires[k]
    /\ Changed(k, [mailRows[k] EXCEPT !.status = "activated"])

RowRevoked(k) ==
    /\ mailRows[k].status \in {"assigned", "activated"}
    /\ Changed(k, [mailRows[k] EXCEPT !.status = "revoked"])

\* reset_to_unassigned leaves the dates of the e-mails.
RowReset(k) ==
    /\ mailRows[k].status \in {"assigned", "activated"}
    /\ Changed(k, [mailRows[k] EXCEPT !.status = "unassigned", !.user_email = None])

Tomorrow ==
    /\ ranToday = Kinds /\ \A c \in Kinds : mailer[c].pc = "idle"
    /\ today < MaxDay
    /\ today' = today + 1 /\ ranToday' = {}
    /\ UNCHANGED <<mailRows, mailer, got, twice, lost, changes>>

RemindersNext ==
    \/ \E c \in Kinds : MailerStep(c)
    \/ \E k \in Pks : RowActivated(k) \/ RowRevoked(k) \/ RowReset(k)
    \/ \E k \in Pks, u \in Learners : RowAssigned(k, u)
    \/ Tomorrow

RemindersSpec == RemindersInit /\ [][RemindersNext]_reminderVars

\* What cron and the running commands are bound to do: both commands start every
\* day, and a command that runs goes on.
RemindersProgress ==
    \/ \E c \in Kinds : MailerStep(c) /\ (mailer[c].pc = "idle" => c \notin ranToday)
    \/ Tomorrow

FairRemindersSpec == RemindersSpec /\ WF_reminderVars(RemindersProgress)

-----------------------------------------------------------------------------
(***************************************************************************)
(* Nobody gets an e-mail twice for a license unless an answer of Braze or  *)
(* the update after it was lost, however often the commands run.           *)
(***************************************************************************)
NoDuplicateMail == lost = 0 => twice = {}

(***************************************************************************)
(* A run in which nothing fails leaves out no license that it counted,     *)
(* although the batches are queries that the updates of earlier batches    *)
(* change.                                                                 *)
(***************************************************************************)
RunCoversItsCount ==
    [][\A c \in Kinds :
         mailer[c].pc = "batch" /\ mailer'[c].pc = "idle" /\ ~mailer[c].failed
            => mailer[c].due \cap Expiring(c) = {}]_reminderVars

(***************************************************************************)
(* A learner whose plan has expired is told so, also when a call fails on  *)
(* the first day, because the window is longer than a day.                 *)
(***************************************************************************)
ExpirationTold ==
    \A k \in Pks : (k \in Expiring("expired") /\ today = PlanExpires[k] + 1)
                   ~> "expired" \in mailRows[k].sent \/ mailRows[k].status # "activated"

(***************************************************************************)
(* The commands that warn of an expiration and tell of it leave nobody     *)
(* out: not within a run, and not when a day is lost.                      *)
(***************************************************************************)
ExpiryMailsSent == RunCoversItsCount /\ ExpirationTold
=============================================================================
