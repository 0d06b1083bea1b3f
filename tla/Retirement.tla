----------------------------- MODULE Retirement -----------------------------
(***************************************************************************)
(* Removal of personal data: the command retire_old_licenses, the request  *)
(* that retires a user, and the refresh of e-mails, which writes them back.*)
(*                                                                         *)
(* For each license three statements follow each other without a           *)
(* transaction: the row is saved, the history cleared, the source deleted. *)
(***************************************************************************)
EXTENDS NightlyTable

CONSTANTS
    BatchSize,    \* --batch-size
    PurgeAfter,   \* CustomerAgreement.license_duration_before_purge
    Crashes,      \* may the process that removes data die?
    Refreshing    \* the learners who list their licenses

ASSUME RetirementAssumption ==
    /\ BatchSize \in Nat \ {0} /\ PurgeAfter \in Nat /\ Crashes \in BOOLEAN
    /\ Refreshing \subseteq Learners

VARIABLES
    retire,       \* the running command: its stage and the batches to come
    scrub,        \* the command and the request: what each has left to write
    deleted,      \* the learners whose User row was deleted
    refresh       \* learner -> the licenses whose e-mail is about to be refreshed

retireVars == <<retire, scrub, deleted, refresh>>

Scrubbers == {"command", "request"}

ScrubIdle == [pc |-> "idle", todo |-> <<>>, pk |-> None, user |-> None]

RetireIdle == [stage |-> "idle", starts |-> {}]

Stages == {"expired", "revoked", "assigned"}

RetireInit ==
    /\ retire = RetireIdle
    /\ scrub = [w \in Scrubbers |-> ScrubIdle]
    /\ deleted = {}
    /\ refresh = [u \in Learners |-> {}]

Least(K) == CHOOSE k \in K : \A j \in K : k <= j

Smallest(K, n) == {k \in K : Cardinality({j \in K : j < k}) < n}

-----------------------------------------------------------------------------
\* get_licenses_exceeding_purge_duration, with the arguments of each stage.
PurgeDurationExceeded(s) ==
    {k \in Pks :
       /\ rows[k].user_email # None
       /\ \/ s = "expired" /\ Older(Expires[PlanOf[k]], PurgeAfter)
          \/ s = "revoked" /\ rows[k].status = "revoked" /\ Older(rows[k].revoked_date, PurgeAfter)
          \/ s = "assigned" /\ rows[k].status = "assigned" /\ Older(rows[k].assigned_date, PurgeAfter)}

\* Mutant: every batch starts after the first license of the batch before it.
BatchStartsLate(K) == {k \in K : \A j \in K : k <= j \/ Cardinality({i \in K : i <= k}) % BatchSize = 0}

\* The generator is unpacked before the first license is changed: every batch is
\* a query for keys above the last key of the batch before it.
BatchStarts(K) ==
    IF K = {} THEN {}
    ELSE {0} \union {k \in K : /\ Cardinality({j \in K : j <= k}) % BatchSize = 0
                               /\ \E j \in K : j > k}

\* reset_to_unassigned and clear_pii, which leaves lms_user_id
Reset(row) == Blank
ClearPii(row) == [row EXCEPT !.user_email = None]

Scrubbed(s, row) ==
    CASE s = "expired"  -> [ClearPii(row) EXCEPT !.status = "revoked", !.revoked_date = day]
      [] s = "revoked"  -> ClearPii(row)
      [] s = "assigned" -> Reset(row)

NextStage(s) == CASE s = "idle" -> "expired" [] s = "expired" -> "revoked"
                  [] s = "revoked" -> "assigned"

RetireStart ==
    /\ retire.stage = "idle" /\ "retire" \notin ran
    /\ ran' = ran \union {"retire"}
    /\ retire' = [stage |-> "expired", starts |-> BatchStarts(PurgeDurationExceeded("expired"))]
    /\ UNCHANGED <<day, tableVars, scrub, deleted, refresh>>

\* A batch is queried when the loop reaches it, and its instances are kept.
RetireBatch ==
    /\ retire.stage # "idle" /\ scrub["command"].pc = "idle" /\ retire.starts # {}
    /\ LET from  == Least(retire.starts)
           batch == Smallest({k \in PurgeDurationExceeded(retire.stage) : k > from}, BatchSize)
       IN  /\ scrub' = [scrub EXCEPT !["command"] =
                          [ScrubIdle EXCEPT !.pc = "save",
                             !.todo = [k \in batch |-> Scrubbed(retire.stage, rows[k])]]]
           /\ retire' = [retire EXCEPT !.starts = @ \ {from}]
    /\ UNCHANGED <<day, ran, tableVars, deleted, refresh>>

RetireNextStage ==
    /\ retire.stage \in {"expired", "revoked"}
    /\ scrub["command"].pc = "idle" /\ retire.starts = {}
    /\ retire' = [stage |-> NextStage(retire.stage),
                  starts |-> BatchStarts(PurgeDurationExceeded(NextStage(retire.stage)))]
    /\ UNCHANGED <<day, ran, tableVars, scrub, deleted, refresh>>

RetireDone ==
    /\ retire.stage = "assigned" /\ scrub["command"].pc = "idle" /\ retire.starts = {}
    /\ retire' = RetireIdle
    /\ UNCHANGED <<day, ran, tableVars, scrub, deleted, refresh>>

-----------------------------------------------------------------------------
\* UserRetirementView.post: the licenses with the lms_user_id of the user.
RetireUser(u) ==
    /\ scrub["request"].pc = "idle" /\ u \notin deleted
    /\ LET found == {k \in Pks : rows[k].lms_user_id = u}
       IN  scrub' = [scrub EXCEPT !["request"] =
             [pc |-> "save", pk |-> None, user |-> u,
              todo |-> [k \in found |-> IF rows[k].status = "revoked" THEN ClearPii(rows[k])
                                        ELSE Reset(rows[k])]]]
    /\ UNCHANGED <<day, ran, tableVars, retire, deleted, refresh>>

\* Mutant: the row is saved and the history left as it is.
ScrubHistorySkipped(w) ==
    /\ scrub[w].pc = "history"
    /\ scrub' = [scrub EXCEPT ![w].pc = "source"]
    /\ UNCHANGED <<day, ran, tableVars, retire, deleted, refresh>>

\* save, with every field of the instance
ScrubSave(w) ==
    /\ scrub[w].pc = "save" /\ DOMAIN scrub[w].todo # {}
    /\ LET k == Least(DOMAIN scrub[w].todo) IN
         /\ rows' = [rows EXCEPT ![k] = scrub[w].todo[k]]
         /\ scrub' = [scrub EXCEPT ![w].pc = "history", ![w].pk = k,
                        ![w].todo = [j \in DOMAIN @ \ {k} |-> @[j]]]
    /\ UNCHANGED <<day, ran, history, source, linked, calls, retire, deleted, refresh>>

\* clear_historical_pii
ScrubHistory(w) ==
    /\ scrub[w].pc = "history"
    /\ history' = [history EXCEPT ![scrub[w].pk] = {}]
    /\ scrub' = [scrub EXCEPT ![w].pc = "source"]
    /\ UNCHANGED <<day, ran, rows, source, linked, calls, retire, deleted, refresh>>

\* delete_source
ScrubSource(w) ==
    /\ scrub[w].pc = "source"
    /\ source' = source \ {scrub[w].pk}
    /\ scrub' = [scrub EXCEPT ![w].pc = "save", ![w].pk = None]
    /\ UNCHANGED <<day, ran, rows, history, linked, calls, retire, deleted, refresh>>

\* The end of a batch, or of the request, which deletes the User at last.
ScrubDone(w) ==
    /\ scrub[w].pc = "save" /\ DOMAIN scrub[w].todo = {}
    /\ deleted' = IF w = "request" THEN deleted \union {scrub[w].user} ELSE deleted
    /\ scrub' = [scrub EXCEPT ![w] = ScrubIdle]
    /\ UNCHANGED <<day, ran, tableVars, retire, refresh>>

\* The process dies between two statements.
ScrubCrash(w) ==
    /\ Crashes /\ scrub[w].pc # "idle"
    /\ scrub' = [scrub EXCEPT ![w] = ScrubIdle]
    /\ retire' = IF w = "command" THEN RetireIdle ELSE retire
    /\ UNCHANGED <<day, ran, tableVars, deleted, refresh>>

-----------------------------------------------------------------------------
\* LearnerLicensesViewSet: a license in the list does not have the e-mail that
\* the learner has now, so the licenses with the learner's user id are read ...
RefreshRead(u) ==
    /\ u \in Refreshing \ deleted /\ refresh[u] = {}
    /\ \E k \in Pks : rows[k].lms_user_id = u /\ rows[k].user_email # u
    /\ refresh' = [refresh EXCEPT ![u] = {k \in Pks : rows[k].lms_user_id = u}]
    /\ UNCHANGED <<day, ran, tableVars, retire, scrub, deleted>>

\* ... and update_user_email_for_licenses_task writes the e-mail on all of them.
RefreshWrite(u) ==
    /\ refresh[u] # {}
    /\ rows' = [k \in Pks |-> IF k \in refresh[u] THEN [rows[k] EXCEPT !.user_email = u]
                              ELSE rows[k]]
    /\ history' = [k \in Pks |-> IF k \in refresh[u] THEN history[k] \union {u} ELSE history[k]]
    /\ refresh' = [refresh EXCEPT ![u] = {}]
    /\ UNCHANGED <<day, ran, source, linked, calls, retire, scrub, deleted>>

ScrubStep(w) == ScrubSave(w) \/ ScrubHistory(w) \/ ScrubSource(w) \/ ScrubDone(w)

RetireStep ==
    \/ RetireBatch \/ RetireNextStage \/ RetireDone
    \/ \E w \in Scrubbers : ScrubStep(w)
    \/ \E u \in Learners : RefreshWrite(u)
=============================================================================
