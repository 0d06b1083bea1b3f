------------------------------ MODULE Nightly ------------------------------
(***************************************************************************)
(* The nightly commands together, on the licenses of one customer.         *)
(***************************************************************************)
EXTENDS Expiration, Unlinking, Retirement

CONSTANT Overlap  \* may requests overlap a running command?

ASSUME OverlapAssumption == Overlap \in BOOLEAN

nightlyVars == <<day, ran, rows, history, source, linked, calls, processed, ended, expire,
                 events, unlink, retire, scrub, deleted, refresh>>

NightlyInit == TableInit /\ ExpireInit /\ UnlinkInit /\ RetireInit

Quiet ==
    /\ expire.pc = "idle" /\ unlink.pc = "idle" /\ retire.stage = "idle"
    /\ \A w \in Scrubbers : scrub[w].pc = "idle"
    /\ \A u \in Learners : refresh[u] = {}

Free == Overlap \/ Quiet

Requests ==
    /\ Free
    /\ \/ /\ \/ \E k \in Pks, u \in Learners \ deleted : Assigned(k, u)
             \/ \E k \in Pks : Activated(k) \/ Revoked(k)
          /\ UNCHANGED <<expireVars, unlinkVars, retireVars>>
       \/ \E P \in SUBSET Plans : ExpireByHand(P) /\ UNCHANGED <<unlinkVars, retireVars>>
       \/ \E u \in Learners : (RetireUser(u) \/ RefreshRead(u)) /\ UNCHANGED <<expireVars, unlinkVars>>

ExpirationRuns == ((Free /\ ExpireStart) \/ ExpireStep) /\ UNCHANGED <<unlinkVars, retireVars>>
UnlinkingRuns == ((Free /\ UnlinkStart) \/ UnlinkStep) /\ UNCHANGED <<expireVars, retireVars>>
RetirementRuns == ((Free /\ RetireStart) \/ RetireStep) /\ UNCHANGED <<expireVars, unlinkVars>>
DayPasses == NextDay /\ Quiet /\ UNCHANGED <<expireVars, unlinkVars, retireVars>>
Crash == \E w \in Scrubbers : ScrubCrash(w) /\ UNCHANGED <<expireVars, unlinkVars>>

NightlyNext == ExpirationRuns \/ UnlinkingRuns \/ RetirementRuns \/ DayPasses \/ Crash \/ Requests

NightlySpec == NightlyInit /\ [][NightlyNext]_nightlyVars

\* Cron starts every command every day and every command runs to its end.
FairNightlySpec ==
    /\ NightlySpec
    /\ WF_nightlyVars(ExpirationRuns) /\ WF_nightlyVars(UnlinkingRuns)
    /\ WF_nightlyVars(RetirementRuns) /\ WF_nightlyVars(DayPasses)

NightlyTypeOK ==
    /\ TableTypeOK
    /\ processed \subseteq Plans /\ ended \subseteq Pks /\ events \subseteq Pks
    /\ expire.pc \in {"idle", "plans", "chain", "chunks"}
    /\ unlink.pc \in {"idle", "pages", "call", "record"}
    /\ retire.stage \in Stages \union {"idle"}
    /\ \A w \in Scrubbers : scrub[w].pc \in {"idle", "save", "history", "source"}
    /\ deleted \subseteq Learners

(***************************************************************************)
(* The enrollments of a license are ended only after the last plan of its  *)
(* chain of renewals has expired.                                          *)
(***************************************************************************)
EndedWithTheChain ==
    \A k \in ended : Expires[LastPlan(PlanOf[k])] <= day

(***************************************************************************)
(* A plan is marked as processed only when the enrollments of all licenses *)
(* that were given out before it expired have been ended, although the     *)
(* chunks fail one by one.                                                 *)
(***************************************************************************)
ProcessedMeansEnded ==
    \A k \in Pks : (/\ PlanOf[k] \in processed /\ Allocated(k)
                    /\ rows[k].assigned_date < Expires[PlanOf[k]]) => k \in ended

(***************************************************************************)
(* Whatever fails or dies, enrollments end neither too early nor           *)
(* unnoticed.                                                              *)
(***************************************************************************)
EnrollmentsSound == NightlyTypeOK /\ EndedWithTheChain /\ ProcessedMeansEnded

(***************************************************************************)
(* A learner with a license in a current plan stays linked, whatever other *)
(* license of the learner expired.                                         *)
(***************************************************************************)
CurrentLearnersLinked ==
    \A k \in Pks : Allocated(k) /\ Current(PlanOf[k]) => rows[k].user_email \in linked

(***************************************************************************)
(* A license without a learner has no e-mail left in its history and no    *)
(* source, unless the data are being removed.                              *)
(***************************************************************************)
NoDataLeftBehind ==
    \A k \in Pks : (/\ rows[k].user_email = None
                    /\ \A w \in Scrubbers : scrub[w].pk # k)
                   => history[k] = {} /\ k \notin source

(***************************************************************************)
(* Every plan that expires and ends its chain is processed, and so are all *)
(* the plans that were renewed into it.                                    *)
(***************************************************************************)
ExpiredPlansProcessed ==
    \A p \in Plans : Expires[LastPlan(p)] <= day ~> p \in processed

\* Someone with the e-mail or the user id of a row has a license of a current plan.
HasCurrentLicense(row) ==
    \E j \in Pks : /\ Current(PlanOf[j])
                   /\ \/ rows[j].user_email = row.user_email
                      \/ rows[j].lms_user_id = row.lms_user_id /\ row.lms_user_id # None

(***************************************************************************)
(* A run of unlink_expired_licenses that comes to its end has forgotten    *)
(* nobody: every license that was due when it began is recorded and its    *)
(* learner unlinked, however many pages there were, unless the learner has *)
(* another license in a current plan. (An answer of the LMS that refuses   *)
(* is taken for a success.)                                                *)
(***************************************************************************)
RunForgetsNobody ==
    [][unlink.pc = "pages" /\ unlink'.pc = "idle" =>
         \A k \in unlink.due :
            \/ HasCurrentLicense(rows[k])
            \/ k \in events /\ (rows[k].user_email \notin linked \/ UnlinkFails)]_nightlyVars

(***************************************************************************)
(* Personal data that are due are removed, in however many batches.        *)
(***************************************************************************)
DueDataPurged ==
    \A k \in Pks : (\E s \in Stages : k \in PurgeDurationExceeded(s)) ~> rows[k].user_email = None
=============================================================================
