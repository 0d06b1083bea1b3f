----------------------------- MODULE Unlinking -----------------------------
(***************************************************************************)
(* The command unlink_expired_licenses: learners whose license expired     *)
(* long ago are unlinked from the enterprise, and an event records it.     *)
(***************************************************************************)
EXTENDS NightlyTable

CONSTANTS
    PageSize,     \* the page size of the Paginator
    UnlinkAfter,  \* 90 days
    UnlinkFails   \* may the call to the LMS fail?

ASSUME UnlinkingAssumption ==
    PageSize \in Nat \ {0} /\ UnlinkAfter \in Nat /\ UnlinkFails \in BOOLEAN

VARIABLES
    events,       \* the licenses with a LicenseEvent EXPIRED_LICENSE_UNLINKED
    unlink        \* the running command; due: the licenses it began with (history)

unlinkVars == <<events, unlink>>

UnlinkIdle == [pc |-> "idle", found |-> <<>>, page |-> {}, due |-> {}]

UnlinkInit == events = {} /\ unlink = UnlinkIdle

\* expired_licenses
ExpiredLicenses ==
    {k \in Pks : /\ Allocated(k) /\ RenewedTo[k] = None
                 /\ Older(Expires[PlanOf[k]], UnlinkAfter)
                 /\ k \notin events}

\* The query is evaluated once, with the e-mails and user ids.
UnlinkStart ==
    /\ unlink.pc = "idle" /\ "unlink" \notin ran
    /\ ran' = ran \union {"unlink"}
    /\ unlink' = [pc |-> "pages", found |-> [k \in ExpiredLicenses |-> rows[k]], page |-> {},
                  due |-> ExpiredLicenses]
    /\ UNCHANGED <<day, tableVars, events>>

\* Mutant: other licenses of the learner are not looked for.
NoOtherLicense(row) == FALSE

\* Mutant: licenses of expired plans count too.
AnyLicenseOfLearner(row) ==
    \E j \in Pks : rows[j].user_email = row.user_email

\* for_user_and_customer with current plans only: a license of any status, by
\* e-mail or by user id.
OtherActiveLicenses(row) ==
    \E j \in Pks : /\ Current(PlanOf[j])
                   /\ \/ rows[j].user_email = row.user_email
                      \/ row.lms_user_id # None /\ rows[j].lms_user_id = row.lms_user_id

\* A page: the licenses whose learner has no other active license.
UnlinkPage ==
    /\ unlink.pc = "pages" /\ DOMAIN unlink.found # {}
    /\ \E P \in SUBSET DOMAIN unlink.found :
         /\ \/ Cardinality(P) = PageSize
            \/ P = DOMAIN unlink.found /\ Cardinality(P) < PageSize
         /\ unlink' = [pc |-> "call",
                       found |-> [k \in DOMAIN unlink.found \ P |-> unlink.found[k]],
                       page |-> {<<k, unlink.found[k].user_email>> :
                                   k \in {j \in P : ~OtherActiveLicenses(unlink.found[j])}},
                       due |-> unlink.due]
    /\ UNCHANGED <<day, ran, tableVars, events>>

\* bulk_unlink_enterprise_users does not look at the status of the response, so
\* an error of the LMS is taken for a success; a lost connection raises and ends
\* the command.
UnlinkCall ==
    /\ unlink.pc = "call"
    /\ \/ /\ linked' = linked \ {pair[2] : pair \in unlink.page}
          /\ unlink' = [unlink EXCEPT !.pc = "record"]
       \/ /\ UnlinkFails /\ unlink.page # {}
          /\ unlink' \in {[unlink EXCEPT !.pc = "record"], UnlinkIdle}
          /\ UNCHANGED linked
    /\ UNCHANGED <<day, ran, rows, history, source, calls, events>>

\* Mutant: every page is a query of its own, in which the recorded licenses are missing,
\* so that the next page begins too far.
UnlinkRecordRequery ==
    /\ unlink.pc = "record"
    /\ events' = events \union {pair[1] : pair \in unlink.page}
    /\ \E S \in SUBSET DOMAIN unlink.found :
         /\ Cardinality(S) = Cardinality(unlink.page) \/ S = DOMAIN unlink.found
         /\ unlink' = [unlink EXCEPT !.pc = "pages", !.page = {},
                                     !.found = [k \in DOMAIN unlink.found \ S |-> unlink.found[k]]]
    /\ UNCHANGED <<day, ran, tableVars>>

UnlinkRecord ==
    /\ unlink.pc = "record"
    /\ events' = events \union {pair[1] : pair \in unlink.page}
    /\ unlink' = [unlink EXCEPT !.pc = "pages", !.page = {}]
    /\ UNCHANGED <<day, ran, tableVars>>

UnlinkDone ==
    /\ unlink.pc = "pages" /\ DOMAIN unlink.found = {}
    /\ unlink' = UnlinkIdle
    /\ UNCHANGED <<day, ran, tableVars, events>>

UnlinkStep == UnlinkPage \/ UnlinkCall \/ UnlinkRecord \/ UnlinkDone
=============================================================================
