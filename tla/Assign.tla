------------------------------- MODULE Assign -------------------------------
(***************************************************************************)
(* POST /subscriptions/{uuid}/licenses/assign/                             *)
(*                                                                         *)
(* The request takes the plan's lock, drops the e-mails that already have  *)
(* an assigned or activated license, and in one transaction counts the     *)
(* unassigned licenses, selects as many as there are e-mails and writes    *)
(* them with bulk_update, which skips License.clean.  The lock is released *)
(* in a finally clause.                                                    *)
(***************************************************************************)
EXTENDS LicenseTable, PlanLock

CONSTANTS
    AcquireRace,    \* may two requests be inside the get and the set at once?
    OutliveLock     \* may a request run longer than the lock's timeout?

ASSUME LockWindows == AcquireRace \in BOOLEAN /\ OutliveLock \in BOOLEAN

\* The request believes it holds the lock.
Holding(r) == pc[r] \in {"trim", "count", "pick", "write", "release"}

\* Mutant: the finally clause releases the lock although it was not acquired.
AssignGetReleasing(r, emails) ==
    /\ pc[r] = "idle"
    /\ emails # {}
    /\ \/ /\ LockMissed
          /\ AcquireRace \/ \A q \in Assigners : pc[q] # "set"
          /\ Goto(r, "set")
          /\ todo' = [todo EXCEPT ![r] = emails]
       \/ /\ lock = "held" /\ LockReleased
          /\ UNCHANGED <<pc, todo>>
    /\ UNCHANGED <<tableVars, view, plan_read>>

\* utils.acquire_subscription_plan_lock finds the cache empty.  A request
\* that finds the entry answers 423 and changes nothing.
AssignGet(r, emails) ==
    /\ pc[r] = "idle"
    /\ emails # {}
    /\ LockMissed
    /\ AcquireRace \/ \A q \in Assigners : pc[q] # "set"
    /\ Goto(r, "set")
    /\ todo' = [todo EXCEPT ![r] = emails]
    /\ UNCHANGED <<tableVars, view, plan_read>>

AssignSet(r) ==
    /\ pc[r] = "set"
    /\ LockSet
    /\ Goto(r, "trim")
    /\ UNCHANGED <<tableVars, localVars>>

\* Mutant: no e-mail is trimmed.
AssignTrimNothing(r) ==
    /\ pc[r] = "trim"
    /\ Goto(r, "count")
    /\ UNCHANGED <<tableVars, localVars, lock>>

\* _trim_already_associated_emails; with no e-mail left there is nothing to do.
AssignTrim(r) ==
    LET remaining == {e \in todo[r] : AllocatedTo(e) = {}} IN
    /\ pc[r] = "trim"
    /\ todo' = [todo EXCEPT ![r] = remaining]
    /\ Goto(r, IF remaining = {} THEN "release" ELSE "count")
    /\ UNCHANGED <<tableVars, view, plan_read, lock>>

\* Not enough unassigned licenses: 400, and nothing is assigned.
AssignCount(r) ==
    /\ pc[r] = "count"
    /\ Goto(r, IF Cardinality(Unassigned) < Cardinality(todo[r])
               THEN "release" ELSE "pick")
    /\ UNCHANGED <<tableVars, localVars, lock>>

\* The licenses that the sliced query can return: at most as many as there
\* are e-mails, fewer only when there are not enough.  The query is unordered.
Slices(n) ==
    {L \in SUBSET Unassigned :
        \/ Cardinality(L) = n
        \/ Cardinality(L) < n /\ L = Unassigned}

\* _assign_new_licenses: zip the selected licenses with the e-mails.
AssignPick(r) ==
    /\ pc[r] = "pick"
    /\ \E L \in Slices(Cardinality(todo[r])) :
         \E email \in [L -> todo[r]] :
            /\ \A l, m \in L : email[l] = email[m] => l = m
            /\ view' = [view EXCEPT ![r] = RowsOf(L, [l \in L |-> AssignedRow(email[l])])]
    /\ Goto(r, "write")
    /\ UNCHANGED <<tableVars, todo, plan_read, lock>>

\* License.bulk_update and the commit: an UPDATE of the named fields, which
\* leaves lms_user_id alone and does nothing for a row that is gone.
AssignWrite(r) ==
    /\ pc[r] = "write"
    /\ licenses' = [l \in Licenses |->
                      IF l \in InMemory(r) \intersect Stored
                      THEN KeepLmsUser(view[r][l], licenses[l])
                      ELSE licenses[l]]
    /\ Goto(r, "release")
    /\ UNCHANGED <<num_revocations_applied, localVars, lock>>

\* A DatabaseError rolls the transaction back, with a 422; any other exception
\* leaves through the finally clause, too.
AssignFail(r) ==
    /\ pc[r] \in {"trim", "count", "pick", "write"}
    /\ Goto(r, "release")
    /\ UNCHANGED <<tableVars, localVars, lock>>

\* finally: release_subscription_plan_lock.
AssignRelease(r) ==
    /\ pc[r] = "release"
    /\ LockReleased
    /\ Done(r)
    /\ UNCHANGED tableVars

\* The web worker dies: no finally clause runs, an open transaction is lost.
AssignCrash(r) ==
    /\ pc[r] = "set" \/ Holding(r)
    /\ Done(r)
    /\ UNCHANGED <<tableVars, lock>>

\* The cache entry times out.  With ~OutliveLock it does so only once no
\* request that set it is still running.
LockExpire ==
    /\ LockTimesOut
    /\ OutliveLock \/ \A r \in Assigners : ~Holding(r)
    /\ UNCHANGED <<tableVars, pc, localVars>>

AssignStep(r) ==
    \/ AssignSet(r)
    \/ AssignTrim(r)
    \/ AssignCount(r)
    \/ AssignPick(r)
    \/ AssignWrite(r)
    \/ AssignFail(r)
    \/ AssignRelease(r)

AssignNext ==
    \/ \E r \in Assigners :
         \/ \E emails \in SUBSET Emails : AssignGet(r, emails)
         \/ AssignStep(r)
         \/ AssignCrash(r)
    \/ LockExpire
=============================================================================
