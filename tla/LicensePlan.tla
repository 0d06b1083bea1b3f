----------------------------- MODULE LicensePlan -----------------------------
(***************************************************************************)
(* One subscription plan with every request that changes the allocation of *)
(* its licenses: assignment under the plan's lock, auto-apply, activation, *)
(* revocation and freezing, interleaved statement by statement.            *)
(***************************************************************************)
EXTENDS Assign, AutoApply, Activation, Revocation, Freeze

vars == <<licenses, num_revocations_applied, pc, todo, view, plan_read, lock>>

Init == InitTable /\ LockInit

Next ==
    \/ AssignNext
    \/ AutoApplyNext /\ UNCHANGED lock
    \/ ActivationNext /\ UNCHANGED lock
    \/ RevocationNext /\ UNCHANGED lock
    \/ FreezeNext /\ UNCHANGED lock

Spec == Init /\ [][Next]_vars

(***************************************************************************)
(* Fairness: a web worker that serves an assignment keeps executing it     *)
(* until it answers or dies, and the cache enforces its timeout.  Nobody   *)
(* has to send a request.                                                  *)
(***************************************************************************)
Fairness ==
    /\ \A r \in Assigners : WF_vars(AssignStep(r))
    /\ WF_vars(LockExpire)

FairSpec == Spec /\ Fairness

Labels == {"idle", "set", "trim", "count", "pick", "write", "release",
           "choose", "clean", "save", "dups", "reset", "select", "commit", "delete"}

TypeOK ==
    /\ TableTypeOK
    /\ lock \in LockState
    /\ pc \in [Requests -> Labels]

-----------------------------------------------------------------------------
(***************************************************************************)
(* What holds of the rows under every interleaving of the requests, with   *)
(* no lock at all: an allocated license names a learner, an unassigned one *)
(* carries nothing of a former learner, and an activated one was activated *)
(* by the learner whose e-mail it carries (License.activate, auto-apply    *)
(* and reset_to_unassigned write these fields together).                   *)
(***************************************************************************)
RowCoherent(row) ==
    /\ row.status \in {"assigned", "activated"} => row.user_email \in Emails
    /\ row.status = "unassigned" => row = UnassignedRow
    /\ row.status = "activated" => row.lms_user_id = row.user_email

HoldersCoherent == \A l \in Licenses : RowCoherent(licenses[l])

(***************************************************************************)
(* HoldersCoherent with what makes it inductive: the rows in the memory of *)
(* a request, stale or not, are coherent too, and bulk_update, which mixes *)
(* fields in memory with a field of the table, has assigned rows only.     *)
(***************************************************************************)
MemoryCoherent == \A r \in Requests, l \in Licenses : RowCoherent(view[r][l])

WritesAssigned ==
    \A r \in Requests : pc[r] = "write" =>
       \A l \in Licenses : view[r][l].status \in {"absent", "assigned"}

CoherentInv == TypeOK /\ HoldersCoherent /\ MemoryCoherent /\ WritesAssigned

(***************************************************************************)
(* A learner has at most one assigned or activated license in the plan:    *)
(* what License.clean and the trimming in the assign endpoint are for.     *)
(***************************************************************************)
UniqueHolder ==
    \A l, m \in Licenses :
      Allocated(l) /\ Allocated(m) /\ licenses[l].user_email = licenses[m].user_email
         => l = m

(***************************************************************************)
(* At most one request executes the body of the assign endpoint.           *)
(***************************************************************************)
OneAssignmentAtATime ==
    \A q, r \in Assigners : Holding(q) /\ Holding(r) => q = r

NoOpenWindow == ~AcquireRace /\ ~OutliveLock

(***************************************************************************)
(* Why OneAssignmentAtATime holds while no window of the lock is open.     *)
(***************************************************************************)
InBody(r) == pc[r] = "set" \/ Holding(r)

LockInv ==
    /\ \A r \in Assigners : Holding(r) => lock = "held"
    /\ \A q, r \in Assigners : InBody(q) /\ InBody(r) => q = r

(***************************************************************************)
(* UniqueHolder is the work of the lock alone, so it needs that licenses   *)
(* are given out by assignments only, and that no license in the hands of  *)
(* an activation is taken away.                                            *)
(***************************************************************************)
OnlyAssignmentAllocates ==
    /\ AutoAppliers = {}
    /\ Activators = {} \/ (Revokers = {} /\ Freezers = {})

(***************************************************************************)
(* What an assignment has seen stays true until it writes: nobody holds a  *)
(* license under a trimmed e-mail, and the licenses it picked are free.    *)
(* The rows it will write have different e-mails, all of them trimmed.     *)
(***************************************************************************)
TrimmedInv ==
    \A r \in Assigners :
      pc[r] \in {"count", "pick", "write"} =>
         \A l \in Licenses : ~(Allocated(l) /\ licenses[l].user_email \in todo[r])

PickedInv ==
    \A r \in Assigners : pc[r] = "write" => \A l, m \in InMemory(r) :
       /\ ~Allocated(l)
       /\ view[r][l].user_email \in todo[r]
       /\ view[r][l].user_email = view[r][m].user_email => l = m

(***************************************************************************)
(* An activation has at most the learner's own license in memory.          *)
(***************************************************************************)
ActivationInv ==
    \A r \in Activators : pc[r] \in {"reset", "clean", "save"} => \A l \in InMemory(r) :
       /\ view[r][l].status = "activated"
       /\ Allocated(l) /\ licenses[l].user_email = view[r][l].user_email

AssignmentInv ==
    CoherentInv /\ LockInv /\ TrimmedInv /\ PickedInv /\ ActivationInv /\ UniqueHolder

(***************************************************************************)
(* No step hands a license that one learner holds to another learner: a    *)
(* license is taken from the unassigned ones only, so no successful        *)
(* assignment is overwritten by a later one.                               *)
(***************************************************************************)
HeldLicenseNotStolen ==
    [][\A l \in Licenses :
          Allocated(l) /\ Allocated(l)' =>
             licenses'[l].user_email = licenses[l].user_email]_vars

(***************************************************************************)
(* A revoked license keeps its row for ever.                               *)
(***************************************************************************)
RevokedUnmodified ==
    [][\A l \in Licenses :
          licenses[l].status = "revoked" => licenses'[l] = licenses[l]]_vars

(***************************************************************************)
(* Under every interleaving the plan never loses a license it paid for:    *)
(* num_licenses may only grow unless the plan is frozen.                   *)
(***************************************************************************)
CapacityNotLost == [][NumLicenses' >= NumLicenses]_vars

(***************************************************************************)
(* Of the licenses that learners had activated no more are revoked than    *)
(* revoke_max_percentage allows.                                           *)
(***************************************************************************)
RevocationCapRespected ==
    RevocationCap =>
      Cardinality({l \in Licenses : /\ licenses[l].status = "revoked"
                                    /\ licenses[l].lms_user_id # NoEmail})
        <= RevocationsAllowed

(***************************************************************************)
(* Revocations cost the customer neither more learners than the cap allows *)
(* nor a license, also while assignments and activations go on and the     *)
(* lock has windows.                                                       *)
(***************************************************************************)
RevocationsSound == []RevocationCapRespected /\ CapacityNotLost

(***************************************************************************)
(* The plan's lock is free again and again, even when the web workers that *)
(* hold it die: no plan is locked for assignment for ever.                 *)
(***************************************************************************)
LockFreedAgain == []<>(lock = "free")

-----------------------------------------------------------------------------
\* The pool of seats that the rows of the table stand for.
HolderOf == [l \in Licenses |-> IF Allocated(l) THEN licenses[l].user_email ELSE NoEmail]
Withdrawn == {l \in Licenses : licenses[l].status = "revoked"}

Pool == INSTANCE Entitlement WITH
          Seats <- Licenses, Paid <- Provisioned, Learners <- Emails, Nobody <- NoEmail,
          holder <- HolderOf, free <- Unassigned, withdrawn <- Withdrawn

(***************************************************************************)
(* Assignments and a revocation, interleaved statement by statement and    *)
(* failing or dying at any of them, implement the pool: each of them       *)
(* changes it in one step or not at all, no learner gets a second seat, no *)
(* seat is given twice, and every withdrawn seat is replaced by one.       *)
(***************************************************************************)
ImplementsPool == Pool!EntitlementSpec
=============================================================================
