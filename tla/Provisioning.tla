---------------------------- MODULE Provisioning ----------------------------
(***************************************************************************)
(* How a subscription plan gets the licenses of desired_num_licenses.      *)
(*                                                                         *)
(* A request that saves the plan calls provision_licenses: a gap of one    *)
(* batch or less is created at once, without the plan's lock; a larger gap *)
(* is left to provision_licenses_task, which holds the lock while it       *)
(* creates the licenses batch by batch.  A task that does not get the lock *)
(* is retried a few times and then given up.                               *)
(***************************************************************************)
EXTENDS Naturals, PlanLock

CONSTANTS
    Savers,           \* requests that save the plan and provision it
    Tasks,            \* runs of provision_licenses_task at the same time (bound)
    BatchSize,        \* PROVISION_LICENSES_BATCH_SIZE
    MaxRetries,       \* Task.max_retries, for the lock
    MaxErrorRetries,  \* retry_kwargs of LoggedTaskWithRetry, for the database
    MaxDesired,       \* the largest desired_num_licenses (bound)
    Freezable,        \* can_freeze_unused_licenses
    Assigning,        \* do assignments, too, take the plan's lock?
    AcquireRace,      \* may two callers be inside the get and the set at once?
    OutliveLock,      \* may a task run longer than the lock's timeout?
    SyncOverlap,      \* may a save be provisioned while another provisioning runs?
    Faults            \* may the database fail and a celery worker die?

ASSUME ProvisioningAssumption ==
    /\ Savers \intersect Tasks = {}
    /\ BatchSize \in Nat \ {0}
    /\ MaxRetries \in Nat /\ MaxErrorRetries \in Nat /\ MaxDesired \in Nat
    /\ {Freezable, Assigning, AcquireRace, OutliveLock, SyncOverlap, Faults}
          \subseteq BOOLEAN

VARIABLES
    allocated,    \* number of assigned and activated licenses
    unassigned,   \* number of unassigned licenses
    desired,      \* desired_num_licenses; 0 is also NULL: both are falsy
    last_freeze_timestamp,  \* "NULL" or "SET"
    saver,        \* saver -> where it is
    want,         \* saver -> the plan's desired_num_licenses in its memory
    freeze_read,  \* saver -> the plan's last_freeze_timestamp in its memory
    task,         \* task -> where it is
    left,         \* saver or task -> licenses it still has to create
    retries,      \* task -> request.retries
    assignment,   \* "running" while an assignment holds the lock
    asked         \* the most licenses that anybody ever asked for (history)

planVars == <<allocated, unassigned, desired, last_freeze_timestamp>>
saverVars == <<saver, want, freeze_read>>
pvars == <<planVars, saverVars, task, left, retries, assignment, asked, lock>>

NumLicenses == allocated + unassigned

\* desired_num_licenses - num_licenses, when that is positive.
Gap(n) == IF NumLicenses < n THEN n - NumLicenses ELSE 0

Timestamp == {"NULL", "SET"}
SaverState == {"idle", "loaded", "check", "create"}
TaskState == {"none", "queued", "set", "read", "batch", "release"}
InLock == {"read", "batch", "release"}

ProvisioningInit ==
    /\ allocated = 0 /\ unassigned = 0
    /\ desired = 0 /\ asked = 0
    /\ last_freeze_timestamp = "NULL" /\ assignment = "none"
    /\ saver = [s \in Savers |-> "idle"]
    /\ want = [s \in Savers |-> 0]
    /\ freeze_read = [s \in Savers |-> "NULL"]
    /\ task = [t \in Tasks |-> "none"]
    /\ left = [w \in Savers \union Tasks |-> 0]
    /\ retries = [t \in Tasks |-> 0]
    /\ LockInit

-----------------------------------------------------------------------------
\* partial_update: the plan is loaded, with last_freeze_timestamp ...
LoadPlan(s) ==
    /\ saver[s] = "idle"
    /\ freeze_read' = [freeze_read EXCEPT ![s] = last_freeze_timestamp]
    /\ saver' = [saver EXCEPT ![s] = "loaded"]
    /\ UNCHANGED <<planVars, want, task, left, retries, assignment, asked, lock>>

\* ... and saved with a desired number; save() writes every field.
SavePlan(s, n) ==
    /\ saver[s] = "loaded"
    /\ desired' = n
    /\ last_freeze_timestamp' = freeze_read[s]
    /\ want' = [want EXCEPT ![s] = n]
    /\ asked' = IF n > asked THEN n ELSE asked
    /\ saver' = [saver EXCEPT ![s] = "check"]
    /\ UNCHANGED <<allocated, unassigned, freeze_read, task, left, retries, assignment, lock>>

\* create_actual_licenses_action provisions a plan that it only reads.
ReadPlan(s) ==
    /\ saver[s] = "idle"
    /\ freeze_read' = [freeze_read EXCEPT ![s] = last_freeze_timestamp]
    /\ want' = [want EXCEPT ![s] = desired]
    /\ saver' = [saver EXCEPT ![s] = "check"]
    /\ UNCHANGED <<planVars, task, left, retries, assignment, asked, lock>>

\* No other provisioning of the plan is under way.
Alone(s) ==
    /\ \A q \in Savers \ {s} : saver[q] # "create"
    /\ \A t \in Tasks : task[t] \notin InLock

\* provision_licenses: nothing to do without a desired number, after a freeze,
\* or without a gap; else a batch at once, or a task.
ProvisionNothing(s) ==
    /\ saver[s] = "check"
    /\ want[s] = 0 \/ freeze_read[s] = "SET" \/ Gap(want[s]) = 0
    /\ saver' = [saver EXCEPT ![s] = "idle"]
    /\ UNCHANGED <<planVars, want, freeze_read, task, left, retries,
                   assignment, asked, lock>>

\* Mutant: a gap of exactly one batch is neither small nor large.
ProvisionSyncStrict(s) ==
    /\ saver[s] = "check"
    /\ want[s] # 0 /\ freeze_read[s] = "NULL" /\ Gap(want[s]) \in 1..(BatchSize - 1)
    /\ SyncOverlap \/ Alone(s)
    /\ left' = [left EXCEPT ![s] = Gap(want[s])]
    /\ saver' = [saver EXCEPT ![s] = "create"]
    /\ UNCHANGED <<planVars, want, freeze_read, task, retries,
                   assignment, asked, lock>>

ProvisionSync(s) ==
    /\ saver[s] = "check"
    /\ want[s] # 0 /\ freeze_read[s] = "NULL" /\ Gap(want[s]) \in 1..BatchSize
    /\ SyncOverlap \/ Alone(s)
    /\ left' = [left EXCEPT ![s] = Gap(want[s])]
    /\ saver' = [saver EXCEPT ![s] = "create"]
    /\ UNCHANGED <<planVars, want, freeze_read, task, retries,
                   assignment, asked, lock>>

\* increase_num_licenses(license_count_gap)
ProvisionCreate(s) ==
    /\ saver[s] = "create"
    /\ unassigned' = unassigned + left[s]
    /\ left' = [left EXCEPT ![s] = 0]
    /\ saver' = [saver EXCEPT ![s] = "idle"]
    /\ UNCHANGED <<allocated, desired, last_freeze_timestamp, want, freeze_read, task, retries,
                   assignment, asked, lock>>

\* provision_licenses_task.delay
ProvisionAsync(s, t) ==
    /\ saver[s] = "check"
    /\ want[s] # 0 /\ freeze_read[s] = "NULL" /\ Gap(want[s]) > BatchSize
    /\ task[t] = "none"
    /\ task' = [task EXCEPT ![t] = "queued"]
    /\ retries' = [retries EXCEPT ![t] = 0]
    /\ saver' = [saver EXCEPT ![s] = "idle"]
    /\ UNCHANGED <<planVars, want, freeze_read, left,
                   assignment, asked, lock>>

-----------------------------------------------------------------------------
\* Mutant: the task runs whether or not it found the plan locked.
TaskGetUnchecked(t) ==
    /\ task[t] = "queued"
    /\ task' = [task EXCEPT ![t] = "set"]
    /\ UNCHANGED <<planVars, saverVars, left, retries, assignment, asked, lock>>

\* subscription_plan_semaphore: the get of the lock ...
TaskGet(t) ==
    /\ task[t] = "queued"
    /\ LockMissed
    /\ AcquireRace \/ \A u \in Tasks : task[u] # "set"
    /\ task' = [task EXCEPT ![t] = "set"]
    /\ UNCHANGED <<planVars, saverVars, left, retries,
                   assignment, asked>>

\* ... which finds the plan locked: the task is retried, or fails for good.
TaskDeferred(t) ==
    /\ task[t] = "queued"
    /\ lock = "held"
    /\ \/ /\ retries[t] < MaxRetries
          /\ retries' = [retries EXCEPT ![t] = @ + 1]
          /\ UNCHANGED task
       \/ /\ retries[t] >= MaxRetries
          /\ task' = [task EXCEPT ![t] = "none"]
          /\ UNCHANGED retries
    /\ UNCHANGED <<planVars, saverVars, left,
                   assignment, asked, lock>>

TaskSet(t) ==
    /\ task[t] = "set"
    /\ LockSet
    /\ task' = [task EXCEPT ![t] = "read"]
    /\ UNCHANGED <<planVars, saverVars, left, retries,
                   assignment, asked>>

\* provision_licenses_task computes the gap once.  It does not look at
\* last_freeze_timestamp.
TaskRead(t) ==
    /\ task[t] = "read"
    /\ SyncOverlap \/ \A s \in Savers : saver[s] # "create"
    /\ left' = [left EXCEPT ![t] = Gap(desired)]
    /\ task' = [task EXCEPT ![t] = IF Gap(desired) = 0 THEN "release" ELSE "batch"]
    /\ UNCHANGED <<planVars, saverVars, retries,
                   assignment, asked, lock>>

\* Mutant: every batch is a full one, the last one too.
TaskBatchFull(t) ==
    /\ task[t] = "batch"
    /\ unassigned' = unassigned + BatchSize
    /\ left' = [left EXCEPT ![t] = IF @ < BatchSize THEN 0 ELSE @ - BatchSize]
    /\ task' = [task EXCEPT ![t] = IF left[t] <= BatchSize THEN "release" ELSE "batch"]
    /\ UNCHANGED <<allocated, desired, last_freeze_timestamp, saverVars, retries,
                   assignment, asked, lock>>

\* One turn of the loop over batch_counts.
TaskBatch(t) ==
    LET n == IF left[t] < BatchSize THEN left[t] ELSE BatchSize IN
    /\ task[t] = "batch"
    /\ unassigned' = unassigned + n
    /\ left' = [left EXCEPT ![t] = @ - n]
    /\ task' = [task EXCEPT ![t] = IF left[t] = n THEN "release" ELSE "batch"]
    /\ UNCHANGED <<allocated, desired, last_freeze_timestamp, saverVars, retries, assignment, asked, lock>>

\* finally: the lock is released, whoever's it is by now.
TaskRelease(t) ==
    /\ task[t] = "release"
    /\ LockReleased
    /\ task' = [task EXCEPT ![t] = "none"]
    /\ UNCHANGED <<planVars, saverVars, left, retries,
                   assignment, asked>>

\* IntegrityError or OperationalError: the lock is released and the task is
\* retried from the start, a limited number of times.
TaskError(t) ==
    /\ Faults
    /\ task[t] \in {"read", "batch"}
    /\ LockReleased
    /\ left' = [left EXCEPT ![t] = 0]
    /\ \/ /\ retries[t] < MaxErrorRetries
          /\ retries' = [retries EXCEPT ![t] = @ + 1]
          /\ task' = [task EXCEPT ![t] = "queued"]
       \/ /\ retries[t] >= MaxErrorRetries
          /\ task' = [task EXCEPT ![t] = "none"]
          /\ UNCHANGED retries
    /\ UNCHANGED <<planVars, saverVars, assignment, asked>>

\* The worker dies: the message was acknowledged, so the task is lost, and the
\* lock stays until it times out.
TaskCrash(t) ==
    /\ Faults
    /\ task[t] = "set" \/ task[t] \in InLock
    /\ left' = [left EXCEPT ![t] = 0]
    /\ task' = [task EXCEPT ![t] = "none"]
    /\ UNCHANGED <<planVars, saverVars, retries,
                   assignment, asked, lock>>

-----------------------------------------------------------------------------
\* An assignment takes the same lock, gives out licenses and releases it.
AssignmentStarts ==
    /\ Assigning /\ assignment = "none"
    /\ lock = "free" /\ LockSet
    /\ AcquireRace \/ \A t \in Tasks : task[t] # "set"
    /\ assignment' = "running"
    /\ UNCHANGED <<planVars, saverVars, task, left, retries, asked>>

AssignmentEnds(n) ==
    /\ assignment = "running"
    /\ n <= unassigned
    /\ allocated' = allocated + n
    /\ unassigned' = unassigned - n
    /\ assignment' = "none"
    /\ LockReleased
    /\ UNCHANGED <<desired, last_freeze_timestamp, saverVars, task, left, retries, asked>>

\* delete_unused_licenses_post_freeze
FreezePlan ==
    /\ Freezable
    /\ unassigned' = 0
    /\ last_freeze_timestamp' = "SET"
    /\ UNCHANGED <<allocated, desired, saverVars, task, left, retries, assignment, asked, lock>>

\* The lock's timeout passes.
ProvisioningLockExpire ==
    /\ LockTimesOut
    /\ OutliveLock \/ (assignment = "none" /\ \A t \in Tasks : task[t] \notin InLock)
    /\ UNCHANGED <<planVars, saverVars, task, left,
                   retries, assignment, asked>>

SaverStep(s) ==
    \/ ProvisionNothing(s)
    \/ ProvisionSync(s)
    \/ ProvisionCreate(s)
    \/ \E t \in Tasks : ProvisionAsync(s, t)

TaskStep(t) ==
    \/ TaskGet(t)
    \/ TaskDeferred(t)
    \/ TaskSet(t)
    \/ TaskRead(t)
    \/ TaskBatch(t)
    \/ TaskRelease(t)

ProvisioningNext ==
    \/ \E s \in Savers :
         \/ LoadPlan(s)
         \/ ReadPlan(s)
         \/ \E n \in 0..MaxDesired : SavePlan(s, n)
         \/ SaverStep(s)
    \/ \E t \in Tasks : TaskStep(t) \/ TaskError(t) \/ TaskCrash(t)
    \/ AssignmentStarts
    \/ \E n \in 0..MaxDesired : AssignmentEnds(n)
    \/ FreezePlan
    \/ ProvisioningLockExpire

ProvisioningSpec == ProvisioningInit /\ [][ProvisioningNext]_pvars

(***************************************************************************)
(* Fairness: a web worker finishes a request that saved the plan, celery   *)
(* delivers a queued task and its worker runs it, an assignment ends, and  *)
(* the cache enforces its timeout.  Nobody has to save the plan.           *)
(***************************************************************************)
FairProvisioningSpec ==
    /\ ProvisioningSpec
    /\ \A s \in Savers : WF_pvars(SaverStep(s))
    /\ \A t \in Tasks : WF_pvars(TaskStep(t))
    /\ WF_pvars(\E n \in 0..MaxDesired : AssignmentEnds(n))
    /\ WF_pvars(ProvisioningLockExpire)

ProvisioningTypeOK ==
    /\ allocated \in Nat /\ unassigned \in Nat
    /\ desired \in Nat /\ asked \in Nat
    /\ last_freeze_timestamp \in Timestamp
    /\ assignment \in {"none", "running"}
    /\ lock \in LockState
    /\ saver \in [Savers -> SaverState]
    /\ want \in [Savers -> Nat]
    /\ freeze_read \in [Savers -> Timestamp]
    /\ task \in [Tasks -> TaskState]
    /\ left \in [Savers \union Tasks -> Nat]
    /\ retries \in [Tasks -> Nat]

(***************************************************************************)
(* The lock does its work when no two callers are between the get and the  *)
(* set, no holder outlives the timeout, and no unlocked provisioning       *)
(* overlaps another one.                                                   *)
(***************************************************************************)
NoOpenWindow == ~AcquireRace /\ ~OutliveLock /\ ~SyncOverlap

(***************************************************************************)
(* A plan never gets more licenses than somebody asked for, although the   *)
(* task does not count them again between its batches: no two of the       *)
(* tasks, retried or not, fill the same gap.                               *)
(***************************************************************************)
NeverMoreThanAsked == NumLicenses <= asked

(***************************************************************************)
(* Why NeverMoreThanAsked holds: the callers of the lock exclude each      *)
(* other, and what is under way fits between the licenses that exist and   *)
(* the number that was asked for.                                          *)
(***************************************************************************)
LockExcludes ==
    /\ assignment = "running" \/ (\E t \in Tasks : task[t] \in InLock) => lock = "held"
    /\ \A t, u \in Tasks :
          task[t] \in {"set"} \union InLock /\ task[u] \in {"set"} \union InLock => t = u
    /\ assignment = "running" => \A t \in Tasks : task[t] \notin {"set"} \union InLock

OneFills ==
    /\ \A s, q \in Savers : saver[s] = "create" /\ saver[q] = "create" => s = q
    /\ \A s \in Savers, t \in Tasks : ~(saver[s] = "create" /\ task[t] = "batch")

WithinAsked ==
    /\ NumLicenses <= asked /\ desired <= asked
    /\ \A s \in Savers : want[s] <= asked
    /\ \A s \in Savers : saver[s] = "create" => NumLicenses + left[s] <= asked
    /\ \A t \in Tasks : task[t] = "batch" => NumLicenses + left[t] <= asked

ProvisioningInv == ProvisioningTypeOK /\ LockExcludes /\ OneFills /\ WithinAsked

(***************************************************************************)
(* The license count reaches the desired number, unless the number is      *)
(* changed or the plan is frozen first.                                    *)
(***************************************************************************)
DesiredReached ==
    \A n \in 1..MaxDesired :
        desired = n ~> NumLicenses >= n \/ desired # n \/ last_freeze_timestamp = "SET"
=============================================================================
