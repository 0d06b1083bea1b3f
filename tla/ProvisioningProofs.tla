------------------------- MODULE ProvisioningProofs -------------------------
(***************************************************************************)
(* Proofs about Provisioning, for any number of requests and of tasks, any *)
(* batch size and any number of retries.                                   *)
(***************************************************************************)
EXTENDS Provisioning, TLAPS

(***************************************************************************)
(* Every step of a request, of a task, of the cache and of an assignment   *)
(* keeps the types, with or without the races on the lock.                 *)
(***************************************************************************)
LEMMA ProvisioningTypeStep ==
    ASSUME ProvisioningTypeOK, [ProvisioningNext]_pvars
    PROVE  ProvisioningTypeOK'
<1> USE ProvisioningAssumption DEF ProvisioningTypeOK, SaverState, TaskState, Timestamp, LockState
<1>1. CASE UNCHANGED pvars
  BY <1>1 DEF pvars, planVars, saverVars
<1>2. ASSUME NEW s \in Savers, LoadPlan(s) \/ ReadPlan(s) \/ SaverStep(s)
      PROVE  ProvisioningTypeOK'
  BY <1>2 DEF LoadPlan, ReadPlan, SaverStep, ProvisionNothing, ProvisionSync,
     ProvisionCreate, ProvisionAsync, Gap, NumLicenses, planVars
<1>3. ASSUME NEW s \in Savers, NEW n \in 0..MaxDesired, SavePlan(s, n)
      PROVE  ProvisioningTypeOK'
  BY <1>3 DEF SavePlan
<1>4. ASSUME NEW t \in Tasks, TaskStep(t) \/ TaskError(t) \/ TaskCrash(t)
      PROVE  ProvisioningTypeOK'
  <2> USE DEF planVars, saverVars
  <2>1. CASE TaskGet(t) \/ TaskDeferred(t) \/ TaskSet(t) \/ TaskRelease(t)
    BY <2>1 DEF TaskGet, TaskDeferred, TaskSet, TaskRelease, LockMissed, LockSet,
       LockReleased
  <2>2. CASE TaskRead(t)
    BY <2>2 DEF TaskRead, Gap, NumLicenses
  <2>3. CASE TaskBatch(t)
    BY <2>3 DEF TaskBatch
  <2>4. CASE TaskError(t) \/ TaskCrash(t)
    BY <2>4 DEF TaskError, TaskCrash, LockReleased
  <2> QED
    BY <1>4, <2>1, <2>2, <2>3, <2>4 DEF TaskStep
<1>5. CASE AssignmentStarts \/ FreezePlan \/ ProvisioningLockExpire
  BY <1>5 DEF AssignmentStarts, FreezePlan, ProvisioningLockExpire, LockSet,
     LockTimesOut, planVars, saverVars
<1>6. ASSUME NEW n \in 0..MaxDesired, AssignmentEnds(n)
      PROVE  ProvisioningTypeOK'
  BY <1>6 DEF AssignmentEnds, LockReleased, saverVars
<1> QED
  BY <1>1, <1>2, <1>3, <1>4, <1>5, <1>6 DEF ProvisioningNext

(***************************************************************************)
(* While no window of the lock is open, tasks and assignments exclude each *)
(* other: only a caller that found the entry missing sets it, and only the *)
(* one that holds it removes it.                                           *)
(***************************************************************************)
LEMMA LockExcludesStep ==
    ASSUME NoOpenWindow, ProvisioningTypeOK, LockExcludes, [ProvisioningNext]_pvars
    PROVE  LockExcludes'
<1> USE DEF ProvisioningTypeOK, TaskState, LockState, LockExcludes, InLock
<1>1. CASE UNCHANGED pvars
  BY <1>1 DEF pvars, planVars, saverVars
<1>2. ASSUME NEW s \in Savers,
             LoadPlan(s) \/ ReadPlan(s) \/ SaverStep(s)
               \/ \E n \in 0..MaxDesired : SavePlan(s, n)
      PROVE  LockExcludes'
  BY <1>2 DEF LoadPlan, ReadPlan, SavePlan, SaverStep, ProvisionNothing, ProvisionSync,
     ProvisionCreate, ProvisionAsync
<1>3. ASSUME NEW t \in Tasks, TaskStep(t) \/ TaskError(t) \/ TaskCrash(t)
      PROVE  LockExcludes'
  <2>1. CASE TaskGet(t)
    BY <2>1 DEF TaskGet, LockMissed, NoOpenWindow
  <2>2. CASE TaskSet(t)
    BY <2>2 DEF TaskSet, LockSet
  <2>3. CASE TaskRelease(t) \/ TaskError(t)
    BY <2>3 DEF TaskRelease, TaskError, LockReleased
  <2>4. CASE TaskDeferred(t) \/ TaskRead(t) \/ TaskBatch(t) \/ TaskCrash(t)
    BY <2>4 DEF TaskDeferred, TaskRead, TaskBatch, TaskCrash
  <2> QED
    BY <1>3, <2>1, <2>2, <2>3, <2>4 DEF TaskStep
<1>4. CASE AssignmentStarts
  BY <1>4 DEF AssignmentStarts, LockSet, NoOpenWindow
<1>5. ASSUME NEW n \in 0..MaxDesired, AssignmentEnds(n)
      PROVE  LockExcludes'
  BY <1>5 DEF AssignmentEnds, LockReleased
<1>6. CASE FreezePlan \/ ProvisioningLockExpire
  BY <1>6 DEF FreezePlan, ProvisioningLockExpire, LockTimesOut, NoOpenWindow
<1> QED
  BY <1>1, <1>2, <1>3, <1>4, <1>5, <1>6 DEF ProvisioningNext

(***************************************************************************)
(* Then no two of the requests and tasks create licenses for the same gap. *)
(***************************************************************************)
LEMMA OneFillsStep ==
    ASSUME NoOpenWindow, ProvisioningTypeOK, OneFills, [ProvisioningNext]_pvars
    PROVE  OneFills'
<1> USE DEF ProvisioningTypeOK, SaverState, TaskState, OneFills
<1>1. CASE UNCHANGED pvars
  BY <1>1 DEF pvars, saverVars
<1>2. ASSUME NEW s \in Savers,
             LoadPlan(s) \/ ReadPlan(s) \/ SaverStep(s)
               \/ \E n \in 0..MaxDesired : SavePlan(s, n)
      PROVE  OneFills'
  <2>1. CASE ProvisionSync(s)
    BY <2>1 DEF ProvisionSync, Alone, InLock, NoOpenWindow
  <2>2. CASE LoadPlan(s) \/ ReadPlan(s) \/ (\E n \in 0..MaxDesired : SavePlan(s, n))
    BY <2>2 DEF LoadPlan, ReadPlan, SavePlan
  <2>3. CASE ProvisionNothing(s) \/ ProvisionCreate(s)
               \/ \E t \in Tasks : ProvisionAsync(s, t)
    BY <2>3 DEF ProvisionNothing, ProvisionCreate, ProvisionAsync
  <2> QED
    BY <1>2, <2>1, <2>2, <2>3 DEF SaverStep
<1>3. ASSUME NEW t \in Tasks, TaskStep(t) \/ TaskError(t) \/ TaskCrash(t)
      PROVE  OneFills'
  <2> USE DEF saverVars
  <2>1. CASE TaskRead(t)
    BY <2>1 DEF TaskRead, NoOpenWindow
  <2>2. CASE TaskGet(t) \/ TaskDeferred(t) \/ TaskSet(t) \/ TaskBatch(t) \/ TaskRelease(t)
    BY <2>2 DEF TaskGet, TaskDeferred, TaskSet, TaskBatch, TaskRelease
  <2>3. CASE TaskError(t) \/ TaskCrash(t)
    BY <2>3 DEF TaskError, TaskCrash
  <2> QED
    BY <1>3, <2>1, <2>2, <2>3 DEF TaskStep
<1>4. CASE AssignmentStarts \/ FreezePlan \/ ProvisioningLockExpire
            \/ \E n \in 0..MaxDesired : AssignmentEnds(n)
  BY <1>4 DEF AssignmentStarts, FreezePlan, ProvisioningLockExpire, AssignmentEnds, saverVars
<1> QED
  BY <1>1, <1>2, <1>3, <1>4 DEF ProvisioningNext

(***************************************************************************)
(* What exists, together with what the one that fills the gap has still to *)
(* create, stays within the number that was asked for.                     *)
(***************************************************************************)
LEMMA WithinAskedStep ==
    ASSUME ProvisioningInv, [ProvisioningNext]_pvars
    PROVE  WithinAsked'
<1> USE ProvisioningAssumption
    DEF ProvisioningInv, ProvisioningTypeOK, SaverState, TaskState, OneFills, WithinAsked,
        NumLicenses
<1>1. CASE UNCHANGED pvars
  BY <1>1 DEF pvars, planVars, saverVars
<1>2. ASSUME NEW s \in Savers,
             LoadPlan(s) \/ ReadPlan(s) \/ SaverStep(s)
               \/ \E n \in 0..MaxDesired : SavePlan(s, n)
      PROVE  WithinAsked'
  <2> USE DEF planVars
  <2>1. CASE ProvisionSync(s)
    BY <2>1 DEF ProvisionSync, Gap
  <2>2. CASE ProvisionCreate(s)
    BY <2>2 DEF ProvisionCreate
  <2>3. CASE LoadPlan(s) \/ ReadPlan(s)
    BY <2>3 DEF LoadPlan, ReadPlan
  <2>4. ASSUME NEW n \in 0..MaxDesired, SavePlan(s, n)
        PROVE  WithinAsked'
    BY <2>4 DEF SavePlan
  <2>5. CASE ProvisionNothing(s) \/ \E t \in Tasks : ProvisionAsync(s, t)
    BY <2>5 DEF ProvisionNothing, ProvisionAsync
  <2> QED
    BY <1>2, <2>1, <2>2, <2>3, <2>4, <2>5 DEF SaverStep
<1>3. ASSUME NEW t \in Tasks, TaskStep(t) \/ TaskError(t) \/ TaskCrash(t)
      PROVE  WithinAsked'
  <2> USE DEF planVars, saverVars
  <2>1. CASE TaskRead(t)
    BY <2>1 DEF TaskRead, Gap
  <2>2. CASE TaskBatch(t)
    BY <2>2 DEF TaskBatch, LockExcludes, InLock
  <2>3. CASE TaskGet(t) \/ TaskDeferred(t) \/ TaskSet(t) \/ TaskRelease(t)
    BY <2>3 DEF TaskGet, TaskDeferred, TaskSet, TaskRelease
  <2>4. CASE TaskError(t) \/ TaskCrash(t)
    BY <2>4 DEF TaskError, TaskCrash
  <2> QED
    BY <1>3, <2>1, <2>2, <2>3, <2>4 DEF TaskStep
<1>4. CASE AssignmentStarts \/ FreezePlan \/ ProvisioningLockExpire
  BY <1>4 DEF AssignmentStarts, FreezePlan, ProvisioningLockExpire, planVars, saverVars
<1>5. ASSUME NEW n \in 0..MaxDesired, AssignmentEnds(n)
      PROVE  WithinAsked'
  BY <1>5 DEF AssignmentEnds, saverVars
<1> QED
  BY <1>1, <1>2, <1>3, <1>4, <1>5 DEF ProvisioningNext

(***************************************************************************)
(* The states that provisioning reaches are well-typed, whatever windows   *)
(* are open.                                                               *)
(***************************************************************************)
THEOREM ProvisioningTyped == ProvisioningSpec => []ProvisioningTypeOK
<1>1. ProvisioningInit => ProvisioningTypeOK
  BY DEF ProvisioningInit, ProvisioningTypeOK, SaverState, TaskState, Timestamp, LockInit,
     LockState
<1> QED
  BY <1>1, ProvisioningTypeStep, PTL DEF ProvisioningSpec

(***************************************************************************)
(* With the lock's windows closed, no plan ever has more licenses than     *)
(* somebody asked for, although provision_licenses_task counts them only   *)
(* once: crashes, retries and reassigned desired numbers included.         *)
(***************************************************************************)
THEOREM NeverOverProvisioned ==
    NoOpenWindow => (ProvisioningSpec => []NeverMoreThanAsked)
<1> SUFFICES ASSUME NoOpenWindow PROVE ProvisioningSpec => []NeverMoreThanAsked
  OBVIOUS
<1>1. ProvisioningInit => ProvisioningInv
  BY DEF ProvisioningInit, ProvisioningInv, ProvisioningTypeOK, SaverState, TaskState,
     Timestamp, LockInit, LockState, LockExcludes, OneFills, WithinAsked, NumLicenses, InLock
<1>2. ProvisioningInv /\ [ProvisioningNext]_pvars => ProvisioningInv'
  BY ProvisioningTypeStep, LockExcludesStep, OneFillsStep, WithinAskedStep DEF ProvisioningInv
<1>3. ProvisioningInv => NeverMoreThanAsked
  BY DEF ProvisioningInv, WithinAsked, NeverMoreThanAsked
<1> QED
  BY <1>1, <1>2, <1>3, PTL DEF ProvisioningSpec
=============================================================================
