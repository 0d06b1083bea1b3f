-------------------------- MODULE AssignmentProofs --------------------------
(***************************************************************************)
(* What the plan's lock is worth while none of its windows is open: one    *)
(* assignment at a time, one license for each learner, and no license      *)
(* handed from one learner to another.                                     *)
(***************************************************************************)
EXTENDS LicensePlanProofs

Elsewhere == {"idle", "choose", "clean", "save", "dups", "reset", "select", "commit", "delete"}

\* Request r is outside the assign endpoint, and its step is its own.
MovesElsewhere(r) ==
    /\ \E label \in Elsewhere : pc' = [pc EXCEPT ![r] = label]
    /\ \A q \in Requests \ {r} : todo'[q] = todo[q] /\ view'[q] = view[q]

\* The requests of the other kinds are never inside the assign endpoint.
LEMMA OtherRequests ==
    ASSUME TypeOK, AutoApplyNext \/ ActivationNext \/ RevocationNext \/ FreezeNext
    PROVE  \E r \in Requests : MovesElsewhere(r)
<1> USE DEF Goto, Done, TypeOK, TableTypeOK, MovesElsewhere, Elsewhere, localVars
<1>1. ASSUME NEW r \in Requests, FullClean(r) \/ SaveRow(r)
      PROVE  MovesElsewhere(r)
  BY <1>1 DEF FullClean, SaveRow
<1>2. ASSUME NEW r \in AutoAppliers,
             (\E e \in Emails : AutoApplyCheck(r, e)) \/ AutoApplyPick(r) \/ AutoApplyNone(r)
      PROVE  MovesElsewhere(r)
  BY <1>2 DEF AutoApplyCheck, AutoApplyPick, AutoApplyNone
<1>3. ASSUME NEW r \in Activators,
             \/ \E e \in Emails : ActivateLookup(r, e)
             \/ ActivateSelect(r) \/ ActivateGone(r) \/ ActivateReady(r)
      PROVE  MovesElsewhere(r)
  BY <1>3 DEF ActivateLookup, ActivateSelect, ActivateGone, ActivateReady
<1>4. ASSUME NEW r \in Activators, ActivateReset(r)
      PROVE  MovesElsewhere(r)
  <2>1. pc' = [pc EXCEPT ![r] = "reset"]
    BY <1>4 DEF ActivateReset
  <2> QED
    BY <1>4, <2>1 DEF ActivateReset
<1>5. ASSUME NEW r \in Revokers,
             \/ \E emails \in SUBSET Emails : RevokeStart(r, emails)
             \/ RevokeSelect(r) \/ RevokeAllSelect(r) \/ RevokeCommit(r) \/ RevokeRollback(r)
      PROVE  MovesElsewhere(r)
  BY <1>5 DEF RevokeStart, RevokeSelect, RevokeAllSelect, RevokeCommit, RevokeRollback
<1>6. ASSUME NEW r \in Freezers, FreezeCollect(r) \/ FreezeDelete(r)
      PROVE  MovesElsewhere(r)
  BY <1>6 DEF FreezeCollect, FreezeDelete
<1> HIDE DEF MovesElsewhere
<1> QED
  BY <1>1, <1>2, <1>3, <1>4, <1>5, <1>6
  DEF AutoApplyNext, ActivationNext, ActivationStep, RevocationNext, FreezeNext, Requests

(***************************************************************************)
(* With no open window, a request that finds the cache empty is alone from *)
(* its get to its release, or to its death.                                *)
(***************************************************************************)
LEMMA LockStep ==
    ASSUME NoOpenWindow, TypeOK, LockInv, [Next]_vars
    PROVE  LockInv'
<1> USE DEF LockInv, InBody, Holding, TypeOK
<1>0. Assigners \subseteq Requests
  BY DEF Requests
<1>1. CASE UNCHANGED vars
  BY <1>1 DEF vars
<1>2. CASE UNCHANGED lock /\ (AutoApplyNext \/ ActivationNext \/ RevocationNext \/ FreezeNext)
  BY <1>0, <1>2, OtherRequests DEF MovesElsewhere, Elsewhere
<1>3. ASSUME NEW r \in Assigners, NEW emails \in SUBSET Emails, AssignGet(r, emails)
      PROVE  LockInv'
  BY <1>0, <1>3 DEF AssignGet, LockMissed, NoOpenWindow, Goto
<1>4. ASSUME NEW r \in Assigners, AssignStep(r)
      PROVE  LockInv'
  <2> USE <1>0 DEF Goto
  <2>1. CASE AssignSet(r)
    BY <2>1 DEF AssignSet, LockSet
  <2>2. CASE AssignTrim(r) \/ AssignCount(r) \/ AssignPick(r)
    BY <2>2 DEF AssignTrim, AssignCount, AssignPick
  <2>3. CASE AssignWrite(r) \/ AssignFail(r)
    BY <2>3 DEF AssignWrite, AssignFail
  <2>4. CASE AssignRelease(r)
    BY <2>4 DEF AssignRelease, LockReleased, Done
  <2> QED
    BY <1>4, <2>1, <2>2, <2>3, <2>4 DEF AssignStep
<1>5. ASSUME NEW r \in Assigners, AssignCrash(r)
      PROVE  LockInv'
  BY <1>0, <1>5 DEF AssignCrash, Done, Goto
<1>6. CASE LockExpire
  BY <1>6 DEF LockExpire, LockTimesOut, NoOpenWindow
<1> QED
  BY <1>1, <1>2, <1>3, <1>4, <1>5, <1>6 DEF Next, AssignNext

-----------------------------------------------------------------------------
\* No license is allocated anew by the step, or to another learner.
AllocationKept ==
    \A l \in Licenses : Allocated(l)' =>
       Allocated(l) /\ licenses'[l].user_email = licenses[l].user_email

LEMMA UntouchedKept ==
    ASSUME UNCHANGED tableVars
    PROVE  AllocationKept
BY DEF tableVars, AllocationKept, Allocated

\* An activation changes the status of a license, never its holder.
LEMMA ActivationKeeps ==
    ASSUME AssignmentInv, ActivationNext
    PROVE  AllocationKept
<1>1. PICK r \in Activators : (\E e \in Emails : ActivateLookup(r, e)) \/ ActivationStep(r)
  BY DEF ActivationNext
<1>2. CASE UNCHANGED tableVars
  BY <1>2, UntouchedKept
<1>3. CASE SaveRow(r)
  BY <1>3 DEF SaveRow, Saved, InMemory, AllocationKept, Allocated, AssignmentInv, ActivationInv
<1>4. CASE ActivateReset(r)
  BY <1>4 DEF ActivateReset, Duplicates, AssignmentInv, ActivationInv
<1> QED
  BY <1>1, <1>2, <1>3, <1>4 DEF ActivationStep, ActivateLookup, ActivateSelect, ActivateGone,
     ActivateReady, FullClean

\* Revocations and freezes take licenses away only.
LEMMA RevocationKeeps ==
    ASSUME RevocationNext \/ FreezeNext
    PROVE  AllocationKept
<1> USE DEF AllocationKept, Allocated
<1>1. CASE UNCHANGED tableVars
  BY <1>1, UntouchedKept
<1>2. ASSUME NEW r \in Revokers, RevokeCommit(r)
      PROVE  AllocationKept
  BY <1>2 DEF RevokeCommit, RevokedRow, UnassignedRow
<1>3. ASSUME NEW r \in Freezers, FreezeDelete(r)
      PROVE  AllocationKept
  BY <1>3 DEF FreezeDelete, DeletedRow
<1> QED
  BY <1>1, <1>2, <1>3 DEF RevocationNext, FreezeNext, RevokeStart, RevokeSelect,
     RevokeAllSelect, RevokeRollback, FreezeCollect

\* AssignmentInv without what it says of activations.
SeatsInv == CoherentInv /\ LockInv /\ TrimmedInv /\ PickedInv /\ UniqueHolder

\* So these steps leave alone what an assignment has seen.
LEMMA OtherRequestsTrimmed ==
    ASSUME SeatsInv, AllocationKept,
           AutoApplyNext \/ ActivationNext \/ RevocationNext \/ FreezeNext
    PROVE  TrimmedInv' /\ PickedInv' /\ UniqueHolder'
<1> USE DEF SeatsInv, CoherentInv, AllocationKept
<1>1. PICK r \in Requests : MovesElsewhere(r)
  BY OtherRequests
<1>2. \A q \in Assigners : pc'[q] \in {"count", "pick", "write"} =>
         q # r /\ pc'[q] = pc[q] /\ todo'[q] = todo[q] /\ view'[q] = view[q]
  BY <1>1 DEF MovesElsewhere, Elsewhere, TypeOK, Requests
<1>3. TrimmedInv'
  BY <1>2 DEF TrimmedInv
<1>4. PickedInv'
  BY <1>2 DEF PickedInv, InMemory
<1>5. UniqueHolder'
  BY DEF UniqueHolder
<1> QED
  BY <1>3, <1>4, <1>5

\* bulk_update writes free licenses, under trimmed e-mails.
LEMMA WriteSafe ==
    ASSUME SeatsInv, NEW r \in Assigners, AssignWrite(r)
    PROVE  /\ UniqueHolder'
           /\ \A l \in Licenses : Allocated(l) => licenses'[l] = licenses[l]
<1> DEFINE written == InMemory(r) \intersect Stored
<1>1. \A l \in Licenses : l \notin written => licenses'[l] = licenses[l]
  BY DEF AssignWrite
<1>2. \A l \in written : /\ licenses'[l].user_email = view[r][l].user_email
                        /\ licenses'[l].user_email \in todo[r]
                        /\ ~Allocated(l)
  BY DEF AssignWrite, KeepLmsUser, SeatsInv, PickedInv, InMemory
<1>3. \A l, m \in written : view[r][l].user_email = view[r][m].user_email => l = m
  BY DEF AssignWrite, SeatsInv, PickedInv
<1>4. \A l \in Licenses : Allocated(l) => licenses[l].user_email \notin todo[r]
  BY DEF AssignWrite, SeatsInv, TrimmedInv
<1>5. UniqueHolder
  BY DEF SeatsInv
<1> HIDE DEF written
<1>6. UniqueHolder'
  BY <1>1, <1>2, <1>3, <1>4, <1>5 DEF UniqueHolder, Allocated
<1> QED
  BY <1>1, <1>2, <1>6

\* The steps of an assignment keep what it has seen.
LEMMA AssignKeepsSeats ==
    ASSUME SeatsInv, AssignNext
    PROVE  TrimmedInv' /\ PickedInv' /\ UniqueHolder'
<1> USE DEF SeatsInv, CoherentInv, TypeOK, TableTypeOK
<1>0. Assigners \subseteq Requests
  BY DEF Requests
<1>1. ASSUME UNCHANGED tableVars
      PROVE  UniqueHolder'
  BY <1>1 DEF tableVars, UniqueHolder, Allocated
<1>2. ASSUME NEW r \in Assigners, UNCHANGED tableVars, NEW label,
             label \in {"idle", "set", "trim", "release"},
             pc' = [pc EXCEPT ![r] = label],
             \A q \in Requests \ {r} : todo'[q] = todo[q] /\ view'[q] = view[q]
      PROVE  TrimmedInv' /\ PickedInv'
  BY <1>0, <1>2 DEF TrimmedInv, PickedInv, InMemory, tableVars, Allocated
<1>3. ASSUME NEW r \in Assigners, NEW emails \in SUBSET Emails, AssignGet(r, emails)
      PROVE  TrimmedInv' /\ PickedInv' /\ UniqueHolder'
  BY <1>1, <1>2, <1>3 DEF AssignGet, Goto
<1>4. ASSUME NEW r \in Assigners, AssignSet(r) \/ AssignFail(r)
      PROVE  TrimmedInv' /\ PickedInv' /\ UniqueHolder'
  BY <1>1, <1>2, <1>4 DEF AssignSet, AssignFail, Goto, localVars
<1>5. ASSUME NEW r \in Assigners, AssignRelease(r) \/ AssignCrash(r)
      PROVE  TrimmedInv' /\ PickedInv' /\ UniqueHolder'
  BY <1>0, <1>1, <1>2, <1>5 DEF AssignRelease, AssignCrash, Done, Goto
<1>6. ASSUME NEW r \in Assigners, AssignTrim(r)
      PROVE  TrimmedInv' /\ PickedInv' /\ UniqueHolder'
  <2>1. TrimmedInv'
    BY <1>0, <1>6 DEF AssignTrim, Goto, TrimmedInv, AllocatedTo, tableVars, Allocated
  <2>2. PickedInv'
    BY <1>0, <1>6 DEF AssignTrim, Goto, PickedInv, InMemory, tableVars, Allocated
  <2> QED
    BY <1>1, <1>6, <2>1, <2>2 DEF AssignTrim
<1>7. ASSUME NEW r \in Assigners, AssignCount(r)
      PROVE  TrimmedInv' /\ PickedInv' /\ UniqueHolder'
  <2>1. TrimmedInv' /\ PickedInv'
    BY <1>0, <1>7
    DEF AssignCount, Goto, TrimmedInv, PickedInv, InMemory, tableVars, localVars, Allocated
  <2> QED
    BY <1>1, <1>7, <2>1 DEF AssignCount
<1>8. ASSUME NEW r \in Assigners, AssignPick(r)
      PROVE  TrimmedInv' /\ PickedInv' /\ UniqueHolder'
  <2>1. PICK L \in SUBSET Unassigned : \E email \in [L -> todo[r]] :
           /\ \A l, m \in L : email[l] = email[m] => l = m
           /\ view' = [view EXCEPT ![r] = RowsOf(L, [l \in L |-> AssignedRow(email[l])])]
    BY <1>8 DEF AssignPick, Slices
  <2>2. PICK email \in [L -> todo[r]] :
           /\ \A l, m \in L : email[l] = email[m] => l = m
           /\ view' = [view EXCEPT ![r] = RowsOf(L, [l \in L |-> AssignedRow(email[l])])]
    BY <2>1
  <2>3. TrimmedInv'
    BY <1>0, <1>8 DEF AssignPick, Goto, TrimmedInv, tableVars, Allocated
  <2>4. \A l \in Licenses : view'[r][l].status # "absent" =>
           l \in L /\ view'[r][l].user_email = email[l]
    BY <1>0, <2>2 DEF RowsOf, AssignedRow, AbsentRow
  <2>5. \A l \in L : ~Allocated(l)
    BY DEF Unassigned, Allocated
  <2>6. \A q \in Requests \ {r} : view'[q] = view[q]
    BY <2>2
  <2>7. PickedInv'
    <3>1. \A l \in Licenses : Allocated(l)' <=> Allocated(l)
      BY <1>8 DEF AssignPick, tableVars, Allocated
    <3>2. \A l, m \in InMemory(r)' :
             /\ ~Allocated(l)
             /\ view'[r][l].user_email \in todo[r]
             /\ view'[r][l].user_email = view'[r][m].user_email => l = m
      <4>1. \A l \in InMemory(r)' : l \in L /\ view'[r][l].user_email = email[l]
        BY <2>4 DEF InMemory
      <4>2. \A l, m \in L : email[l] \in todo[r] /\ (email[l] = email[m] => l = m)
        BY <2>2
      <4> HIDE DEF SeatsInv
      <4> QED
        BY <2>5, <4>1, <4>2
    <3>3. \A q \in Assigners \ {r} : pc'[q] = pc[q] /\ InMemory(q)' = InMemory(q)
      BY <1>0, <1>8, <2>6 DEF AssignPick, Goto, InMemory
    <3>4. todo' = todo
      BY <1>8 DEF AssignPick
    <3>5. \A l : \A q : l \in InMemory(q)' => l \in Licenses
      BY DEF InMemory
    <3> QED
      BY <1>0, <2>6, <3>1, <3>2, <3>3, <3>4, <3>5 DEF PickedInv
  <2>8. UniqueHolder'
    BY <1>1, <1>8 DEF AssignPick
  <2> QED
    BY <2>3, <2>7, <2>8
<1>9. ASSUME NEW r \in Assigners, AssignWrite(r)
       PROVE  TrimmedInv' /\ PickedInv' /\ UniqueHolder'
  <2>1. \A q \in Assigners : pc'[q] \notin {"count", "pick", "write"}
    BY <1>0, <1>9 DEF AssignWrite, Goto, LockInv, InBody, Holding
  <2> QED
    BY <1>9, <2>1, WriteSafe DEF TrimmedInv, PickedInv
<1>10. CASE LockExpire
  BY <1>1, <1>10 DEF LockExpire, tableVars, localVars, TrimmedInv, PickedInv, InMemory,
     Allocated
<1> QED
  BY <1>3, <1>4, <1>5, <1>6, <1>7, <1>8, <1>9, <1>10 DEF AssignNext, AssignStep

\* The steps of an assignment leave the other requests and held licenses alone.
LEMMA AssignOutside ==
    ASSUME SeatsInv, AssignNext
    PROVE  /\ \A q \in Activators \union Revokers : pc'[q] = pc[q] /\ view'[q] = view[q]
           /\ \A l \in Licenses : Allocated(l) => licenses'[l] = licenses[l]
<1> USE DEF SeatsInv, CoherentInv, TypeOK, TableTypeOK
<1>0. \A r \in Assigners, q \in Activators \union Revokers : q # r /\ r \in Requests /\ q \in Requests
  BY KindsDisjoint DEF Requests
<1>1. ASSUME NEW r \in Assigners,
             (\E emails \in SUBSET Emails : AssignGet(r, emails)) \/ AssignStep(r) \/ AssignCrash(r)
      PROVE  \A q \in Activators \union Revokers : pc'[q] = pc[q] /\ view'[q] = view[q]
  BY <1>0, <1>1 DEF AssignStep, AssignGet, AssignSet, AssignTrim, AssignCount, AssignPick,
     AssignWrite, AssignFail, AssignRelease, AssignCrash, Done, Goto, localVars
<1>2. ASSUME NEW r \in Assigners, AssignWrite(r)
      PROVE  \A l \in Licenses : Allocated(l) => licenses'[l] = licenses[l]
  <2> HIDE DEF SeatsInv
  <2> QED
    BY <1>2, WriteSafe
<1>3. licenses' = licenses \/ \E r \in Assigners : AssignWrite(r)
  BY DEF AssignNext, AssignStep, AssignGet, AssignSet, AssignTrim, AssignCount, AssignPick,
     AssignFail, AssignRelease, AssignCrash, LockExpire, tableVars
<1> QED
  BY <1>1, <1>2, <1>3 DEF AssignNext, LockExpire, localVars

\* A learner who is unique has one license to activate: nothing is reset.
LEMMA SelectsOwnLicense ==
    ASSUME SeatsInv, NEW r \in Activators, ActivateSelect(r)
    PROVE  \A l \in InMemory(r)' :
              /\ view'[r][l].status = "activated"
              /\ Allocated(l) /\ licenses[l].user_email = view'[r][l].user_email
<1> USE DEF SeatsInv, CoherentInv, TypeOK, TableTypeOK
<1>0. r \in Requests
  BY DEF Requests
<1>1. PICK e \in todo[r] : \E keep \in Unrevoked(e) :
         view' = [view EXCEPT ![r] =
                    RowsOf({l \in Unrevoked(e) : l # keep \/ licenses[l].status = "assigned"},
                           [l \in Licenses |-> IF l = keep THEN ActivatedRow(e)
                                               ELSE UnassignedRow])]
  BY DEF ActivateSelect
<1>2. PICK keep \in Unrevoked(e) :
         view' = [view EXCEPT ![r] =
                    RowsOf({l \in Unrevoked(e) : l # keep \/ licenses[l].status = "assigned"},
                           [l \in Licenses |-> IF l = keep THEN ActivatedRow(e)
                                               ELSE UnassignedRow])]
  BY <1>1
<1>3. e \in Emails
  BY <1>0
<1>4. \A l \in Unrevoked(e) : Allocated(l) /\ licenses[l].user_email = e
  <2>1. \A l \in Licenses : licenses[l].status = "unassigned" => licenses[l].user_email # e
    BY <1>3, TableAssumption DEF HoldersCoherent, RowCoherent, UnassignedRow
  <2>2. \A l \in Licenses : licenses[l].status \in Status
    BY DEF Row
  <2> QED
    BY <2>1, <2>2 DEF Unrevoked, Stored, Allocated, Status
<1>5. \A l \in Unrevoked(e) : l = keep
  BY <1>4 DEF UniqueHolder, Unrevoked, Stored
<1>6. \A l \in InMemory(r)' : l = keep /\ view'[r][l] = ActivatedRow(e)
  BY <1>0, <1>2, <1>5 DEF InMemory, RowsOf, AbsentRow
<1> QED
  BY <1>4, <1>6 DEF ActivatedRow

LEMMA ActivationKeepsInv ==
    ASSUME AssignmentInv, ActivationNext
    PROVE  ActivationInv'
<1> USE DEF AssignmentInv, CoherentInv, TypeOK, TableTypeOK
<1>1. PICK r \in Activators : (\E e \in Emails : ActivateLookup(r, e)) \/ ActivationStep(r)
  BY DEF ActivationNext
<1>0. Activators \subseteq Requests
  BY DEF Requests
<1> USE DEF Goto
<1>2. ASSUME UNCHANGED <<tableVars, view>>, NEW label \in {"dups", "clean", "save"},
             pc' = [pc EXCEPT ![r] = label],
             label \in {"clean", "save"} => pc[r] \in {"reset", "clean"}
      PROVE  ActivationInv'
  BY <1>0, <1>2 DEF ActivationInv, InMemory, tableVars, Allocated
<1>3. ASSUME UNCHANGED tableVars, Done(r)
      PROVE  ActivationInv'
  BY <1>0, <1>3 DEF Done, ActivationInv, InMemory, tableVars, Allocated
<1>4. CASE \E e \in Emails : ActivateLookup(r, e)
  BY <1>2, <1>4 DEF ActivateLookup
<1>5. CASE ActivateSelect(r)
  <2>1. /\ pc' = [pc EXCEPT ![r] = "reset"]
        /\ UNCHANGED tableVars
        /\ \A q \in Requests \ {r} : view'[q] = view[q]
    BY <1>5 DEF ActivateSelect
  <2>2. SeatsInv
    BY DEF SeatsInv
  <2> QED
    BY <1>0, <1>5, <2>1, <2>2, SelectsOwnLicense DEF ActivationInv, InMemory, tableVars, Allocated
<1>6. CASE ActivateGone(r)
  BY <1>3, <1>6 DEF ActivateGone
<1>7. CASE ActivateReset(r)
  BY <1>7 DEF ActivateReset, Duplicates, ActivationInv
<1>8. CASE ActivateReady(r)
  BY <1>2, <1>3, <1>8 DEF ActivateReady, localVars
<1>9. CASE FullClean(r)
  BY <1>2, <1>3, <1>9 DEF FullClean, localVars
<1>10. CASE SaveRow(r)
  <2>1. \A l \in Licenses : Allocated(l) =>
           Allocated(l)' /\ licenses'[l].user_email = licenses[l].user_email
    BY <1>10 DEF SaveRow, Saved, ActivationInv, InMemory, Allocated
  <2>2. /\ pc' = [pc EXCEPT ![r] = "idle"]
        /\ \A q \in Requests \ {r} : view'[q] = view[q]
    BY <1>10 DEF SaveRow, Done
  <2> QED
    BY <1>0, <2>1, <2>2 DEF ActivationInv, InMemory
<1> QED
  BY <1>1, <1>4, <1>5, <1>6, <1>7, <1>8, <1>9, <1>10 DEF ActivationStep

LEMMA AssignmentInit == Init => AssignmentInv
<1>1. Init => LockInv /\ TrimmedInv /\ PickedInv /\ ActivationInv
  BY DEF Init, InitTable, LockInv, InBody, Holding, TrimmedInv, PickedInv, ActivationInv,
     Requests
<1>2. Init => UniqueHolder
  BY DEF Init, InitTable, UniqueHolder, Allocated, UnassignedRow, AbsentRow
<1> QED
  BY <1>1, <1>2, CoherentInit DEF AssignmentInv

LEMMA AssignmentStep ==
    ASSUME NoOpenWindow, OnlyAssignmentAllocates, AssignmentInv, [Next]_vars
    PROVE  AssignmentInv'
<1>1. CoherentInv' /\ LockInv'
  BY CoherentStep, LockStep DEF AssignmentInv, CoherentInv
<1>2. CASE UNCHANGED vars
  BY <1>1, <1>2
  DEF vars, AssignmentInv, TrimmedInv, PickedInv, ActivationInv, UniqueHolder, InMemory, Allocated
<1>3. CASE AssignNext
  <2>1. SeatsInv
    BY DEF SeatsInv, AssignmentInv
  <2>2. ActivationInv'
    BY <1>3, <2>1, AssignOutside DEF AssignmentInv, ActivationInv, InMemory, Allocated
  <2> QED
    BY <1>1, <1>3, <2>1, <2>2, AssignKeepsSeats DEF AssignmentInv
<1>4. CASE AutoApplyNext
  BY <1>4 DEF AutoApplyNext, OnlyAssignmentAllocates
<1>5. CASE ActivationNext
  BY <1>1, <1>5, ActivationKeeps, ActivationKeepsInv, OtherRequestsTrimmed DEF AssignmentInv, SeatsInv
<1>6. CASE RevocationNext \/ FreezeNext
  <2>1. ActivationInv'
    BY <1>6 DEF RevocationNext, FreezeNext, OnlyAssignmentAllocates, ActivationInv
  <2> QED
    BY <1>1, <1>6, <2>1, RevocationKeeps, OtherRequestsTrimmed DEF AssignmentInv, SeatsInv
<1> QED
  BY <1>2, <1>3, <1>4, <1>5, <1>6 DEF Next

(***************************************************************************)
(* With the lock's windows closed and licenses given out by assignments    *)
(* only, what an assignment has read stays true until it writes, whatever  *)
(* activations, revocations, freezes, failures and crashes come between.   *)
(***************************************************************************)
THEOREM AssignmentsSound ==
    NoOpenWindow /\ OnlyAssignmentAllocates => (Spec => []AssignmentInv)
<1> SUFFICES ASSUME NoOpenWindow, OnlyAssignmentAllocates PROVE Spec => []AssignmentInv
  OBVIOUS
<1>1. AssignmentInv /\ [Next]_vars => AssignmentInv'
  BY AssignmentStep
<1> QED
  BY <1>1, AssignmentInit, PTL DEF Spec

(***************************************************************************)
(* With the lock's windows closed and licenses given out by assignments    *)
(* only, no learner ever holds two licenses of the plan, although          *)
(* bulk_update bypasses the check of License.clean.                        *)
(***************************************************************************)
THEOREM HoldersUnique ==
    NoOpenWindow /\ OnlyAssignmentAllocates => (Spec => []UniqueHolder)
<1> SUFFICES ASSUME NoOpenWindow, OnlyAssignmentAllocates PROVE Spec => []UniqueHolder
  OBVIOUS
<1>1. AssignmentInv /\ [Next]_vars => AssignmentInv'
  BY AssignmentStep
<1>2. AssignmentInv => UniqueHolder
  BY DEF AssignmentInv
<1> QED
  BY <1>1, <1>2, AssignmentInit, PTL DEF Spec

(***************************************************************************)
(* Under the same conditions no step takes a license from one learner for  *)
(* another: a bulk_update never overwrites an earlier, successful one.     *)
(***************************************************************************)
THEOREM NoLicenseStolen ==
    NoOpenWindow /\ OnlyAssignmentAllocates => (Spec => HeldLicenseNotStolen)
<1> SUFFICES ASSUME NoOpenWindow, OnlyAssignmentAllocates PROVE Spec => HeldLicenseNotStolen
  OBVIOUS
<1> DEFINE Kept == \A l \in Licenses :
       Allocated(l) /\ Allocated(l)' => licenses'[l].user_email = licenses[l].user_email
<1>1. AssignmentInv /\ [Next]_vars => AssignmentInv'
  BY AssignmentStep
<1>2. AssignmentInv /\ [Next]_vars => Kept
  <2> SUFFICES ASSUME AssignmentInv, [Next]_vars PROVE Kept
    OBVIOUS
  <2>1. CASE UNCHANGED licenses
    BY <2>1
  <2>2. CASE AllocationKept
    BY <2>2 DEF AllocationKept
  <2>3. ASSUME NEW r \in Assigners, AssignWrite(r)
        PROVE  Kept
    BY <2>3, WriteSafe DEF AssignmentInv, SeatsInv
  <2>4. CASE AssignNext
    BY <2>1, <2>3, <2>4 DEF AssignNext, AssignStep, AssignGet, AssignSet, AssignTrim,
       AssignCount, AssignPick, AssignFail, AssignRelease, AssignCrash, LockExpire, tableVars
  <2>5. CASE AutoApplyNext
    BY <2>5 DEF AutoApplyNext, OnlyAssignmentAllocates
  <2> QED
    BY <2>1, <2>2, <2>4, <2>5, ActivationKeeps, RevocationKeeps DEF Next, vars
<1>3. AssignmentInv /\ [Next]_vars => [Kept]_vars
  BY <1>2
<1> QED
  BY <1>1, <1>3, AssignmentInit, PTL DEF Spec, HeldLicenseNotStolen
=============================================================================
