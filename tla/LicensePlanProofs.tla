-------------------------- MODULE LicensePlanProofs --------------------------
(***************************************************************************)
(* Proofs about LicensePlan, for any finite set of licenses, any learners  *)
(* and any number of requests of each kind.                                *)
(***************************************************************************)
EXTENDS LicensePlan, FiniteSetTheorems, TLAPS

LEMMA RowTypes ==
    /\ AbsentRow \in Row /\ DeletedRow \in Row /\ UnassignedRow \in Row
    /\ \A e \in Emails : AssignedRow(e) \in Row /\ ActivatedRow(e) \in Row
BY DEF Row, Status, AbsentRow, DeletedRow, UnassignedRow, AssignedRow, ActivatedRow

LEMMA RowUpdates ==
    ASSUME NEW row \in Row, NEW old \in Row
    PROVE  KeepLmsUser(row, old) \in Row /\ RevokedRow(row) \in Row
BY DEF Row, Status, KeepLmsUser, RevokedRow

\* The activated licenses among those a revocation holds can be counted.
LEMMA ChargedCount ==
    ASSUME NEW r \in Requests
    PROVE  Cardinality(Charged(r)) \in Nat
BY TableAssumption, FS_Subset, FS_CardinalityType DEF Charged

LEMMA DoneTypes ==
    ASSUME TableTypeOK, pc \in [Requests -> Labels], NEW r \in Requests, Done(r)
    PROVE  /\ pc' \in [Requests -> Labels]
           /\ todo' \in [Requests -> SUBSET Emails]
           /\ view' \in [Requests -> [Licenses -> Row]]
           /\ plan_read' \in [Requests -> Nat]
BY RowTypes DEF Done, Goto, NoRows, TableTypeOK, Labels

\* The steps of an assignment and the expiry of the lock keep the types.
LEMMA AssignTypes ==
    ASSUME TypeOK, AssignNext
    PROVE  TypeOK'
<1> USE DEF TypeOK, TableTypeOK, LockState
<1>1. ASSUME NEW r \in Assigners, NEW emails \in SUBSET Emails, AssignGet(r, emails)
      PROVE  TypeOK'
  BY <1>1 DEF AssignGet, Goto, LockMissed, tableVars, Labels
<1>2. ASSUME NEW r \in Assigners, AssignStep(r)
      PROVE  TypeOK'
  <2> r \in Requests
    BY DEF Requests
  <2> USE DEF tableVars, localVars, Goto, Labels
  <2>1. CASE AssignSet(r) \/ AssignFail(r) \/ AssignCount(r)
    BY <2>1 DEF AssignSet, AssignFail, AssignCount, LockSet
  <2>2. CASE AssignTrim(r)
    BY <2>2 DEF AssignTrim
  <2>3. CASE AssignPick(r)
    <3>1. PICK L \in Slices(Cardinality(todo[r])) : \E email \in [L -> todo[r]] :
             view' = [view EXCEPT ![r] = RowsOf(L, [l \in L |-> AssignedRow(email[l])])]
      BY <2>3 DEF AssignPick
    <3>2. PICK email \in [L -> todo[r]] :
             view' = [view EXCEPT ![r] = RowsOf(L, [l \in L |-> AssignedRow(email[l])])]
      BY <3>1
    <3>3. RowsOf(L, [l \in L |-> AssignedRow(email[l])]) \in [Licenses -> Row]
      BY RowTypes DEF RowsOf
    <3> QED
      BY <2>3, <3>2, <3>3 DEF AssignPick
  <2>4. CASE AssignWrite(r)
    BY <2>4, RowUpdates DEF AssignWrite
  <2>5. CASE AssignRelease(r)
    BY <2>5, DoneTypes DEF AssignRelease, LockReleased
  <2> QED
    BY <1>2, <2>1, <2>2, <2>3, <2>4, <2>5 DEF AssignStep
<1>3. ASSUME NEW r \in Assigners, AssignCrash(r)
      PROVE  TypeOK'
  BY <1>3, DoneTypes DEF AssignCrash, tableVars, Requests
<1>4. CASE LockExpire
  BY <1>4 DEF LockExpire, LockTimesOut, tableVars, localVars
<1> QED
  BY <1>1, <1>2, <1>3, <1>4 DEF AssignNext

\* full_clean and the UPDATE of License.save.
LEMMA SaveTypes ==
    ASSUME TypeOK, UNCHANGED lock, NEW r \in Requests, FullClean(r) \/ SaveRow(r)
    PROVE  TypeOK'
<1> USE DEF TypeOK, TableTypeOK
<1>1. CASE FullClean(r)
  <2>1. CASE Done(r)
    BY <1>1, <2>1, DoneTypes DEF FullClean, tableVars
  <2>2. CASE Goto(r, "save") /\ UNCHANGED localVars
    BY <1>1, <2>2 DEF FullClean, tableVars, localVars, Goto, Labels
  <2> QED
    BY <1>1, <2>1, <2>2 DEF FullClean
<1>2. CASE SaveRow(r)
  BY <1>2, DoneTypes DEF SaveRow, Saved
<1> QED
  BY <1>1, <1>2

\* The steps of an auto-applied license.
LEMMA AutoApplyTypes ==
    ASSUME TypeOK, AutoApplyNext, UNCHANGED lock
    PROVE  TypeOK'
<1> USE DEF TypeOK, TableTypeOK
<1>1. PICK r \in AutoAppliers :
         \/ \E e \in Emails : AutoApplyCheck(r, e)
         \/ AutoApplyPick(r) \/ AutoApplyNone(r) \/ FullClean(r) \/ SaveRow(r)
  BY DEF AutoApplyNext
<1> r \in Requests
  BY DEF Requests
<1> USE DEF Goto, tableVars, localVars, Labels
<1>2. ASSUME NEW e \in Emails, AutoApplyCheck(r, e)
      PROVE  TypeOK'
  BY <1>2 DEF AutoApplyCheck
<1>3. CASE AutoApplyPick(r)
  <2>1. PICK e \in todo[r], l \in Unassigned :
           view' = [view EXCEPT ![r] = RowsOf({l}, [m \in {l} |-> ActivatedRow(e)])]
    BY <1>3 DEF AutoApplyPick
  <2>2. RowsOf({l}, [m \in {l} |-> ActivatedRow(e)]) \in [Licenses -> Row]
    BY RowTypes DEF RowsOf
  <2> QED
    BY <1>3, <2>1, <2>2 DEF AutoApplyPick
<1>4. CASE AutoApplyNone(r)
  BY <1>4, DoneTypes DEF AutoApplyNone
<1> QED
  BY <1>1, <1>2, <1>3, <1>4, SaveTypes

\* The steps of an activation.
LEMMA ActivationTypes ==
    ASSUME TypeOK, ActivationNext, UNCHANGED lock
    PROVE  TypeOK'
<1> USE DEF TypeOK, TableTypeOK
<1>1. PICK r \in Activators : (\E e \in Emails : ActivateLookup(r, e)) \/ ActivationStep(r)
  BY DEF ActivationNext
<1> r \in Requests
  BY DEF Requests
<1> USE DEF Goto, tableVars, localVars, Labels
<1>2. ASSUME NEW e \in Emails, ActivateLookup(r, e)
      PROVE  TypeOK'
  BY <1>2 DEF ActivateLookup
<1>3. CASE ActivateSelect(r)
  <2>1. PICK e \in todo[r], keep \in Licenses :
           view' = [view EXCEPT ![r] =
                      RowsOf({l \in Unrevoked(e) : l # keep \/ licenses[l].status = "assigned"},
                             [l \in Licenses |-> IF l = keep THEN ActivatedRow(e)
                                                 ELSE UnassignedRow])]
    <3>1. \A e : Unrevoked(e) \subseteq Licenses
      BY DEF Unrevoked, Stored
    <3> QED
      BY <1>3, <3>1 DEF ActivateSelect
  <2>2. RowsOf({l \in Unrevoked(e) : l # keep \/ licenses[l].status = "assigned"},
               [l \in Licenses |-> IF l = keep THEN ActivatedRow(e) ELSE UnassignedRow])
           \in [Licenses -> Row]
    BY RowTypes DEF RowsOf
  <2> QED
    BY <1>3, <2>1, <2>2 DEF ActivateSelect
<1>4. CASE ActivateGone(r)
  BY <1>4, DoneTypes DEF ActivateGone
<1>5. CASE ActivateReset(r)
  BY <1>5, RowTypes DEF ActivateReset, Duplicates, InMemory
<1>6. CASE ActivateReady(r)
  <2>1. CASE Done(r)
    BY <1>6, <2>1, DoneTypes DEF ActivateReady
  <2>2. CASE Goto(r, "clean") /\ UNCHANGED localVars
    BY <1>6, <2>2 DEF ActivateReady
  <2> QED
    BY <1>6, <2>1, <2>2 DEF ActivateReady
<1> QED
  BY <1>1, <1>2, <1>3, <1>4, <1>5, <1>6, SaveTypes DEF ActivationStep

\* The steps of a revocation.
LEMMA RevocationTypes ==
    ASSUME TypeOK, RevocationNext, UNCHANGED lock
    PROVE  TypeOK'
<1> USE DEF TypeOK, TableTypeOK
<1>1. PICK r \in Revokers :
         \/ \E emails \in SUBSET Emails : RevokeStart(r, emails)
         \/ RevokeSelect(r) \/ RevokeAllSelect(r) \/ RevokeCommit(r) \/ RevokeRollback(r)
  BY DEF RevocationNext
<1> r \in Requests
  BY DEF Requests
<1> USE DEF Goto, tableVars, localVars, Labels
<1>2. ASSUME NEW emails \in SUBSET Emails, RevokeStart(r, emails)
      PROVE  TypeOK'
  BY <1>2 DEF RevokeStart
<1>a. \A L : RowsOf(L, licenses) \in [Licenses -> Row]
  BY RowTypes DEF RowsOf
<1>3. CASE RevokeSelect(r)
  <2>1. CASE Done(r)
    BY <1>3, <2>1, DoneTypes DEF RevokeSelect
  <2>2. CASE ~Done(r)
    BY <1>3, <2>2, <1>a DEF RevokeSelect
  <2> QED
    BY <2>1, <2>2
<1>4. CASE RevokeAllSelect(r)
  BY <1>4, <1>a DEF RevokeAllSelect
<1>5. CASE RevokeCommit(r)
  <2>a. ASSUME NEW l \in Licenses
        PROVE  RevokedRow(view[r][l]) \in Row /\ licenses[l] \in Row
    <3>1. view[r] \in [Licenses -> Row]
      OBVIOUS
    <3>2. view[r][l] \in Row /\ licenses[l] \in Row
      BY <3>1
    <3> QED
      BY <3>2, RowUpdates
  <2>b. \E new : licenses' = [l \in Licenses |->
                              IF l \in InMemory(r) THEN RevokedRow(view[r][l])
                              ELSE IF l \in new THEN UnassignedRow
                              ELSE licenses[l]]
    BY <1>5, Zenon DEF RevokeCommit
  <2>1. licenses' \in [Licenses -> Row]
    BY <2>a, <2>b, RowTypes
  <2>2. num_revocations_applied' \in Nat
    BY <1>5, ChargedCount DEF RevokeCommit
  <2> QED
    BY <1>5, <2>1, <2>2, DoneTypes DEF RevokeCommit
<1>6. CASE RevokeRollback(r)
  BY <1>6, DoneTypes DEF RevokeRollback
<1> QED
  BY <1>1, <1>2, <1>3, <1>4, <1>5, <1>6

\* The steps of a freeze.
LEMMA FreezeTypes ==
    ASSUME TypeOK, FreezeNext, UNCHANGED lock
    PROVE  TypeOK'
<1> USE DEF TypeOK, TableTypeOK
<1>1. PICK r \in Freezers : FreezeCollect(r) \/ FreezeDelete(r)
  BY DEF FreezeNext
<1> r \in Requests
  BY DEF Requests
<1>2. CASE FreezeCollect(r)
  BY <1>2, RowTypes DEF FreezeCollect, RowsOf, Goto, tableVars, Labels
<1>3. CASE FreezeDelete(r)
  BY <1>3, RowTypes, DoneTypes DEF FreezeDelete
<1> QED
  BY <1>1, <1>2, <1>3

LEMMA TypeInit == Init => TypeOK
BY RowTypes, TableAssumption
DEF Init, InitTable, LockInit, TypeOK, TableTypeOK, NoRows, LockState, Labels

LEMMA TypeStep ==
    ASSUME TypeOK, [Next]_vars
    PROVE  TypeOK'
<1>1. CASE UNCHANGED vars
  BY <1>1 DEF vars, TypeOK, TableTypeOK
<1> QED
  BY <1>1, AssignTypes, AutoApplyTypes, ActivationTypes, RevocationTypes, FreezeTypes
  DEF Next

(***************************************************************************)
(* Whatever the requests do to the plan, its rows and theirs stay well     *)
(* typed.                                                                  *)
(***************************************************************************)
THEOREM Typed == Spec => []TypeOK
<1> QED
  BY TypeInit, TypeStep, PTL DEF Spec

-----------------------------------------------------------------------------
\* Every row that the code builds is coherent.
LEMMA BuiltRowsCoherent ==
    /\ RowCoherent(AbsentRow) /\ RowCoherent(DeletedRow) /\ RowCoherent(UnassignedRow)
    /\ \A e \in Emails : RowCoherent(AssignedRow(e)) /\ RowCoherent(ActivatedRow(e))
    /\ \A row \in Row : RowCoherent(RevokedRow(row))
    /\ \A row, old \in Row : row.status = "assigned" /\ RowCoherent(row)
          => RowCoherent(KeepLmsUser(row, old))
BY DEF Row, RowCoherent, AbsentRow, DeletedRow, UnassignedRow, AssignedRow, ActivatedRow,
   RevokedRow, KeepLmsUser

\* A request that ends leaves nothing in memory.
LEMMA DoneCoherent ==
    ASSUME CoherentInv, NEW r \in Requests, Done(r)
    PROVE  MemoryCoherent' /\ WritesAssigned'
BY BuiltRowsCoherent
DEF CoherentInv, TypeOK, TableTypeOK, MemoryCoherent, WritesAssigned, Done, Goto, NoRows

\* A request that moves on, not to the write of an assignment, with its memory
\* unchanged.
LEMMA GotoCoherent ==
    ASSUME CoherentInv, NEW r \in Requests, NEW label, label # "write",
           Goto(r, label), UNCHANGED view
    PROVE  MemoryCoherent' /\ WritesAssigned'
BY DEF CoherentInv, TypeOK, TableTypeOK, MemoryCoherent, WritesAssigned, Goto

\* A request that takes coherent rows into memory.
LEMMA ReadCoherent ==
    ASSUME CoherentInv, NEW r \in Requests, NEW label, label # "write",
           Goto(r, label), NEW L, NEW rows, view' = [view EXCEPT ![r] = RowsOf(L, rows)],
           \A l \in Licenses : l \in L => RowCoherent(rows[l])
    PROVE  MemoryCoherent' /\ WritesAssigned'
BY BuiltRowsCoherent
DEF CoherentInv, TypeOK, TableTypeOK, MemoryCoherent, WritesAssigned, Goto, RowsOf

\* The table is not touched.
LEMMA TableUntouched ==
    ASSUME CoherentInv, UNCHANGED tableVars
    PROVE  HoldersCoherent'
BY DEF CoherentInv, HoldersCoherent, tableVars

LEMMA AssignCoherent ==
    ASSUME CoherentInv, AssignNext
    PROVE  HoldersCoherent' /\ MemoryCoherent' /\ WritesAssigned'
<1>1. ASSUME NEW r \in Assigners, NEW emails \in SUBSET Emails, AssignGet(r, emails)
      PROVE  HoldersCoherent' /\ MemoryCoherent' /\ WritesAssigned'
  BY <1>1, TableUntouched, GotoCoherent DEF AssignGet, Requests
<1>2. ASSUME NEW r \in Assigners, AssignStep(r)
      PROVE  HoldersCoherent' /\ MemoryCoherent' /\ WritesAssigned'
  <2> r \in Requests
    BY DEF Requests
  <2>1. CASE AssignSet(r) \/ AssignFail(r) \/ AssignCount(r) \/ AssignTrim(r)
    BY <2>1, TableUntouched, GotoCoherent
    DEF AssignSet, AssignFail, AssignCount, AssignTrim, localVars
  <2>2. CASE AssignPick(r)
    <3>1. PICK L \in Slices(Cardinality(todo[r])) : \E email \in [L -> todo[r]] :
             view' = [view EXCEPT ![r] = RowsOf(L, [l \in L |-> AssignedRow(email[l])])]
      BY <2>2 DEF AssignPick
    <3>2. PICK email \in [L -> todo[r]] :
             view' = [view EXCEPT ![r] = RowsOf(L, [l \in L |-> AssignedRow(email[l])])]
      BY <3>1
    <3>3. \A l \in L : RowCoherent(AssignedRow(email[l]))
      BY BuiltRowsCoherent DEF CoherentInv, TypeOK, TableTypeOK
    <3>4. MemoryCoherent'
      BY <3>2, <3>3, BuiltRowsCoherent
      DEF CoherentInv, TypeOK, TableTypeOK, MemoryCoherent, RowsOf
    <3>5. \A l \in Licenses : view'[r][l].status \in {"absent", "assigned"}
      BY <3>2 DEF CoherentInv, TypeOK, TableTypeOK, RowsOf, AbsentRow, AssignedRow
    <3>6. WritesAssigned'
      BY <2>2, <3>2, <3>5
      DEF AssignPick, CoherentInv, TypeOK, TableTypeOK, WritesAssigned, Goto
    <3> QED
      BY <2>2, <3>4, <3>6, TableUntouched DEF AssignPick
  <2>3. CASE AssignWrite(r)
    <3>1. HoldersCoherent'
      BY <2>3, BuiltRowsCoherent
      DEF AssignWrite, InMemory, CoherentInv, TypeOK, TableTypeOK, HoldersCoherent,
          MemoryCoherent, WritesAssigned
    <3> QED
      BY <2>3, <3>1, GotoCoherent DEF AssignWrite, localVars
  <2>4. CASE AssignRelease(r)
    BY <2>4, DoneCoherent, TableUntouched DEF AssignRelease
  <2> QED
    BY <1>2, <2>1, <2>2, <2>3, <2>4 DEF AssignStep
<1>3. ASSUME NEW r \in Assigners, AssignCrash(r)
      PROVE  HoldersCoherent' /\ MemoryCoherent' /\ WritesAssigned'
  BY <1>3, DoneCoherent, TableUntouched DEF AssignCrash, Requests
<1>4. CASE LockExpire
  BY <1>4, TableUntouched
  DEF LockExpire, CoherentInv, MemoryCoherent, WritesAssigned, localVars
<1> QED
  BY <1>1, <1>2, <1>3, <1>4 DEF AssignNext

LEMMA SaveCoherent ==
    ASSUME CoherentInv, NEW r \in Requests, FullClean(r) \/ SaveRow(r)
    PROVE  HoldersCoherent' /\ MemoryCoherent' /\ WritesAssigned'
<1>1. CASE FullClean(r)
  BY <1>1, DoneCoherent, GotoCoherent, TableUntouched DEF FullClean, localVars
<1>2. CASE SaveRow(r)
  <2>1. HoldersCoherent'
    BY <1>2 DEF SaveRow, Saved, CoherentInv, HoldersCoherent, MemoryCoherent
  <2> QED
    BY <1>2, <2>1, DoneCoherent DEF SaveRow
<1> QED
  BY <1>1, <1>2

LEMMA AutoApplyCoherent ==
    ASSUME CoherentInv, AutoApplyNext
    PROVE  HoldersCoherent' /\ MemoryCoherent' /\ WritesAssigned'
<1>1. PICK r \in AutoAppliers :
         \/ \E e \in Emails : AutoApplyCheck(r, e)
         \/ AutoApplyPick(r) \/ AutoApplyNone(r) \/ FullClean(r) \/ SaveRow(r)
  BY DEF AutoApplyNext
<1> r \in Requests
  BY DEF Requests
<1>2. ASSUME NEW e \in Emails, AutoApplyCheck(r, e)
      PROVE  HoldersCoherent' /\ MemoryCoherent' /\ WritesAssigned'
  BY <1>2, GotoCoherent, TableUntouched DEF AutoApplyCheck
<1>3. CASE AutoApplyPick(r)
  <2>1. PICK e \in todo[r], l \in Unassigned :
           view' = [view EXCEPT ![r] = RowsOf({l}, [m \in {l} |-> ActivatedRow(e)])]
    BY <1>3 DEF AutoApplyPick
  <2>2. e \in Emails
    BY DEF CoherentInv, TypeOK, TableTypeOK
  <2>3. \A m \in Licenses : m \in {l} => RowCoherent([k \in {l} |-> ActivatedRow(e)][m])
    BY <2>2, BuiltRowsCoherent
  <2>4. Goto(r, "clean") /\ UNCHANGED tableVars
    BY <1>3 DEF AutoApplyPick
  <2>5. MemoryCoherent' /\ WritesAssigned'
    BY <2>1, <2>3, <2>4, ReadCoherent
  <2> QED
    BY <2>4, <2>5, TableUntouched
<1>4. CASE AutoApplyNone(r)
  BY <1>4, DoneCoherent, TableUntouched DEF AutoApplyNone
<1> QED
  BY <1>1, <1>2, <1>3, <1>4, SaveCoherent

LEMMA ActivationCoherent ==
    ASSUME CoherentInv, ActivationNext
    PROVE  HoldersCoherent' /\ MemoryCoherent' /\ WritesAssigned'
<1>1. PICK r \in Activators : (\E e \in Emails : ActivateLookup(r, e)) \/ ActivationStep(r)
  BY DEF ActivationNext
<1> r \in Requests
  BY DEF Requests
<1>2. ASSUME NEW e \in Emails, ActivateLookup(r, e)
      PROVE  HoldersCoherent' /\ MemoryCoherent' /\ WritesAssigned'
  BY <1>2, GotoCoherent, TableUntouched DEF ActivateLookup
<1>3. CASE ActivateSelect(r)
  <2>1. PICK e \in todo[r], keep \in Licenses :
           view' = [view EXCEPT ![r] =
                      RowsOf({l \in Unrevoked(e) : l # keep \/ licenses[l].status = "assigned"},
                             [l \in Licenses |-> IF l = keep THEN ActivatedRow(e)
                                                 ELSE UnassignedRow])]
    <3>1. \A e : Unrevoked(e) \subseteq Licenses
      BY DEF Unrevoked, Stored
    <3> QED
      BY <1>3, <3>1 DEF ActivateSelect
  <2> DEFINE rows == [l \in Licenses |-> IF l = keep THEN ActivatedRow(e) ELSE UnassignedRow]
  <2>2. e \in Emails
    BY DEF CoherentInv, TypeOK, TableTypeOK
  <2>3. \A l \in Licenses : RowCoherent(rows[l])
    BY <2>2, BuiltRowsCoherent
  <2>4. Goto(r, "reset") /\ UNCHANGED tableVars
    BY <1>3 DEF ActivateSelect
  <2> HIDE DEF rows
  <2>5. MemoryCoherent' /\ WritesAssigned'
    BY <2>1, <2>3, <2>4, ReadCoherent DEF rows
  <2> QED
    BY <2>4, <2>5, TableUntouched
<1>4. CASE ActivateGone(r)
  BY <1>4, DoneCoherent, TableUntouched DEF ActivateGone
<1>5. CASE ActivateReset(r)
  <2> USE DEF CoherentInv, TypeOK, TableTypeOK
  <2>1. HoldersCoherent'
    BY <1>5, BuiltRowsCoherent DEF ActivateReset, HoldersCoherent, Duplicates, InMemory
  <2>2. MemoryCoherent'
    BY <1>5, BuiltRowsCoherent DEF ActivateReset, MemoryCoherent, Duplicates, InMemory
  <2>3. WritesAssigned'
    BY <1>5 DEF ActivateReset, WritesAssigned
  <2> QED
    BY <2>1, <2>2, <2>3
<1>6. CASE ActivateReady(r)
  BY <1>6, DoneCoherent, GotoCoherent, TableUntouched DEF ActivateReady, localVars
<1> QED
  BY <1>1, <1>2, <1>3, <1>4, <1>5, <1>6, SaveCoherent DEF ActivationStep

LEMMA RevocationCoherent ==
    ASSUME CoherentInv, RevocationNext
    PROVE  HoldersCoherent' /\ MemoryCoherent' /\ WritesAssigned'
<1>1. PICK r \in Revokers :
         \/ \E emails \in SUBSET Emails : RevokeStart(r, emails)
         \/ RevokeSelect(r) \/ RevokeAllSelect(r) \/ RevokeCommit(r) \/ RevokeRollback(r)
  BY DEF RevocationNext
<1> r \in Requests
  BY DEF Requests
<1>2. ASSUME NEW emails \in SUBSET Emails, RevokeStart(r, emails)
      PROVE  HoldersCoherent' /\ MemoryCoherent' /\ WritesAssigned'
  BY <1>2, GotoCoherent, TableUntouched DEF RevokeStart
<1>a. \A l \in Licenses : RowCoherent(licenses[l])
  BY DEF CoherentInv, HoldersCoherent
<1>3. CASE RevokeSelect(r)
  <2>1. CASE Done(r)
    BY <1>3, <2>1, DoneCoherent, TableUntouched DEF RevokeSelect
  <2>2. CASE ~Done(r)
    BY <1>3, <2>2, <1>a, ReadCoherent, TableUntouched DEF RevokeSelect
  <2> QED
    BY <2>1, <2>2
<1>4. CASE RevokeAllSelect(r)
  BY <1>4, <1>a, ReadCoherent, TableUntouched DEF RevokeAllSelect
<1>5. CASE RevokeCommit(r)
  <2>1. HoldersCoherent'
    BY <1>5, <1>a, BuiltRowsCoherent
    DEF RevokeCommit, HoldersCoherent, CoherentInv, TypeOK, TableTypeOK
  <2> QED
    BY <1>5, <2>1, DoneCoherent DEF RevokeCommit
<1>6. CASE RevokeRollback(r)
  BY <1>6, DoneCoherent, TableUntouched DEF RevokeRollback
<1> QED
  BY <1>1, <1>2, <1>3, <1>4, <1>5, <1>6

LEMMA FreezeCoherent ==
    ASSUME CoherentInv, FreezeNext
    PROVE  HoldersCoherent' /\ MemoryCoherent' /\ WritesAssigned'
<1>1. PICK r \in Freezers : FreezeCollect(r) \/ FreezeDelete(r)
  BY DEF FreezeNext
<1> r \in Requests
  BY DEF Requests
<1>a. \A l \in Licenses : RowCoherent(licenses[l])
  BY DEF CoherentInv, HoldersCoherent
<1>2. CASE FreezeCollect(r)
  BY <1>2, <1>a, ReadCoherent, TableUntouched DEF FreezeCollect
<1>3. CASE FreezeDelete(r)
  <2>1. HoldersCoherent'
    BY <1>3, <1>a, BuiltRowsCoherent DEF FreezeDelete, HoldersCoherent
  <2> QED
    BY <1>3, <2>1, DoneCoherent DEF FreezeDelete
<1> QED
  BY <1>1, <1>2, <1>3

LEMMA CoherentInit == Init => CoherentInv
<1>1. Init => HoldersCoherent /\ MemoryCoherent /\ WritesAssigned
  BY BuiltRowsCoherent
  DEF Init, InitTable, HoldersCoherent, MemoryCoherent, WritesAssigned, NoRows
<1> QED
  BY <1>1, TypeInit DEF CoherentInv

LEMMA CoherentStep ==
    ASSUME CoherentInv, [Next]_vars
    PROVE  CoherentInv'
<1>1. TypeOK'
  BY TypeStep DEF CoherentInv
<1>2. CASE UNCHANGED vars
  BY <1>2 DEF vars, CoherentInv, TypeOK, TableTypeOK, HoldersCoherent, MemoryCoherent,
     WritesAssigned
<1>3. CASE Next
  BY <1>1, <1>3, AssignCoherent, AutoApplyCoherent, ActivationCoherent, RevocationCoherent,
     FreezeCoherent DEF Next, CoherentInv
<1> QED
  BY <1>2, <1>3

(***************************************************************************)
(* Under every interleaving of assignments, auto-applied licenses,         *)
(* activations, revocations and freezes, with the lock or without it, no   *)
(* stale row that a request saves ever makes an allocated license that     *)
(* names nobody, an unassigned one that still names somebody, or an        *)
(* activated one whose user is not the one its e-mail names.               *)
(***************************************************************************)
THEOREM HoldersAlwaysCoherent == Spec => []HoldersCoherent
<1>1. CoherentInv => HoldersCoherent
  BY DEF CoherentInv
<1> QED
  BY <1>1, CoherentInit, CoherentStep, PTL DEF Spec
=============================================================================
