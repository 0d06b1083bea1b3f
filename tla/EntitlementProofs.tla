-------------------------- MODULE EntitlementProofs --------------------------
(***************************************************************************)
(* The endpoints implement the pool of seats of Entitlement: assignments,  *)
(* activations and a revocation, interleaved statement by statement,       *)
(* failing or dying, change it in one step or not at all, until an         *)
(* activation saves its row over a license that was revoked meanwhile.     *)
(* And what revocations cost: never a license of the plan, and no more     *)
(* learners than the cap allows.                                           *)
(***************************************************************************)
EXTENDS AssignmentProofs

(***************************************************************************)
(* No freeze deletes seats, and one revocation runs at a time, since two   *)
(* of them that read the same license would both replace it.               *)
(***************************************************************************)
OneRevoker == Freezers = {} /\ \A q, r \in Revokers : q = r

Premise == NoOpenWindow /\ AutoAppliers = {} /\ OneRevoker

(***************************************************************************)
(* No activation saves its row over a license that was revoked since the   *)
(* activation read it.  Nothing in the code prevents it.                   *)
(***************************************************************************)
SavesNoRevoked ==
    \A k \in Activators : SaveRow(k) =>
       \A l \in InMemory(k) : licenses[l].status # "revoked"

NoStaleSave == [][SavesNoRevoked]_vars

\* What an assignment picked is still free when it writes.
PickedFree ==
    \A r \in Assigners : pc[r] = "write" => InMemory(r) \subseteq Unassigned

\* What a revocation read is still the same learner's when it commits.
RevocableRead ==
    \A r \in Revokers : pc[r] = "commit" => \A l \in InMemory(r) :
       Allocated(l) /\ view[r][l].user_email = licenses[l].user_email

\* An activation has the learner's own license in memory, or a revoked one.
ActivationRead ==
    \A k \in Activators : pc[k] \in {"reset", "clean", "save"} => \A l \in InMemory(k) :
       /\ view[k][l].status = "activated"
       /\ Allocated(l) \/ licenses[l].status = "revoked"
       /\ licenses[l].user_email = view[k][l].user_email

PoolInv == SeatsInv /\ PickedFree /\ RevocableRead /\ ActivationRead

LEMMA PoolInit == Init => PoolInv
<1>1. Init => PickedFree /\ RevocableRead /\ ActivationRead
  BY DEF Init, InitTable, PickedFree, RevocableRead, ActivationRead, Requests
<1> QED
  BY <1>1, AssignmentInit DEF PoolInv, SeatsInv, AssignmentInv

\* A step of the table that takes no free license and no allocated one.
LEMMA TableKept ==
    ASSUME PoolInv, NEW r \in Requests, NEW label,
           pc' = [pc EXCEPT ![r] = label], label \notin {"write", "commit"},
           \A q \in Requests \ {r} : view'[q] = view[q],
           Unassigned \subseteq Unassigned',
           \A l \in Licenses : r \notin Revokers /\ Allocated(l) =>
              Allocated(l)' /\ licenses'[l].user_email = licenses[l].user_email,
           OneRevoker
    PROVE  PickedFree' /\ RevocableRead'
<1> USE DEF PoolInv, SeatsInv, CoherentInv, TypeOK
<1>0. Assigners \subseteq Requests /\ Revokers \subseteq Requests
  BY DEF Requests
<1>1. \A q \in Requests : pc'[q] \in {"write", "commit"} => q # r /\ pc'[q] = pc[q]
  OBVIOUS
<1>2. \A q \in Requests \ {r} : InMemory(q)' = InMemory(q)
  BY DEF InMemory
<1>3. PickedFree'
  BY <1>0, <1>1, <1>2 DEF PickedFree
<1>4. RevocableRead'
  <2> SUFFICES ASSUME NEW q \in Revokers, pc'[q] = "commit", NEW l \in InMemory(q)'
               PROVE  Allocated(l)' /\ view'[q][l].user_email = licenses'[l].user_email
    BY DEF RevocableRead
  <2>1. q # r /\ pc[q] = "commit" /\ l \in InMemory(q) /\ l \in Licenses
    BY <1>0, <1>1, <1>2 DEF InMemory
  <2>2. r \notin Revokers
    BY <2>1 DEF OneRevoker
  <2>3. Allocated(l) /\ view[q][l].user_email = licenses[l].user_email
    BY <2>1 DEF RevocableRead
  <2>4. Allocated(l)' /\ licenses'[l].user_email = licenses[l].user_email
    BY <2>1, <2>2, <2>3
  <2> QED
    BY <1>0, <2>1, <2>3, <2>4
<1> QED
  BY <1>3, <1>4

\* An assignment picks free licenses, and writes those that it picked.
LEMMA AssignPool ==
    ASSUME PoolInv, Premise, AssignNext
    PROVE  PickedFree' /\ RevocableRead'
<1> USE DEF PoolInv, SeatsInv, CoherentInv, TypeOK, TableTypeOK, Premise
<1>0. /\ Assigners \subseteq Requests /\ Revokers \subseteq Requests
      /\ \A r \in Assigners : r \notin Revokers
  BY KindsDisjoint DEF Requests
<1>1. ASSUME UNCHANGED tableVars
      PROVE  Unassigned' = Unassigned /\ licenses' = licenses
  BY <1>1 DEF tableVars, Unassigned
<1>a. ASSUME NEW r \in Assigners, UNCHANGED tableVars,
             NEW label \in {"idle", "set", "trim", "release", "count", "pick"},
             pc' = [pc EXCEPT ![r] = label],
             \A q \in Requests \ {r} : view'[q] = view[q]
      PROVE  PickedFree' /\ RevocableRead'
  <2>1. /\ Unassigned \subseteq Unassigned'
        /\ \A l \in Licenses : r \notin Revokers /\ Allocated(l) =>
              Allocated(l)' /\ licenses'[l].user_email = licenses[l].user_email
    BY <1>1, <1>a DEF Allocated
  <2> HIDE DEF PoolInv
  <2> QED
    BY <1>0, <1>a, <2>1, TableKept
<1>2. ASSUME NEW r \in Assigners, NEW emails \in SUBSET Emails, AssignGet(r, emails)
      PROVE  PickedFree' /\ RevocableRead'
  <2>1. /\ UNCHANGED tableVars
        /\ pc' = [pc EXCEPT ![r] = "set"]
        /\ \A q \in Requests \ {r} : view'[q] = view[q]
    BY <1>2 DEF AssignGet, Goto
  <2> HIDE DEF PoolInv
  <2> QED
    BY <1>0, <1>a, <2>1
<1>3. ASSUME NEW r \in Assigners,
             AssignSet(r) \/ AssignTrim(r) \/ AssignCount(r) \/ AssignFail(r)
      PROVE  PickedFree' /\ RevocableRead'
  <2>1. /\ UNCHANGED <<tableVars, view>>
        /\ \E label \in {"trim", "release", "count", "pick"} : pc' = [pc EXCEPT ![r] = label]
    BY <1>3 DEF AssignSet, AssignTrim, AssignCount, AssignFail, Goto, localVars
  <2> HIDE DEF PoolInv
  <2> QED
    BY <1>0, <1>a, <2>1
<1>4. ASSUME NEW r \in Assigners, AssignRelease(r) \/ AssignCrash(r)
      PROVE  PickedFree' /\ RevocableRead'
  <2>1. /\ UNCHANGED tableVars
        /\ pc' = [pc EXCEPT ![r] = "idle"]
        /\ \A q \in Requests \ {r} : view'[q] = view[q]
    BY <1>4 DEF AssignRelease, AssignCrash, Done, Goto
  <2> HIDE DEF PoolInv
  <2> QED
    BY <1>0, <1>a, <2>1
<1>5. ASSUME NEW r \in Assigners, AssignPick(r)
      PROVE  PickedFree' /\ RevocableRead'
  <2>1. UNCHANGED tableVars /\ pc' = [pc EXCEPT ![r] = "write"]
    BY <1>5 DEF AssignPick, Goto
  <2>2. PICK L \in SUBSET Unassigned : \E rows : view' = [view EXCEPT ![r] = RowsOf(L, rows)]
    BY <1>5 DEF AssignPick, Slices
  <2>3. InMemory(r)' \subseteq L
    BY <1>0, <2>2 DEF InMemory, RowsOf, AbsentRow
  <2>4. \A q \in Requests \ {r} : view'[q] = view[q] /\ pc'[q] = pc[q]
    BY <2>1, <2>2
  <2>5. PickedFree'
    <3>1. \A q \in Assigners \ {r} : InMemory(q)' = InMemory(q)
      BY <1>0, <2>4 DEF InMemory
    <3>2. Unassigned' = Unassigned
      BY <1>1, <2>1
    <3> QED
      BY <1>0, <2>2, <2>3, <2>4, <3>1, <3>2 DEF PickedFree
  <2>6. RevocableRead'
    BY <1>0, <1>1, <2>1, <2>4 DEF RevocableRead, InMemory, Allocated
  <2> QED
    BY <2>5, <2>6
<1>6. ASSUME NEW r \in Assigners, AssignWrite(r)
      PROVE  PickedFree' /\ RevocableRead'
  <2>1. \A q \in Assigners : pc'[q] # "write"
    BY <1>0, <1>6 DEF AssignWrite, Goto, LockInv, InBody, Holding
  <2>2. \A l \in Licenses : Allocated(l) => licenses'[l] = licenses[l]
    <3> HIDE DEF PoolInv, SeatsInv
    <3> QED
      BY <1>6, WriteSafe DEF PoolInv
  <2>3. view' = view /\ \A q \in Revokers : pc'[q] = pc[q]
    BY <1>0, <1>6 DEF AssignWrite, Goto, localVars
  <2> QED
    BY <2>1, <2>2, <2>3 DEF PickedFree, RevocableRead, InMemory, Allocated
<1>7. CASE LockExpire
  BY <1>1, <1>7 DEF LockExpire, localVars, PickedFree, RevocableRead, InMemory, Allocated
<1> QED
  BY <1>2, <1>3, <1>4, <1>5, <1>6, <1>7 DEF AssignNext, AssignStep

\* An assignment writes free licenses: neither allocated ones nor revoked ones.
LEMMA AssignReads ==
    ASSUME PoolInv, AssignNext
    PROVE  ActivationRead'
<1>1. \A l \in Licenses : Allocated(l) => licenses'[l] = licenses[l]
  BY AssignOutside DEF PoolInv
<1>2. \A l \in Licenses : licenses[l].status = "revoked" => licenses'[l] = licenses[l]
  <2>1. ASSUME NEW r \in Assigners, AssignWrite(r), NEW l \in Licenses, licenses[l].status = "revoked"
        PROVE  licenses'[l] = licenses[l]
    BY <2>1 DEF AssignWrite, PoolInv, PickedFree, Unassigned
  <2>2. licenses' = licenses \/ \E r \in Assigners : AssignWrite(r)
    BY DEF AssignNext, AssignStep, AssignGet, AssignSet, AssignTrim, AssignCount, AssignPick,
       AssignFail, AssignRelease, AssignCrash, LockExpire, tableVars
  <2> QED
    BY <2>1, <2>2
<1>3. \A k \in Activators : pc'[k] = pc[k] /\ view'[k] = view[k]
  BY AssignOutside DEF PoolInv
<1> QED
  BY <1>1, <1>2, <1>3 DEF PoolInv, ActivationRead, InMemory, Allocated

\* An activation that saves over no revoked license changes the status of one
\* allocated license, and so nothing of the pool.
LEMMA ActivationTable ==
    ASSUME PoolInv, SavesNoRevoked, ActivationNext
    PROVE  /\ HolderOf' = HolderOf /\ Unassigned' = Unassigned /\ Withdrawn' = Withdrawn
           /\ \A l \in Licenses : Allocated(l) =>
                 Allocated(l)' /\ licenses'[l].user_email = licenses[l].user_email
           /\ \A l \in Licenses : ~Allocated(l) => licenses'[l] = licenses[l]
<1> USE DEF PoolInv, SeatsInv, CoherentInv, TypeOK, TableTypeOK
<1>1. PICK r \in Activators : (\E e \in Emails : ActivateLookup(r, e)) \/ ActivationStep(r)
  BY DEF ActivationNext
<1>2. \/ UNCHANGED licenses
      \/ SaveRow(r)
  BY <1>1 DEF ActivationStep, ActivateLookup, ActivateSelect, ActivateGone, ActivateReset,
     ActivateReady, FullClean, tableVars, Duplicates, ActivationRead
<1>3. CASE UNCHANGED licenses
  BY <1>3 DEF HolderOf, Unassigned, Withdrawn, Allocated
<1>4. CASE SaveRow(r)
  <2>1. \A l \in Licenses : l \in InMemory(r) =>
           /\ Allocated(l) /\ Allocated(l)'
           /\ licenses'[l].user_email = licenses[l].user_email
           /\ licenses'[l].status = "activated"
    BY <1>4 DEF SaveRow, Saved, InMemory, ActivationRead, Allocated, SavesNoRevoked
  <2>2. \A l \in Licenses : l \notin InMemory(r) => licenses'[l] = licenses[l]
    BY <1>4 DEF SaveRow, Saved, InMemory
  <2> QED
    BY <2>1, <2>2 DEF HolderOf, Unassigned, Withdrawn, Allocated
<1> QED
  BY <1>2, <1>3, <1>4

\* So it leaves alone what the others have read.
LEMMA ActivationPool ==
    ASSUME PoolInv, Premise, SavesNoRevoked, ActivationNext
    PROVE  PickedFree' /\ RevocableRead' /\ AllocationKept
<1> USE DEF PoolInv, SeatsInv, CoherentInv, TypeOK, TableTypeOK
<1>0. /\ \A l \in Licenses : Allocated(l) =>
            Allocated(l)' /\ licenses'[l].user_email = licenses[l].user_email
      /\ \A l \in Licenses : ~Allocated(l) => licenses'[l] = licenses[l]
      /\ Unassigned' = Unassigned
  <2> HIDE DEF PoolInv
  <2> QED
    BY ActivationTable
<1>1. PICK r \in Activators : (\E e \in Emails : ActivateLookup(r, e)) \/ ActivationStep(r)
  BY DEF ActivationNext
<1>2. \A q \in Assigners \union Revokers : q # r /\ q \in Requests /\ r \in Requests
  BY KindsDisjoint DEF Requests
<1>3. \A q \in Assigners \union Revokers : pc'[q] = pc[q] /\ view'[q] = view[q]
  BY <1>1, <1>2 DEF ActivationStep, ActivateLookup, ActivateSelect, ActivateGone,
     ActivateReset, ActivateReady, FullClean, SaveRow, Done, Goto, localVars
<1>4. PickedFree'
  BY <1>0, <1>3 DEF PickedFree, InMemory
<1>5. RevocableRead'
  BY <1>0, <1>3 DEF RevocableRead, InMemory
<1>6. AllocationKept
  BY <1>0 DEF AllocationKept, Allocated
<1> QED
  BY <1>4, <1>5, <1>6

\* And what an activation reads is the learner's own license.
LEMMA ActivationReads ==
    ASSUME PoolInv, SavesNoRevoked, ActivationNext
    PROVE  ActivationRead'
<1> USE DEF PoolInv, SeatsInv, CoherentInv, TypeOK, TableTypeOK
<1>1. PICK r \in Activators : (\E e \in Emails : ActivateLookup(r, e)) \/ ActivationStep(r)
  BY DEF ActivationNext
<1>0. Activators \subseteq Requests
  BY DEF Requests
<1> USE DEF Goto
<1>2. ASSUME UNCHANGED <<tableVars, view>>, NEW label \in {"dups", "clean", "save"},
             pc' = [pc EXCEPT ![r] = label],
             label \in {"clean", "save"} => pc[r] \in {"reset", "clean"}
      PROVE  ActivationRead'
  BY <1>0, <1>2 DEF ActivationRead, InMemory, tableVars, Allocated
<1>3. ASSUME UNCHANGED tableVars, Done(r)
      PROVE  ActivationRead'
  BY <1>0, <1>3 DEF Done, ActivationRead, InMemory, tableVars, Allocated
<1>4. CASE \E e \in Emails : ActivateLookup(r, e)
  BY <1>2, <1>4 DEF ActivateLookup
<1>5. CASE ActivateSelect(r)
  <2>1. /\ pc' = [pc EXCEPT ![r] = "reset"]
        /\ UNCHANGED tableVars
        /\ \A q \in Requests \ {r} : view'[q] = view[q]
    BY <1>5 DEF ActivateSelect
  <2>2. SeatsInv
    OBVIOUS
  <2>3. \A l \in InMemory(r)' :
           /\ view'[r][l].status = "activated"
           /\ Allocated(l) /\ licenses[l].user_email = view'[r][l].user_email
    <3> HIDE DEF PoolInv, SeatsInv
    <3> QED
      BY <1>5, <2>2, SelectsOwnLicense
  <2> QED
    BY <1>0, <2>1, <2>3 DEF ActivationRead, InMemory, tableVars, Allocated
<1>6. CASE ActivateGone(r)
  BY <1>3, <1>6 DEF ActivateGone
<1>7. CASE ActivateReset(r)
  BY <1>7 DEF ActivateReset, Duplicates, ActivationRead
<1>8. CASE ActivateReady(r)
  BY <1>2, <1>3, <1>8 DEF ActivateReady, localVars
<1>9. CASE FullClean(r)
  BY <1>2, <1>3, <1>9 DEF FullClean, localVars
<1>10. CASE SaveRow(r)
  <2>1. /\ \A l \in Licenses : Allocated(l) =>
              Allocated(l)' /\ licenses'[l].user_email = licenses[l].user_email
        /\ \A l \in Licenses : ~Allocated(l) => licenses'[l] = licenses[l]
    <3> HIDE DEF PoolInv
    <3> QED
      BY ActivationTable
  <2>2. /\ pc' = [pc EXCEPT ![r] = "idle"]
        /\ \A q \in Requests \ {r} : view'[q] = view[q]
    BY <1>10 DEF SaveRow, Done
  <2> QED
    BY <1>0, <2>1, <2>2 DEF ActivationRead, InMemory, Allocated
<1> QED
  BY <1>1, <1>4, <1>5, <1>6, <1>7, <1>8, <1>9, <1>10 DEF ActivationStep

\* A revocation reads allocated licenses.
LEMMA RevocationReads ==
    ASSUME PoolInv, NEW r \in Revokers, RevokeSelect(r) \/ RevokeAllSelect(r)
    PROVE  \/ Done(r)
           \/ /\ pc' = [pc EXCEPT ![r] = "commit"]
              /\ \E L \in SUBSET {l \in Licenses : Allocated(l)} :
                    view' = [view EXCEPT ![r] = RowsOf(L, licenses)]
<1>1. ASSUME NEW e
      PROVE  RevocableFor(e) \subseteq {l \in Licenses : Allocated(l)}
  BY DEF RevocableFor, AllocatedTo
<1>2. CASE RevokeSelect(r)
  BY <1>1, <1>2 DEF RevokeSelect, Selections, Goto
<1>3. CASE RevokeAllSelect(r)
  BY <1>3 DEF RevokeAllSelect, Goto
<1> QED
  BY <1>2, <1>3

\* A revocation replaces what it read by licenses that did not exist.
LEMMA RevocationPool ==
    ASSUME PoolInv, Premise, RevocationNext
    PROVE  PickedFree' /\ RevocableRead'
<1> USE DEF PoolInv, SeatsInv, CoherentInv, TypeOK, TableTypeOK, Premise
<1>1. PICK r \in Revokers :
         \/ \E emails \in SUBSET Emails : RevokeStart(r, emails)
         \/ RevokeSelect(r) \/ RevokeAllSelect(r) \/ RevokeCommit(r) \/ RevokeRollback(r)
  BY DEF RevocationNext
<1>0. r \in Requests /\ r \notin Assigners /\ Assigners \subseteq Requests /\ Revokers = {r}
  BY KindsDisjoint DEF Requests, OneRevoker
<1>a. ASSUME NEW label \in {"idle", "select"}, pc' = [pc EXCEPT ![r] = label],
             \A q \in Requests \ {r} : view'[q] = view[q],
             Unassigned \subseteq Unassigned'
      PROVE  PickedFree' /\ RevocableRead'
  <2> HIDE DEF PoolInv
  <2> QED
    BY <1>0, <1>a, TableKept
<1>2. CASE \E emails \in SUBSET Emails : RevokeStart(r, emails)
  BY <1>a, <1>2 DEF RevokeStart, Goto, tableVars, Unassigned
<1>3. CASE RevokeSelect(r) \/ RevokeAllSelect(r)
  <2>0. UNCHANGED tableVars
    BY <1>3 DEF RevokeSelect, RevokeAllSelect
  <2>1. CASE Done(r)
    BY <1>a, <2>0, <2>1 DEF Done, Goto, tableVars, Unassigned
  <2>2. ASSUME pc' = [pc EXCEPT ![r] = "commit"],
               NEW L \in SUBSET {l \in Licenses : Allocated(l)},
               view' = [view EXCEPT ![r] = RowsOf(L, licenses)]
        PROVE  PickedFree' /\ RevocableRead'
    <3>1. \A q \in Assigners : pc'[q] = pc[q] /\ InMemory(q)' = InMemory(q)
      BY <1>0, <2>2 DEF InMemory
    <3>2. \A l \in InMemory(r)' : Allocated(l) /\ view'[r][l].user_email = licenses[l].user_email
      BY <1>0, <2>2 DEF InMemory, RowsOf, AbsentRow
    <3> QED
      BY <1>0, <2>0, <3>1, <3>2
      DEF PickedFree, RevocableRead, Unassigned, tableVars, Allocated
  <2> QED
    BY <1>3, <2>1, <2>2, RevocationReads
<1>4. CASE RevokeCommit(r)
  <2>1. /\ pc' = [pc EXCEPT ![r] = "idle"]
        /\ \A q \in Requests \ {r} : view'[q] = view[q]
    BY <1>4 DEF RevokeCommit, Done, Goto
  <2>2. \A l \in InMemory(r) : Allocated(l)
    BY <1>4 DEF RevokeCommit, RevocableRead
  <2>3. Unassigned \subseteq Unassigned'
    BY <1>4, <2>2 DEF RevokeCommit, Unassigned, Allocated, UnassignedRow
  <2> QED
    BY <1>a, <2>1, <2>3
<1>5. CASE RevokeRollback(r)
  BY <1>a, <1>5 DEF RevokeRollback, Done, Goto, tableVars, Unassigned
<1> QED
  BY <1>1, <1>2, <1>3, <1>4, <1>5

\* A license that a revocation takes keeps its e-mail.
LEMMA RevocationKeepsEmail ==
    ASSUME PoolInv, RevocationNext
    PROVE  ActivationRead'
<1> USE DEF PoolInv, SeatsInv, CoherentInv, TypeOK, TableTypeOK
<1>1. PICK r \in Revokers :
         \/ \E emails \in SUBSET Emails : RevokeStart(r, emails)
         \/ RevokeSelect(r) \/ RevokeAllSelect(r) \/ RevokeCommit(r) \/ RevokeRollback(r)
  BY DEF RevocationNext
<1>2. \A k \in Activators : k # r /\ k \in Requests /\ r \in Requests
  BY KindsDisjoint DEF Requests
<1>3. \A k \in Activators : pc'[k] = pc[k] /\ view'[k] = view[k]
  BY <1>1, <1>2 DEF RevokeStart, RevokeSelect, RevokeAllSelect, RevokeCommit, RevokeRollback,
     Done, Goto
<1>4. ASSUME NEW l \in Licenses, Allocated(l) \/ licenses[l].status = "revoked"
      PROVE  /\ Allocated(l)' \/ licenses'[l].status = "revoked"
             /\ licenses'[l].user_email = licenses[l].user_email
  <2>1. CASE UNCHANGED licenses
    BY <1>4, <2>1 DEF Allocated
  <2>2. CASE RevokeCommit(r)
    <3>1. PICK N \in FreshLicenses(Cardinality(InMemory(r))) :
             licenses' = [m \in Licenses |->
                            IF m \in InMemory(r) THEN RevokedRow(view[r][m])
                            ELSE IF m \in N THEN UnassignedRow ELSE licenses[m]]
      BY <2>2 DEF RevokeCommit
    <3>2. l \notin N
      BY <1>4 DEF FreshLicenses, Allocated
    <3>3. l \in InMemory(r) => view[r][l].user_email = licenses[l].user_email
      BY <2>2 DEF RevokeCommit, RevocableRead
    <3> QED
      BY <1>4, <3>1, <3>2, <3>3 DEF RevokedRow, Allocated
  <2> QED
    BY <1>1, <2>1, <2>2 DEF RevokeStart, RevokeSelect, RevokeAllSelect, RevokeRollback, tableVars
<1> QED
  BY <1>3, <1>4 DEF ActivationRead, InMemory

LEMMA PoolStep ==
    ASSUME Premise, PoolInv, [Next]_vars, [SavesNoRevoked]_vars
    PROVE  PoolInv'
<1>1. CoherentInv' /\ LockInv'
  BY CoherentStep, LockStep DEF Premise, PoolInv, SeatsInv, CoherentInv
<1>2. CASE UNCHANGED vars
  BY <1>1, <1>2
  DEF vars, PoolInv, SeatsInv, TrimmedInv, PickedInv, UniqueHolder, PickedFree, RevocableRead,
      ActivationRead, InMemory, Unassigned, Allocated
<1>3. CASE AssignNext
  <2>1. TrimmedInv' /\ PickedInv' /\ UniqueHolder'
    BY <1>3, AssignKeepsSeats DEF PoolInv
  <2> QED
    BY <1>1, <1>3, <2>1, AssignPool, AssignReads DEF PoolInv, SeatsInv
<1>4. CASE ActivationNext /\ SavesNoRevoked
  <2>1. PickedFree' /\ RevocableRead' /\ AllocationKept /\ ActivationRead'
    BY <1>4, ActivationPool, ActivationReads
  <2>2. TrimmedInv' /\ PickedInv' /\ UniqueHolder'
    BY <1>4, <2>1, OtherRequestsTrimmed DEF PoolInv
  <2> QED
    BY <1>1, <2>1, <2>2 DEF PoolInv, SeatsInv
<1>5. CASE RevocationNext
  <2>1. PickedFree' /\ RevocableRead' /\ AllocationKept /\ ActivationRead'
    BY <1>5, RevocationPool, RevocationKeeps, RevocationKeepsEmail
  <2>2. TrimmedInv' /\ PickedInv' /\ UniqueHolder'
    BY <1>5, <2>1, OtherRequestsTrimmed DEF PoolInv
  <2> QED
    BY <1>1, <2>1, <2>2 DEF PoolInv, SeatsInv
<1>6. CASE AutoApplyNext \/ FreezeNext
  BY <1>6 DEF Premise, OneRevoker, AutoApplyNext, FreezeNext
<1> QED
  BY <1>2, <1>3, <1>4, <1>5, <1>6 DEF Next

-----------------------------------------------------------------------------
(***************************************************************************)
(* The refinement, one step of the endpoints after the other.              *)
(***************************************************************************)

\* The seats that are held are those of the allocated licenses.
LEMMA HeldSeats ==
    ASSUME CoherentInv
    PROVE  Pool!Held = {l \in Licenses : Allocated(l)}
BY TableAssumption
DEF Pool!Held, HolderOf, Allocated, CoherentInv, HoldersCoherent, RowCoherent

LEMMA PoolStutters ==
    ASSUME UNCHANGED licenses
    PROVE  UNCHANGED Pool!entitlementVars
BY DEF Pool!entitlementVars, HolderOf, Unassigned, Withdrawn, Allocated

\* The commit of an assignment grants the seats that it picked.
LEMMA WriteGrants ==
    ASSUME PoolInv, PoolInv', NEW r \in Assigners, AssignWrite(r)
    PROVE  Pool!Grant \/ UNCHANGED Pool!entitlementVars
<1> USE DEF PoolInv, SeatsInv, CoherentInv, TypeOK, TableTypeOK
<1> DEFINE S == InMemory(r)
<1>0. r \in Requests
  BY DEF Requests
<1>1. S \subseteq Unassigned /\ S \subseteq Licenses
  BY DEF AssignWrite, PickedFree, InMemory
<1>2. \A l \in Licenses \ S : licenses'[l] = licenses[l]
  BY DEF AssignWrite
<1>3. \A l \in S : licenses'[l] = KeepLmsUser(view[r][l], licenses[l])
  BY <1>1 DEF AssignWrite, Stored, Unassigned
<1>4. \A l \in S : licenses'[l].status = "assigned" /\ licenses'[l].user_email \in Emails
  <2>1. \A l \in S : view[r][l].status = "assigned" /\ view[r][l].user_email \in Emails
    <3>1. \A l \in Licenses : RowCoherent(view[r][l])
      BY <1>0 DEF MemoryCoherent
    <3>2. \A l \in Licenses : view[r][l].status \in {"absent", "assigned"}
      BY <1>0 DEF AssignWrite, WritesAssigned
    <3> QED
      BY <3>1, <3>2 DEF RowCoherent, InMemory
  <2> SUFFICES ASSUME NEW l \in S
               PROVE  licenses'[l].status = "assigned" /\ licenses'[l].user_email \in Emails
    OBVIOUS
  <2>2. licenses'[l] = KeepLmsUser(view[r][l], licenses[l])
    BY <1>3
  <2> HIDE DEF S, PoolInv
  <2> QED
    BY <2>1, <2>2 DEF KeepLmsUser
<1> HIDE DEF S
<1>5. CASE S = {}
  <2>1. licenses' = licenses
    BY <1>2, <1>5
  <2> QED
    BY <2>1, PoolStutters
<1>6. CASE S # {}
  <2>1. HolderOf' \in [Licenses -> Emails \union {NoEmail}]
    BY DEF HolderOf, Allocated, Row
  <2>2. \A s \in Licenses \ S : HolderOf'[s] = HolderOf[s]
    BY <1>2 DEF HolderOf, Allocated
  <2>3. \A s \in S : HolderOf'[s] # NoEmail
    BY <1>1, <1>4, TableAssumption DEF HolderOf, Allocated
  <2>4. \A s \in S : \A t \in Licenses \ {s} : HolderOf'[t] # HolderOf'[s]
    <3> SUFFICES ASSUME NEW s \in S, NEW t \in Licenses, HolderOf'[t] = HolderOf'[s]
                 PROVE  t = s
      OBVIOUS
    <3>1. \A l \in Licenses : HolderOf'[l] # NoEmail =>
             Allocated(l)' /\ HolderOf'[l] = licenses'[l].user_email
      BY DEF HolderOf
    <3>2. UniqueHolder'
      OBVIOUS
    <3> QED
      BY <1>1, <2>3, <3>1, <3>2 DEF UniqueHolder
  <2>5. Unassigned' = Unassigned \ S
    BY <1>1, <1>2, <1>4 DEF Unassigned
  <2>6. Withdrawn' = Withdrawn
    BY <1>1, <1>2, <1>4 DEF Withdrawn, Unassigned
  <2>7. S \in (SUBSET Unassigned) \ {{}}
    BY <1>1, <1>6
  <2> HIDE DEF PoolInv, SeatsInv, CoherentInv, TypeOK, TableTypeOK
  <2> QED
    BY <2>1, <2>2, <2>3, <2>4, <2>5, <2>6, <2>7 DEF Pool!Grant
<1> QED
  BY <1>5, <1>6

\* The commit of a revocation withdraws seats, and replaces them.
LEMMA CommitWithdraws ==
    ASSUME PoolInv, NEW r \in Revokers, RevokeCommit(r)
    PROVE  Pool!Withdraw \/ UNCHANGED Pool!entitlementVars
<1> USE DEF PoolInv, SeatsInv, CoherentInv, TypeOK, TableTypeOK
<1> DEFINE S == InMemory(r)
<1>1. \A l \in S : l \in Licenses /\ Allocated(l)
  BY DEF RevokeCommit, RevocableRead, InMemory
<1>2. PICK N \in FreshLicenses(Cardinality(S)) :
         licenses' = [l \in Licenses |->
                        IF l \in S THEN RevokedRow(view[r][l])
                        ELSE IF l \in N THEN UnassignedRow ELSE licenses[l]]
  BY DEF RevokeCommit
<1>3. /\ N \in SUBSET {l \in Licenses : licenses[l].status = "absent"}
      /\ Cardinality(N) = Cardinality(S)
  BY <1>2 DEF FreshLicenses
<1> HIDE DEF S
<1>4. /\ \A l \in S : licenses'[l].status = "revoked"
      /\ \A l \in N : l \notin S /\ licenses'[l] = UnassignedRow
      /\ \A l \in Licenses : l \notin S /\ l \notin N => licenses'[l] = licenses[l]
  BY <1>1, <1>2, <1>3 DEF RevokedRow, Allocated
<1>5. CASE S = {}
  <2>1. N = {}
    BY <1>3, <1>5, TableAssumption, FS_EmptySet, FS_Subset
  <2>2. licenses' = licenses
    BY <1>2, <1>5, <2>1
  <2> QED
    BY <2>2, PoolStutters
<1>6. CASE S # {}
  <2>1. HolderOf' = [s \in Licenses |-> IF s \in S THEN NoEmail ELSE HolderOf[s]]
    BY <1>1, <1>3, <1>4 DEF HolderOf, Allocated, UnassignedRow
  <2>2. Unassigned' = Unassigned \union N
    <3> HIDE DEF PoolInv
    <3> QED
      BY <1>1, <1>3, <1>4 DEF Unassigned, Allocated, UnassignedRow
  <2>3. Withdrawn' = Withdrawn \union S
    <3> HIDE DEF PoolInv
    <3> QED
      BY <1>1, <1>3, <1>4 DEF Withdrawn, Allocated, UnassignedRow
  <2>4. Pool!Held = {l \in Licenses : Allocated(l)}
    BY HeldSeats
  <2>5. N \in SUBSET Pool!Unused
    BY <1>3, <2>4 DEF Pool!Unused, Allocated, Unassigned, Withdrawn
  <2>6. S \in (SUBSET Pool!Held) \ {{}}
    BY <1>1, <1>6, <2>4
  <2> HIDE DEF PoolInv, SeatsInv, CoherentInv, TypeOK, TableTypeOK
  <2> QED
    BY <1>3, <2>1, <2>2, <2>3, <2>5, <2>6 DEF Pool!Withdraw, Pool!Cardinality, Cardinality
<1> QED
  BY <1>5, <1>6

\* Every other step leaves the pool alone.
LEMMA PoolSimulated ==
    ASSUME Premise, PoolInv, PoolInv', [Next]_vars, [SavesNoRevoked]_vars
    PROVE  Pool!Grant \/ Pool!Withdraw \/ UNCHANGED Pool!entitlementVars
<1>1. CASE UNCHANGED licenses
  BY <1>1, PoolStutters
<1>2. CASE AssignNext
  BY <1>1, <1>2, WriteGrants DEF AssignNext, AssignStep, AssignGet, AssignSet, AssignTrim,
     AssignCount, AssignPick, AssignFail, AssignRelease, AssignCrash, LockExpire, tableVars
<1>3. CASE ActivationNext /\ SavesNoRevoked
  BY <1>3, ActivationTable DEF Pool!entitlementVars
<1>4. CASE RevocationNext
  BY <1>1, <1>4, CommitWithdraws DEF RevocationNext, RevokeStart, RevokeSelect,
     RevokeAllSelect, RevokeRollback, tableVars
<1>5. CASE AutoApplyNext \/ FreezeNext
  BY <1>5 DEF Premise, OneRevoker, AutoApplyNext, FreezeNext
<1> QED
  BY <1>1, <1>2, <1>3, <1>4, <1>5 DEF Next, vars

LEMMA PoolStarts == Init => Pool!EntitlementInit
BY TableAssumption
DEF Init, InitTable, Pool!EntitlementInit, HolderOf, Unassigned, Withdrawn, Allocated,
    UnassignedRow, AbsentRow

(***************************************************************************)
(* The endpoints implement the pool: with no open window of the lock and   *)
(* one revocation at a time, every interleaving of assignments,            *)
(* activations and a revocation, with their failures and crashes, grants   *)
(* and withdraws whole sets of seats, or does nothing.  One thing breaks   *)
(* it, and nothing else does: an activation that saves its row over a      *)
(* license that was revoked since it read it.                              *)
(***************************************************************************)
THEOREM EndpointsImplementPool ==
    NoOpenWindow /\ AutoAppliers = {} /\ OneRevoker =>
       (Spec /\ NoStaleSave => ImplementsPool)
<1> SUFFICES ASSUME Premise PROVE Spec /\ NoStaleSave => ImplementsPool
  BY DEF Premise
<1>1. PoolInv /\ [Next]_vars /\ [SavesNoRevoked]_vars => PoolInv'
  BY PoolStep
<1>2. PoolInv /\ PoolInv' /\ [Next]_vars /\ [SavesNoRevoked]_vars =>
         [Pool!Grant \/ Pool!Withdraw]_(Pool!entitlementVars)
  BY PoolSimulated
<1> QED
  BY <1>1, <1>2, PoolInit, PoolStarts, PTL
  DEF Spec, NoStaleSave, ImplementsPool, Pool!EntitlementSpec

-----------------------------------------------------------------------------
(***************************************************************************)
(* What revocations cost.  A plan keeps its size whatever overlaps, since  *)
(* nothing but a freeze and a revocation takes a license out of it.        *)
(***************************************************************************)
Counted == {l \in Licenses : licenses[l].status \in {"unassigned", "assigned", "activated"}}

\* What activations and auto-applies save is counted, and what a revocation has
\* read was stored.
SavesCounted ==
    \A r \in Activators \union AutoAppliers : \A l \in InMemory(r) :
       view[r][l].status \in {"unassigned", "activated"}

ReadsStored ==
    \A r \in Revokers : \A l \in InMemory(r) : licenses[l].status # "absent"

SizeInv == CoherentInv /\ SavesCounted /\ ReadsStored

LEMMA SizeInit == Init => SizeInv
<1>1. Init => SavesCounted /\ ReadsStored
  BY DEF Init, InitTable, SavesCounted, ReadsStored, InMemory, NoRows, AbsentRow, Requests
<1> QED
  BY <1>1, CoherentInit DEF SizeInv

\* No step takes a license out of the table.
LEMMA NeverAbsent ==
    ASSUME CoherentInv, SavesCounted, [Next]_vars, NEW l \in Licenses, licenses[l].status # "absent"
    PROVE  licenses'[l].status # "absent"
<1> USE DEF CoherentInv, TypeOK, TableTypeOK
<1>0. /\ \A q \in Requests : InMemory(q) = {m \in Licenses : view[q][m].status # "absent"}
      /\ Assigners \subseteq Requests /\ Revokers \subseteq Requests /\ Freezers \subseteq Requests
  BY DEF InMemory, Requests
<1>1. CASE UNCHANGED licenses
  BY <1>1
<1>2. ASSUME NEW r \in Assigners, AssignWrite(r)
      PROVE  licenses'[l].status # "absent"
  BY <1>0, <1>2 DEF AssignWrite, KeepLmsUser
<1>3. ASSUME NEW r \in Requests, SaveRow(r)
      PROVE  licenses'[l].status # "absent"
  BY <1>3 DEF SaveRow, Saved
<1>4. ASSUME NEW r \in Activators, ActivateReset(r)
      PROVE  licenses'[l].status # "absent"
  BY <1>4 DEF ActivateReset, Duplicates, InMemory, UnassignedRow
<1>5. ASSUME NEW r \in Revokers, RevokeCommit(r)
      PROVE  licenses'[l].status # "absent"
  BY <1>5 DEF RevokeCommit, RevokedRow, UnassignedRow
<1>6. ASSUME NEW r \in Freezers, FreezeDelete(r)
      PROVE  licenses'[l].status # "absent"
  BY <1>6 DEF FreezeDelete, DeletedRow
<1>7. CASE AssignNext
  BY <1>1, <1>2, <1>7 DEF AssignNext, AssignStep, AssignGet, AssignSet, AssignTrim,
     AssignCount, AssignPick, AssignFail, AssignRelease, AssignCrash, LockExpire, tableVars
<1>8. CASE AutoApplyNext
  BY <1>1, <1>3, <1>8 DEF AutoApplyNext, AutoApplyCheck, AutoApplyPick, AutoApplyNone, FullClean,
     tableVars, Requests
<1>9. CASE ActivationNext
  BY <1>1, <1>3, <1>4, <1>9 DEF ActivationNext, ActivationStep, ActivateLookup, ActivateSelect,
     ActivateGone, ActivateReady, FullClean, tableVars, Requests
<1>10. CASE RevocationNext
  BY <1>1, <1>5, <1>10 DEF RevocationNext, RevokeStart, RevokeSelect, RevokeAllSelect,
     RevokeRollback, tableVars
<1>11. CASE FreezeNext
  BY <1>1, <1>6, <1>11 DEF FreezeNext, FreezeCollect, tableVars
<1> QED
  BY <1>1, <1>7, <1>8, <1>9, <1>10, <1>11 DEF Next, vars

\* What a request may have in memory after a step.
LEMMA MemoryOf ==
    ASSUME CoherentInv, [Next]_vars, NEW r \in Activators \union AutoAppliers \union Revokers,
           NEW l \in InMemory(r)'
    PROVE  /\ l \in Licenses
           /\ \/ l \in InMemory(r) /\ view'[r][l] = view[r][l]
              \/ r \in Activators /\ view'[r][l].status \in {"unassigned", "activated"}
              \/ r \in AutoAppliers /\ view'[r][l].status = "activated"
              \/ r \in Revokers /\ Allocated(l) /\ view'[r][l] = licenses[l] /\ licenses' = licenses
<1> USE DEF CoherentInv, TypeOK, TableTypeOK
<1> DEFINE Goal == \/ l \in InMemory(r) /\ view'[r][l] = view[r][l]
                   \/ r \in Activators /\ view'[r][l].status \in {"unassigned", "activated"}
                   \/ r \in AutoAppliers /\ view'[r][l].status = "activated"
                   \/ r \in Revokers /\ Allocated(l) /\ view'[r][l] = licenses[l] /\ licenses' = licenses
<1>0. r \in Requests /\ r \notin Assigners /\ r \notin Freezers /\ l \in Licenses
      /\ view'[r][l].status # "absent"
  BY KindsDisjoint DEF Requests, InMemory
<1> SUFFICES Goal
  BY <1>0
<1>1. ASSUME view'[r] = view[r]
      PROVE  Goal
  BY <1>0, <1>1 DEF InMemory
<1>a. CASE UNCHANGED view
  <2>1. view'[r] = view[r]
    BY <1>a
  <2> QED
    BY <1>1, <2>1
<1>2. ASSUME NEW q \in Requests, q # r, NEW rows, view' = [view EXCEPT ![q] = rows]
      PROVE  Goal
  BY <1>0, <1>1, <1>2
<1>3. ASSUME NEW q \in Requests, Done(q)
      PROVE  Goal
  BY <1>0, <1>1, <1>3 DEF Done, NoRows, AbsentRow
<1>4. CASE AssignNext
  <2>1. ASSUME NEW q \in Assigners, AssignPick(q)
        PROVE  Goal
    <3>1. view'[r] = view[r]
      BY <1>0, <2>1 DEF AssignPick
    <3> QED
      BY <1>1, <3>1
  <2> HIDE DEF Goal, CoherentInv, TypeOK, TableTypeOK
  <2>2. \/ UNCHANGED view
        \/ \E q \in Assigners : q \in Requests /\ (Done(q) \/ AssignPick(q))
    BY <1>4 DEF AssignNext, AssignStep, AssignGet, AssignSet, AssignTrim, AssignCount,
       AssignWrite, AssignFail, AssignRelease, AssignCrash, LockExpire, localVars, Requests
  <2> QED
    BY <1>a, <1>3, <2>1, <2>2
<1>5. CASE AutoApplyNext
  <2>1. ASSUME NEW q \in AutoAppliers, AutoApplyPick(q)
        PROVE  Goal
    <3>1. CASE q # r
      <4>1. view'[r] = view[r]
        BY <1>0, <2>1, <3>1 DEF AutoApplyPick
      <4> QED
        BY <1>1, <4>1
    <3>2. CASE q = r
      BY <1>0, <2>1, <3>2 DEF AutoApplyPick, RowsOf, AbsentRow, ActivatedRow
    <3> QED
      BY <3>1, <3>2
  <2> HIDE DEF Goal, CoherentInv, TypeOK, TableTypeOK
  <2>2. \/ UNCHANGED view
        \/ \E q \in AutoAppliers : q \in Requests /\ (Done(q) \/ AutoApplyPick(q))
    BY <1>5 DEF AutoApplyNext, AutoApplyCheck, AutoApplyNone, FullClean, SaveRow,
       localVars, Requests
  <2> QED
    BY <1>a, <1>3, <2>1, <2>2
<1>6. CASE ActivationNext
  <2>1. ASSUME NEW q \in Activators, ActivateSelect(q)
        PROVE  Goal
    <3>1. CASE q # r
      <4>1. view'[r] = view[r]
        BY <1>0, <2>1, <3>1 DEF ActivateSelect
      <4> QED
        BY <1>1, <4>1
    <3>2. CASE q = r
      BY <1>0, <2>1, <3>2 DEF ActivateSelect, RowsOf, AbsentRow, ActivatedRow, UnassignedRow
    <3> QED
      BY <3>1, <3>2
  <2>2. ASSUME NEW q \in Activators, ActivateReset(q)
        PROVE  Goal
    BY <1>0, <2>2 DEF ActivateReset, InMemory, AbsentRow, Duplicates
  <2> HIDE DEF Goal, CoherentInv, TypeOK, TableTypeOK
  <2>3. \/ UNCHANGED view
        \/ \E q \in Activators : q \in Requests /\ (Done(q) \/ ActivateSelect(q) \/ ActivateReset(q))
    BY <1>6 DEF ActivationNext, ActivationStep, ActivateLookup, ActivateGone,
       ActivateReady, FullClean, SaveRow, localVars, Requests
  <2> QED
    BY <1>a, <1>3, <2>1, <2>2, <2>3
<1>7. CASE RevocationNext
  <2>1. ASSUME NEW q \in Revokers, RevokeSelect(q) \/ RevokeAllSelect(q)
        PROVE  Goal
    <3>1. \A e : RevocableFor(e) \subseteq {m \in Licenses : Allocated(m)}
      BY DEF RevocableFor, AllocatedTo
    <3>2. \/ Done(q)
          \/ \E L \in SUBSET {m \in Licenses : Allocated(m)} : view' = [view EXCEPT ![q] = RowsOf(L, licenses)]
      <4> HIDE DEF CoherentInv, TypeOK, TableTypeOK
      <4>1. CASE RevokeSelect(q)
        BY <3>1, <4>1 DEF RevokeSelect, Selections
      <4>2. CASE RevokeAllSelect(q)
        BY <4>2 DEF RevokeAllSelect
      <4> QED
        BY <2>1, <4>1, <4>2
    <3>3. UNCHANGED licenses
      BY <2>1 DEF RevokeSelect, RevokeAllSelect, tableVars
    <3>4. ASSUME NEW L \in SUBSET {m \in Licenses : Allocated(m)}, view' = [view EXCEPT ![q] = RowsOf(L, licenses)]
          PROVE  Goal
      <4>1. CASE q # r
        BY <1>0, <1>1, <3>4, <4>1
      <4>2. CASE q = r
        BY <1>0, <3>3, <3>4, <4>2 DEF RowsOf, AbsentRow
      <4> QED
        BY <4>1, <4>2
    <3> HIDE DEF Goal
    <3> QED
      BY <1>3, <3>2, <3>4 DEF Requests
  <2> HIDE DEF Goal, CoherentInv, TypeOK, TableTypeOK
  <2>2. \/ UNCHANGED view
        \/ \E q \in Revokers : q \in Requests /\ (Done(q) \/ RevokeSelect(q) \/ RevokeAllSelect(q))
    BY <1>7 DEF RevocationNext, RevokeStart, RevokeCommit, RevokeRollback, Requests
  <2> QED
    BY <1>a, <1>3, <2>1, <2>2
<1>8. CASE FreezeNext
  <2>1. ASSUME NEW q \in Freezers, FreezeCollect(q)
        PROVE  Goal
    <3>1. view'[r] = view[r]
      BY <1>0, <2>1 DEF FreezeCollect
    <3> QED
      BY <1>1, <3>1
  <2> HIDE DEF Goal, CoherentInv, TypeOK, TableTypeOK
  <2>2. \E q \in Freezers : q \in Requests /\ (Done(q) \/ FreezeCollect(q))
    BY <1>8 DEF FreezeNext, FreezeDelete, Requests
  <2> QED
    BY <1>3, <2>1, <2>2
<1>9. CASE UNCHANGED vars
  BY <1>a, <1>9 DEF vars
<1> HIDE DEF Goal
<1> QED
  BY <1>4, <1>5, <1>6, <1>7, <1>8, <1>9 DEF Next

LEMMA SizeStep ==
    ASSUME SizeInv, [Next]_vars
    PROVE  SizeInv'
<1> USE DEF SizeInv
<1>1. CoherentInv'
  BY CoherentStep
<1>2. SavesCounted'
  <2> SUFFICES ASSUME NEW r \in Activators \union AutoAppliers, NEW l \in InMemory(r)'
               PROVE  view'[r][l].status \in {"unassigned", "activated"}
    BY DEF SavesCounted
  <2>1. r \notin Revokers
    BY KindsDisjoint
  <2> QED
    BY <2>1, MemoryOf DEF SavesCounted
<1>3. ReadsStored'
  <2> SUFFICES ASSUME NEW r \in Revokers, NEW l \in InMemory(r)'
               PROVE  licenses'[l].status # "absent"
    BY DEF ReadsStored
  <2>1. r \notin Activators /\ r \notin AutoAppliers
    BY KindsDisjoint
  <2>2. l \in Licenses /\ (l \in InMemory(r) \/ Allocated(l))
    BY <2>1, MemoryOf
  <2>3. licenses[l].status # "absent"
    BY <2>2 DEF ReadsStored, Allocated
  <2> QED
    BY <2>2, <2>3, NeverAbsent
<1> QED
  BY <1>1, <1>2, <1>3

\* Only a revocation takes licenses out of the plan's size.
LEMMA OthersCount ==
    ASSUME SizeInv, Freezers = {}, [Next]_vars, ~RevocationNext
    PROVE  Counted \subseteq Counted'
<1> USE DEF SizeInv, CoherentInv, TypeOK, TableTypeOK
<1>1. CASE UNCHANGED licenses
  BY <1>1 DEF Counted
<1>2. ASSUME NEW r \in Assigners, AssignWrite(r)
      PROVE  Counted \subseteq Counted'
  <2>1. r \in Requests /\ \A l \in InMemory(r) : l \in Licenses /\ view[r][l].status = "assigned"
    BY <1>2 DEF AssignWrite, WritesAssigned, InMemory, Requests
  <2> QED
    BY <1>2, <2>1 DEF AssignWrite, KeepLmsUser, Counted
<1>3. ASSUME NEW r \in Activators \union AutoAppliers, SaveRow(r)
      PROVE  Counted \subseteq Counted'
  BY <1>3 DEF SaveRow, Saved, Counted, SavesCounted, InMemory
<1>4. ASSUME NEW r \in Activators, ActivateReset(r)
      PROVE  Counted \subseteq Counted'
  BY <1>4 DEF ActivateReset, Duplicates, InMemory, UnassignedRow, Counted
<1>5. CASE AssignNext
  BY <1>1, <1>2, <1>5 DEF AssignNext, AssignStep, AssignGet, AssignSet, AssignTrim,
     AssignCount, AssignPick, AssignFail, AssignRelease, AssignCrash, LockExpire, tableVars
<1>6. CASE AutoApplyNext
  BY <1>1, <1>3, <1>6 DEF AutoApplyNext, AutoApplyCheck, AutoApplyPick, AutoApplyNone, FullClean,
     tableVars
<1>7. CASE ActivationNext
  BY <1>1, <1>3, <1>4, <1>7 DEF ActivationNext, ActivationStep, ActivateLookup, ActivateSelect,
     ActivateGone, ActivateReady, FullClean, tableVars
<1>8. CASE FreezeNext
  BY <1>8 DEF FreezeNext
<1> QED
  BY <1>1, <1>5, <1>6, <1>7, <1>8 DEF Next, vars

\* A revocation puts as many in as it takes out.
LEMMA CommitCounts ==
    ASSUME SizeInv, NEW r \in Revokers, RevokeCommit(r)
    PROVE  Cardinality(Counted) <= Cardinality(Counted')
<1> USE DEF SizeInv, CoherentInv, TypeOK, TableTypeOK
<1> DEFINE S == InMemory(r)
<1>1. S \in SUBSET Licenses /\ \A l \in S : licenses[l].status # "absent"
  BY DEF ReadsStored, InMemory
<1>2. PICK N \in FreshLicenses(Cardinality(S)) :
         licenses' = [l \in Licenses |->
                        IF l \in S THEN RevokedRow(view[r][l])
                        ELSE IF l \in N THEN UnassignedRow ELSE licenses[l]]
  BY DEF RevokeCommit
<1>3. N \in SUBSET {l \in Licenses : licenses[l].status = "absent"} /\ Cardinality(N) = Cardinality(S)
  BY <1>2 DEF FreshLicenses
<1> HIDE DEF S
<1>4. N \intersect S = {} /\ N \intersect (Counted \ S) = {}
  BY <1>1, <1>3 DEF Counted
<1>5. (Counted \ S) \union N \subseteq Counted' /\ Counted' \subseteq Licenses /\ Counted \subseteq Licenses
  BY <1>2, <1>3, <1>4 DEF Counted, UnassignedRow
<1>6. /\ IsFiniteSet(S) /\ IsFiniteSet(N) /\ IsFiniteSet(Counted) /\ IsFiniteSet(Counted')
      /\ IsFiniteSet(Counted \ S) /\ IsFiniteSet(Counted \intersect S)
  <2>1. Counted \ S \subseteq Licenses /\ Counted \intersect S \subseteq Licenses /\ N \subseteq Licenses
    BY <1>3, <1>5
  <2> QED
    BY <1>1, <1>5, <2>1, TableAssumption, FS_Subset
<1>7. Cardinality(Counted \ S) = Cardinality(Counted) - Cardinality(Counted \intersect S)
  BY <1>6, FS_Difference
<1>8. Cardinality(Counted \intersect S) <= Cardinality(S)
  BY <1>6, FS_Subset
<1>9. Cardinality((Counted \ S) \union N) = Cardinality(Counted \ S) + Cardinality(N)
  <2>1. (Counted \ S) \intersect N = {}
    BY <1>4
  <2>2. Cardinality((Counted \ S) \intersect N) = 0
    BY <2>1, FS_EmptySet
  <2>3. Cardinality(Counted \ S) \in Nat /\ Cardinality(N) \in Nat
    BY <1>6, FS_CardinalityType
  <2>4. Cardinality((Counted \ S) \union N) =
          Cardinality(Counted \ S) + Cardinality(N) - Cardinality((Counted \ S) \intersect N)
    BY <1>6, FS_Union, Zenon
  <2> QED
    BY <2>2, <2>3, <2>4
<1>10. Cardinality((Counted \ S) \union N) <= Cardinality(Counted')
  BY <1>5, <1>6, FS_Subset
<1>11. /\ Cardinality(S) \in Nat /\ Cardinality(N) \in Nat /\ Cardinality(Counted) \in Nat
       /\ Cardinality(Counted') \in Nat /\ Cardinality(Counted \ S) \in Nat
       /\ Cardinality(Counted \intersect S) \in Nat
  BY <1>6, FS_CardinalityType
<1> QED
  BY <1>3, <1>7, <1>8, <1>9, <1>10, <1>11

LEMMA SizeKept ==
    ASSUME SizeInv, Freezers = {}, [Next]_vars
    PROVE  NumLicenses \in Nat /\ NumLicenses' \in Nat /\ NumLicenses' >= NumLicenses
<1>1. Counted \subseteq Licenses /\ Counted' \subseteq Licenses
  BY DEF Counted
<1>2. /\ IsFiniteSet(Counted) /\ IsFiniteSet(Counted')
      /\ Cardinality(Counted) \in Nat /\ Cardinality(Counted') \in Nat
  BY <1>1, TableAssumption, FS_Subset, FS_CardinalityType
<1>3. NumLicenses = Cardinality(Counted) /\ NumLicenses' = Cardinality(Counted')
  BY DEF NumLicenses, Counted
<1>4. Cardinality(Counted) <= Cardinality(Counted')
  <2>1. ASSUME Counted \subseteq Counted'
        PROVE  Cardinality(Counted) <= Cardinality(Counted')
    BY <1>2, <2>1, FS_Subset
  <2>2. CASE ~RevocationNext
    BY <2>1, <2>2, OthersCount
  <2>3. CASE RevocationNext
    <3>1. CASE UNCHANGED licenses
      <4>1. Counted' = Counted
        BY <3>1 DEF Counted
      <4> QED
        BY <2>1, <4>1
    <3> QED
      BY <2>3, <3>1, CommitCounts DEF RevocationNext, RevokeStart, RevokeSelect, RevokeAllSelect,
         RevokeRollback, tableVars
  <2> QED
    BY <2>2, <2>3
<1> QED
  BY <1>2, <1>3, <1>4

(***************************************************************************)
(* However requests overlap, and whatever windows the lock has, no license *)
(* that the customer paid for is lost unless the plan is frozen.           *)
(***************************************************************************)
THEOREM CapacityIsKept == Freezers = {} => (Spec => CapacityNotLost)
<1> SUFFICES ASSUME Freezers = {} PROVE Spec => CapacityNotLost
  OBVIOUS
<1>1. SizeInv /\ [Next]_vars => SizeInv'
  BY SizeStep
<1>2. SizeInv /\ [Next]_vars => [NumLicenses' >= NumLicenses]_vars
  BY SizeKept
<1> QED
  BY <1>1, <1>2, SizeInit, PTL DEF Spec, CapacityNotLost

-----------------------------------------------------------------------------
(***************************************************************************)
(* The cap of revocations.  It is kept while one revocation and one        *)
(* activation run at a time and assignments exclude each other: what is    *)
(* revoked and was activated has then been counted.                        *)
(***************************************************************************)
OneActivator == \A q, r \in Activators : q = r

OneAssigner == \A q, r \in Assigners : q = r

CapPremise ==
    /\ OneRevoker /\ OneActivator /\ AutoAppliers = {}
    /\ NoOpenWindow \/ OneAssigner

\* An assigned license was never activated, and a learner has one activated license.
AssignedFresh == \A l \in Licenses : licenses[l].status = "assigned" => licenses[l].lms_user_id = NoEmail

OneActivated ==
    \A l, m \in Licenses :
       (/\ licenses[l].status = "activated" /\ licenses[m].status = "activated"
        /\ licenses[l].user_email = licenses[m].user_email) => l = m

\* What an activation will save is assigned or revoked, and the learner has no
\* activated license when it is to be activated.
ActivationHolds ==
    \A k \in Activators : \A l \in InMemory(k) :
       /\ licenses[l].status \in {"assigned", "revoked"}
       /\ view[k][l].status = "activated" =>
            /\ \A m \in Licenses : licenses[m].status = "activated" =>
                  licenses[m].user_email # view[k][l].user_email
            /\ \A m \in InMemory(k) : view[k][m].status = "activated" => m = l

\* What an assignment has picked is in no other hands.
PickedUntouched ==
    \A r \in Assigners : pc[r] = "write" => \A l \in InMemory(r) :
       /\ ~Allocated(l) /\ licenses[l].lms_user_id = NoEmail
       /\ \A k \in Activators : l \notin InMemory(k)
       /\ \A v \in Revokers : view[v][l].status # "activated"

\* What a revocation has read as activated still is.
ChargedStay ==
    \A v \in Revokers : \A l \in InMemory(v) :
       \/ view[v][l].status = "activated" /\ licenses[l].status = "activated"
       \/ view[v][l].status = "assigned" /\ view[v][l].lms_user_id = NoEmail

\* The revocations of activated licenses are counted, and allowed.
Spent == {l \in Licenses : licenses[l].status = "revoked" /\ licenses[l].lms_user_id # NoEmail}

SpentCounted ==
    /\ Cardinality(Spent) <= num_revocations_applied
    /\ num_revocations_applied <= RevocationsAllowed
    /\ \A v \in Revokers : pc[v] \in {"select", "commit"} => plan_read[v] = num_revocations_applied
    /\ \A v \in Revokers : pc[v] = "commit" /\ Charged(v) # {} =>
          plan_read[v] + Cardinality(Charged(v)) <= RevocationsAllowed

HandsInv == AssignedFresh /\ OneActivated /\ ActivationHolds /\ PickedUntouched /\ ChargedStay

CapInv == SizeInv /\ (NoOpenWindow => LockInv) /\ HandsInv /\ (RevocationCap => SpentCounted)

\* The limit is a number.
LEMMA CapBound == RevocationsAllowed \in Nat
<1>1. NumLicenses \in Nat
  BY TableAssumption, FS_Subset, FS_CardinalityType DEF NumLicenses
<1>2. \A a, b \in Nat : (a * b + 99) \div 100 \in Nat
  OBVIOUS
<1> QED
  BY <1>1, <1>2, RevocationAssumption DEF RevocationsAllowed

LEMMA CapInit == Init => CapInv
<1> SUFFICES ASSUME Init PROVE CapInv
  OBVIOUS
<1>1. /\ \A r \in Requests : pc[r] = "idle" /\ InMemory(r) = {}
      /\ \A l \in Licenses : licenses[l] = UnassignedRow \/ licenses[l] = AbsentRow
      /\ num_revocations_applied = 0
  BY DEF Init, InitTable, InMemory, NoRows, AbsentRow
<1>2. LockInv /\ HandsInv
  BY <1>1, AssignmentInit DEF AssignmentInv, HandsInv, AssignedFresh, OneActivated, ActivationHolds,
     PickedUntouched, ChargedStay, UnassignedRow, AbsentRow, Requests
<1>3. SpentCounted
  <2>1. Spent = {}
    BY <1>1 DEF Spent, UnassignedRow, AbsentRow
  <2>2. Cardinality(Spent) = 0
    BY <2>1, FS_EmptySet
  <2>3. RevocationsAllowed \in Nat
    BY CapBound
  <2> QED
    BY <1>1, <2>2, <2>3 DEF SpentCounted, Requests
<1> QED
  BY <1>2, <1>3, SizeInit DEF CapInv

LEMMA OneInBody ==
    ASSUME CapPremise, CapInv, NEW q \in Assigners, NEW r \in Assigners, InBody(q), InBody(r)
    PROVE  q = r
BY DEF CapPremise, CapInv, LockInv, OneAssigner

\* A step that reads nothing and writes nothing into the table.
LEMMA QuietHands ==
    ASSUME TypeOK, HandsInv, UNCHANGED tableVars, NEW r \in Requests, NEW label, label # "write",
           pc' = [pc EXCEPT ![r] = label],
           \A q \in Requests \ {r} : view'[q] = view[q],
           view'[r] = view[r] \/ view'[r] = NoRows
    PROVE  HandsInv'
<1> USE DEF TypeOK, TableTypeOK, HandsInv
<1>0. /\ licenses' = licenses
      /\ Assigners \subseteq Requests /\ Activators \subseteq Requests /\ Revokers \subseteq Requests
  BY DEF tableVars, Requests
<1>1. \A q \in Requests : /\ pc'[q] = "write" => q # r /\ pc[q] = "write"
                          /\ q # r => InMemory(q)' = InMemory(q) /\ view'[q] = view[q]
  BY DEF InMemory
<1>2. \A q \in Requests : /\ \A l \in InMemory(q)' : l \in InMemory(q) /\ view'[q][l] = view[q][l]
                          /\ \A l \in Licenses : view'[q][l] = view[q][l] \/ view'[q][l].status = "absent"
  BY DEF InMemory, NoRows, AbsentRow
<1>3. AssignedFresh' /\ OneActivated'
  BY <1>0 DEF AssignedFresh, OneActivated
<1>4. ActivationHolds'
  BY <1>0, <1>2 DEF ActivationHolds
<1>5. PickedUntouched'
  <2> SUFFICES ASSUME NEW q \in Assigners, pc'[q] = "write", NEW l \in InMemory(q)'
               PROVE  /\ ~Allocated(l)' /\ licenses'[l].lms_user_id = NoEmail
                      /\ \A k \in Activators : l \notin InMemory(k)'
                      /\ \A v \in Revokers : view'[v][l].status # "activated"
    BY DEF PickedUntouched
  <2>1. pc[q] = "write" /\ l \in InMemory(q) /\ l \in Licenses
    BY <1>0, <1>1, <1>2 DEF InMemory
  <2> QED
    BY <1>0, <1>2, <2>1 DEF PickedUntouched, Allocated
<1>6. ChargedStay'
  BY <1>0, <1>2 DEF ChargedStay
<1> QED
  BY <1>3, <1>4, <1>5, <1>6

LEMMA AssignHands ==
    ASSUME CapPremise, CapInv, AssignNext
    PROVE  HandsInv'
<1> USE DEF CapInv, SizeInv, CoherentInv, TypeOK, TableTypeOK
<1>0. /\ Assigners \subseteq Requests /\ Activators \subseteq Requests /\ Revokers \subseteq Requests
      /\ \A r \in Assigners : r \notin Revokers /\ r \notin Activators
  BY KindsDisjoint DEF Requests
<1>1. ASSUME NEW r \in Assigners, NEW emails \in SUBSET Emails, AssignGet(r, emails)
      PROVE  HandsInv'
  BY <1>0, <1>1, QuietHands DEF AssignGet, Goto
<1>2. ASSUME NEW r \in Assigners,
             AssignSet(r) \/ AssignTrim(r) \/ AssignCount(r) \/ AssignFail(r)
      PROVE  HandsInv'
  <2>1. /\ UNCHANGED <<tableVars, view>>
        /\ \E label \in {"trim", "release", "count", "pick"} : pc' = [pc EXCEPT ![r] = label]
    BY <1>2 DEF AssignSet, AssignTrim, AssignCount, AssignFail, Goto, localVars
  <2> QED
    BY <1>0, <2>1, QuietHands
<1>3. ASSUME NEW r \in Assigners, AssignRelease(r) \/ AssignCrash(r)
      PROVE  HandsInv'
  BY <1>0, <1>3, QuietHands DEF AssignRelease, AssignCrash, Done, Goto
<1>4. ASSUME NEW r \in Assigners, AssignPick(r)
      PROVE  HandsInv'
  <2>1. UNCHANGED tableVars /\ pc' = [pc EXCEPT ![r] = "write"] /\ licenses' = licenses
    BY <1>4 DEF AssignPick, Goto, tableVars
  <2>2. PICK L \in SUBSET Unassigned : \E rows : view' = [view EXCEPT ![r] = RowsOf(L, rows)]
    BY <1>4 DEF AssignPick, Slices
  <2>3. InMemory(r)' \subseteq L
    BY <1>0, <2>2 DEF InMemory, RowsOf, AbsentRow
  <2>4. \A q \in Requests \ {r} : view'[q] = view[q] /\ pc'[q] = pc[q] /\ InMemory(q)' = InMemory(q)
    BY <2>1, <2>2 DEF InMemory
  <2>5. PickedUntouched'
    <3> SUFFICES ASSUME NEW q \in Assigners, pc'[q] = "write", NEW l \in InMemory(q)'
                 PROVE  /\ ~Allocated(l)' /\ licenses'[l].lms_user_id = NoEmail
                        /\ \A k \in Activators : l \notin InMemory(k)'
                        /\ \A v \in Revokers : view'[v][l].status # "activated"
      BY DEF PickedUntouched
    <3>1. q = r
      <4>1. q # r => InBody(q) /\ InBody(r)
        BY <1>0, <1>4, <2>4 DEF AssignPick, InBody, Holding
      <4> QED
        BY <4>1, OneInBody
    <3>2. l \in Unassigned
      BY <2>2, <2>3, <3>1
    <3>3. l \in Licenses /\ licenses[l].status = "unassigned" /\ licenses[l] = UnassignedRow
      BY <3>2 DEF Unassigned, HoldersCoherent, RowCoherent
    <3>4. \A k \in Activators : l \notin InMemory(k)'
      BY <1>0, <2>4, <3>3 DEF HandsInv, ActivationHolds
    <3>5. \A v \in Revokers : view'[v][l].status # "activated"
      BY <1>0, <2>4, <3>3 DEF HandsInv, ChargedStay, InMemory
    <3> QED
      BY <2>1, <3>3, <3>4, <3>5 DEF Allocated, UnassignedRow
  <2>6. AssignedFresh' /\ OneActivated'
    BY <2>1 DEF HandsInv, AssignedFresh, OneActivated
  <2>7. ActivationHolds'
    BY <1>0, <2>1, <2>4 DEF HandsInv, ActivationHolds
  <2>8. ChargedStay'
    BY <1>0, <2>1, <2>4 DEF HandsInv, ChargedStay
  <2> QED
    BY <2>5, <2>6, <2>7, <2>8 DEF HandsInv
<1>5. ASSUME NEW r \in Assigners, AssignWrite(r)
      PROVE  HandsInv'
  <2>1. \A q \in Assigners : pc'[q] # "write"
    <3>1. \A q \in Assigners : pc'[q] = "write" => q # r /\ InBody(q) /\ InBody(r)
      BY <1>0, <1>5 DEF AssignWrite, Goto, InBody, Holding
    <3> QED
      BY <3>1, OneInBody
  <2>2. view' = view /\ \A q \in Requests : InMemory(q)' = InMemory(q)
    BY <1>5 DEF AssignWrite, localVars, InMemory
  <2>3. \A l \in Licenses : \/ licenses'[l] = licenses[l]
                            \/ /\ l \in InMemory(r) /\ licenses'[l].status = "assigned"
                               /\ licenses'[l].lms_user_id = licenses[l].lms_user_id
    BY <1>0, <1>5 DEF AssignWrite, KeepLmsUser, WritesAssigned, InMemory
  <2>4. \A l \in InMemory(r) : /\ ~Allocated(l) /\ licenses[l].lms_user_id = NoEmail
                               /\ \A k \in Activators : l \notin InMemory(k)
                               /\ \A v \in Revokers : view[v][l].status # "activated"
    BY <1>5 DEF AssignWrite, HandsInv, PickedUntouched
  <2>5. AssignedFresh'
    BY <2>3, <2>4 DEF HandsInv, AssignedFresh
  <2>6. \A l \in Licenses : licenses'[l].status = "activated" => licenses'[l] = licenses[l]
    BY <2>3
  <2>7. OneActivated'
    BY <2>6 DEF HandsInv, OneActivated
  <2>8. ActivationHolds'
    <3>1. \A k \in Activators : \A l \in InMemory(k) : licenses'[l] = licenses[l]
      BY <2>3, <2>4 DEF InMemory
    <3> QED
      BY <1>0, <2>2, <2>6, <3>1 DEF HandsInv, ActivationHolds
  <2>9. ChargedStay'
    <3>1. \A v \in Revokers : \A l \in InMemory(v) :
             l \in Licenses /\ (view[v][l].status = "activated" => licenses'[l] = licenses[l])
      BY <2>3, <2>4 DEF InMemory
    <3> QED
      BY <1>0, <2>2, <3>1 DEF HandsInv, ChargedStay
  <2> QED
    BY <2>1, <2>5, <2>7, <2>8, <2>9 DEF HandsInv, PickedUntouched
<1>6. CASE LockExpire
  BY <1>6 DEF LockExpire, tableVars, localVars, HandsInv, AssignedFresh, OneActivated, ActivationHolds,
     PickedUntouched, ChargedStay, InMemory, Allocated
<1> QED
  BY <1>1, <1>2, <1>3, <1>4, <1>5, <1>6 DEF AssignNext, AssignStep

\* An activation that writes only what it has in memory leaves others' hands alone.
LEMMA SavedHands ==
    ASSUME CapPremise, CapInv, NEW k \in Activators,
           \A l \in Licenses : licenses'[l] # licenses[l] =>
              l \in InMemory(k) /\ licenses'[l].status # "assigned",
           OneActivated', ActivationHolds',
           InMemory(k)' \subseteq InMemory(k), \A q \in Requests \ {k} : view'[q] = view[q],
           \A q \in Assigners : pc'[q] = pc[q]
    PROVE  HandsInv'
<1> USE DEF CapInv, SizeInv, CoherentInv, TypeOK, TableTypeOK
<1>0. /\ Assigners \subseteq Requests \ {k} /\ Revokers \subseteq Requests \ {k}
      /\ \A q \in Requests \ {k} : InMemory(q)' = InMemory(q)
      /\ k \in Requests /\ Activators = {k}
  BY KindsDisjoint DEF Requests, InMemory, CapPremise, OneActivator
<1>1. \A l \in InMemory(k) : l \in Licenses /\ licenses[l].status \in {"assigned", "revoked"}
  BY DEF HandsInv, ActivationHolds, InMemory
<1>2. AssignedFresh'
  BY DEF HandsInv, AssignedFresh
<1>3. PickedUntouched'
  <2> SUFFICES ASSUME NEW q \in Assigners, pc'[q] = "write", NEW l \in InMemory(q)'
               PROVE  /\ ~Allocated(l)' /\ licenses'[l].lms_user_id = NoEmail
                      /\ \A i \in Activators : l \notin InMemory(i)'
                      /\ \A v \in Revokers : view'[v][l].status # "activated"
    BY DEF PickedUntouched
  <2>1. pc[q] = "write" /\ l \in InMemory(q) /\ l \in Licenses
    BY <1>0 DEF InMemory
  <2>2. /\ ~Allocated(l) /\ licenses[l].lms_user_id = NoEmail /\ l \notin InMemory(k)
        /\ \A v \in Revokers : view[v][l].status # "activated"
    BY <2>1 DEF HandsInv, PickedUntouched
  <2>3. licenses'[l] = licenses[l]
    BY <2>1, <2>2
  <2> QED
    BY <1>0, <2>2, <2>3 DEF Allocated
<1>4. ChargedStay'
  <2>1. \A v \in Revokers : \A l \in InMemory(v) :
           licenses[l].status = "activated" => licenses'[l] = licenses[l]
    BY <1>1 DEF InMemory
  <2> QED
    BY <1>0, <2>1 DEF HandsInv, ChargedStay
<1> QED
  BY <1>2, <1>3, <1>4 DEF HandsInv

\* An activation selects allocated licenses of one learner, of whom none is activated.
LEMMA SelectHands ==
    ASSUME CapPremise, CapInv, NEW k \in Activators, ActivateSelect(k)
    PROVE  HandsInv'
<1> USE DEF CapInv, SizeInv, CoherentInv, TypeOK, TableTypeOK
<1>0. /\ Assigners \subseteq Requests \ {k} /\ Revokers \subseteq Requests \ {k}
      /\ k \in Requests /\ Activators = {k}
  BY KindsDisjoint DEF Requests, CapPremise, OneActivator
<1>a. PICK e \in todo[k] : \E keep \in Unrevoked(e) :
         /\ \/ licenses[keep].status = "activated"
            \/ \A l \in Unrevoked(e) : licenses[l].status # "activated"
         /\ view' = [view EXCEPT ![k] =
                       RowsOf({l \in Unrevoked(e) :
                                 l # keep \/ licenses[l].status = "assigned"},
                              [l \in Licenses |-> IF l = keep THEN ActivatedRow(e)
                                                  ELSE UnassignedRow])]
  BY DEF ActivateSelect
<1>1. PICK keep \in Unrevoked(e) :
         /\ \/ licenses[keep].status = "activated"
            \/ \A l \in Unrevoked(e) : licenses[l].status # "activated"
         /\ view' = [view EXCEPT ![k] =
                       RowsOf({l \in Unrevoked(e) :
                                 l # keep \/ licenses[l].status = "assigned"},
                              [l \in Licenses |-> IF l = keep THEN ActivatedRow(e)
                                                  ELSE UnassignedRow])]
  BY <1>a
<1>2. /\ UNCHANGED tableVars /\ licenses' = licenses /\ pc' = [pc EXCEPT ![k] = "reset"]
      /\ \A q \in Requests \ {k} : view'[q] = view[q] /\ InMemory(q)' = InMemory(q) /\ pc'[q] = pc[q]
  BY <1>1 DEF ActivateSelect, Goto, tableVars, InMemory
<1>3. e \in Emails
  BY <1>0, <1>a
<1>4. \A l \in Unrevoked(e) : l \in Licenses /\ Allocated(l) /\ licenses[l].user_email = e
  <2>1. \A l \in Licenses : licenses[l].status = "unassigned" => licenses[l].user_email # e
    BY <1>3, TableAssumption DEF HoldersCoherent, RowCoherent, UnassignedRow
  <2>2. \A l \in Licenses : licenses[l].status \in Status
    BY DEF Row
  <2> QED
    BY <2>1, <2>2 DEF Unrevoked, Stored, Allocated, Status
<1>5. \A l \in Licenses : licenses[l].status = "activated" /\ licenses[l].user_email = e => l \in Unrevoked(e)
  BY DEF Unrevoked, Stored
<1>6. \A l \in Unrevoked(e) : licenses[l].status = "activated" => l = keep
  BY <1>1, <1>4 DEF HandsInv, OneActivated
<1>7. \A l \in InMemory(k)' :
         /\ l \in Unrevoked(e) /\ licenses[l].status = "assigned"
         /\ view'[k][l] = IF l = keep THEN ActivatedRow(e) ELSE UnassignedRow
  <2> SUFFICES ASSUME NEW l \in InMemory(k)'
               PROVE  /\ l \in Unrevoked(e) /\ licenses[l].status = "assigned"
                      /\ view'[k][l] = IF l = keep THEN ActivatedRow(e) ELSE UnassignedRow
    OBVIOUS
  <2>1. l \in Unrevoked(e) /\ (l # keep \/ licenses[l].status = "assigned")
        /\ view'[k][l] = IF l = keep THEN ActivatedRow(e) ELSE UnassignedRow
    BY <1>0, <1>1 DEF InMemory, RowsOf, AbsentRow
  <2> QED
    BY <1>4, <1>6, <2>1 DEF Allocated
<1>8. ActivationHolds'
  <2> SUFFICES ASSUME NEW l \in InMemory(k)'
               PROVE  /\ licenses'[l].status \in {"assigned", "revoked"}
                      /\ view'[k][l].status = "activated" =>
                           /\ \A m \in Licenses : licenses'[m].status = "activated" =>
                                 licenses'[m].user_email # view'[k][l].user_email
                           /\ \A m \in InMemory(k)' : view'[k][m].status = "activated" => m = l
    BY <1>0 DEF ActivationHolds
  <2>1. \A m \in InMemory(k)' : view'[k][m].status = "activated" =>
           m = keep /\ view'[k][m].user_email = e
    BY <1>7 DEF ActivatedRow, UnassignedRow
  <2>2. view'[k][l].status = "activated" => \A m \in Licenses : licenses[m].status = "activated" =>
           licenses[m].user_email # e
    BY <1>1, <1>5, <1>7, <2>1
  <2> QED
    BY <1>2, <1>7, <2>1, <2>2
<1>9. PickedUntouched'
  <2> SUFFICES ASSUME NEW q \in Assigners, pc'[q] = "write", NEW l \in InMemory(q)'
               PROVE  /\ ~Allocated(l)' /\ licenses'[l].lms_user_id = NoEmail
                      /\ \A i \in Activators : l \notin InMemory(i)'
                      /\ \A v \in Revokers : view'[v][l].status # "activated"
    BY DEF PickedUntouched
  <2>1. pc[q] = "write" /\ l \in InMemory(q)
    BY <1>0, <1>2
  <2>2. /\ ~Allocated(l) /\ licenses[l].lms_user_id = NoEmail
        /\ \A v \in Revokers : view[v][l].status # "activated"
    BY <2>1 DEF HandsInv, PickedUntouched
  <2>3. l \notin InMemory(k)'
    BY <1>4, <1>7, <2>2
  <2> QED
    BY <1>0, <1>2, <2>2, <2>3 DEF Allocated
<1>10. AssignedFresh' /\ OneActivated' /\ ChargedStay'
  BY <1>0, <1>2 DEF HandsInv, AssignedFresh, OneActivated, ChargedStay
<1> QED
  BY <1>8, <1>9, <1>10 DEF HandsInv

LEMMA ActivationHands ==
    ASSUME CapPremise, CapInv, ActivationNext
    PROVE  HandsInv'
<1> USE DEF CapInv, SizeInv, CoherentInv, TypeOK, TableTypeOK
<1>1. PICK k \in Activators : (\E e \in Emails : ActivateLookup(k, e)) \/ ActivationStep(k)
  BY DEF ActivationNext
<1>0. /\ Assigners \subseteq Requests \ {k} /\ k \in Requests /\ Activators = {k}
  BY KindsDisjoint DEF Requests, CapPremise, OneActivator
<1>2. ASSUME Done(k), UNCHANGED tableVars
      PROVE  HandsInv'
  BY <1>0, <1>2, QuietHands DEF Done, Goto
<1>3. ASSUME UNCHANGED <<tableVars, view>>, NEW label \in {"dups", "clean", "save"},
             pc' = [pc EXCEPT ![k] = label]
      PROVE  HandsInv'
  BY <1>0, <1>3, QuietHands
<1>4. CASE \E e \in Emails : ActivateLookup(k, e)
  BY <1>3, <1>4 DEF ActivateLookup, Goto
<1>5. CASE ActivateGone(k)
  BY <1>2, <1>5 DEF ActivateGone
<1>6. CASE ActivateReady(k)
  BY <1>2, <1>3, <1>6 DEF ActivateReady, Goto, localVars
<1>7. CASE FullClean(k)
  BY <1>2, <1>3, <1>7 DEF FullClean, Goto, localVars
<1>8. CASE ActivateReset(k)
  <2>1. PICK l \in Duplicates(k) : /\ licenses' = [licenses EXCEPT ![l] = UnassignedRow]
                                   /\ view' = [view EXCEPT ![k][l] = AbsentRow]
    BY <1>8 DEF ActivateReset
  <2>2. l \in InMemory(k) /\ l \in Licenses
    BY <2>1 DEF Duplicates, InMemory
  <2>3. \A m \in Licenses : licenses'[m] = IF m = l THEN UnassignedRow ELSE licenses[m]
    BY <2>1
  <2>4. \A m \in InMemory(k)' : m \in Licenses /\ m # l /\ m \in InMemory(k) /\ view'[k][m] = view[k][m]
    BY <1>0, <2>1, <2>2 DEF InMemory, AbsentRow
  <2>5. \A q \in Requests \ {k} : view'[q] = view[q] /\ pc' = pc
    BY <1>8, <2>1 DEF ActivateReset
  <2>6. OneActivated'
    BY <2>3 DEF HandsInv, OneActivated, UnassignedRow
  <2>7. ActivationHolds'
    BY <1>0, <2>3, <2>4 DEF HandsInv, ActivationHolds, UnassignedRow
  <2>8. \A m \in Licenses : licenses'[m] # licenses[m] => m \in InMemory(k) /\ licenses'[m].status # "assigned"
    BY <2>2, <2>3 DEF UnassignedRow
  <2>9. \A q \in Assigners : pc'[q] = pc[q]
    BY <1>8 DEF ActivateReset
  <2> QED
    BY <2>4, <2>5, <2>6, <2>7, <2>8, <2>9, SavedHands
<1>9. CASE SaveRow(k)
  <2>1. \A m \in Licenses : licenses'[m] = IF m \in InMemory(k) THEN view[k][m] ELSE licenses[m]
    BY <1>9 DEF SaveRow, Saved, InMemory
  <2>2. /\ InMemory(k)' = {} /\ \A q \in Requests \ {k} : view'[q] = view[q]
        /\ \A q \in Assigners : pc'[q] = pc[q]
    BY <1>0, <1>9 DEF SaveRow, Done, Goto, InMemory, NoRows, AbsentRow
  <2>3. \A m \in InMemory(k) : view[k][m].status \in {"unassigned", "activated"}
    BY DEF SavesCounted
  <2>4. OneActivated'
    <3> SUFFICES ASSUME NEW l \in Licenses, NEW m \in Licenses,
                        licenses'[l].status = "activated", licenses'[m].status = "activated",
                        licenses'[l].user_email = licenses'[m].user_email
                 PROVE  l = m
      BY DEF OneActivated
    <3>1. CASE l \in InMemory(k)
      BY <2>1, <3>1 DEF HandsInv, ActivationHolds
    <3>2. CASE m \in InMemory(k)
      BY <2>1, <3>2 DEF HandsInv, ActivationHolds
    <3>3. CASE l \notin InMemory(k) /\ m \notin InMemory(k)
      BY <2>1, <3>3 DEF HandsInv, OneActivated
    <3> QED
      BY <3>1, <3>2, <3>3
  <2>5. ActivationHolds'
    BY <1>0, <2>2 DEF ActivationHolds
  <2>6. \A m \in Licenses : licenses'[m] # licenses[m] => m \in InMemory(k) /\ licenses'[m].status # "assigned"
    BY <2>1, <2>3
  <2> QED
    BY <2>2, <2>4, <2>5, <2>6, SavedHands
<1> QED
  BY <1>1, <1>4, <1>5, <1>6, <1>7, <1>8, <1>9, SelectHands DEF ActivationStep

\* What a revocation writes: the rows that it read, and unassigned ones.
LEMMA CommitRows ==
    ASSUME NEW v \in Revokers, RevokeCommit(v), NEW l \in Licenses
    PROVE  \/ licenses'[l] = licenses[l]
           \/ /\ l \in InMemory(v) /\ licenses'[l].status = "revoked"
              /\ licenses'[l].lms_user_id = view[v][l].lms_user_id
           \/ /\ licenses[l].status = "absent"
              /\ licenses'[l].status = "unassigned" /\ licenses'[l].lms_user_id = NoEmail
<1>1. PICK N \in FreshLicenses(Cardinality(InMemory(v))) :
         licenses' = [m \in Licenses |->
                        IF m \in InMemory(v) THEN RevokedRow(view[v][m])
                        ELSE IF m \in N THEN UnassignedRow ELSE licenses[m]]
  BY DEF RevokeCommit
<1>2. N \in SUBSET {m \in Licenses : licenses[m].status = "absent"}
  BY <1>1 DEF FreshLicenses
<1>3. CASE l \in InMemory(v)
  BY <1>1, <1>3 DEF RevokedRow
<1>4. CASE l \notin InMemory(v)
  BY <1>1, <1>2, <1>4 DEF UnassignedRow
<1> QED
  BY <1>3, <1>4

LEMMA RevocationHands ==
    ASSUME CapPremise, CapInv, RevocationNext
    PROVE  HandsInv'
<1> USE DEF CapInv, SizeInv, CoherentInv, TypeOK, TableTypeOK
<1>1. PICK v \in Revokers :
         \/ \E emails \in SUBSET Emails : RevokeStart(v, emails)
         \/ RevokeSelect(v) \/ RevokeAllSelect(v) \/ RevokeCommit(v) \/ RevokeRollback(v)
  BY DEF RevocationNext
<1>0. /\ Assigners \subseteq Requests \ {v} /\ Activators \subseteq Requests \ {v}
      /\ v \in Requests /\ Revokers = {v}
  BY KindsDisjoint DEF Requests, CapPremise, OneRevoker
<1>2. CASE \E emails \in SUBSET Emails : RevokeStart(v, emails)
  BY <1>0, <1>2, QuietHands DEF RevokeStart, Goto
<1>3. CASE RevokeRollback(v)
  BY <1>0, <1>3, QuietHands DEF RevokeRollback, Done, Goto
<1>4. CASE RevokeSelect(v) \/ RevokeAllSelect(v)
  <2>1. UNCHANGED tableVars /\ licenses' = licenses
    BY <1>4 DEF RevokeSelect, RevokeAllSelect, tableVars
  <2>2. \A e : RevocableFor(e) \subseteq {l \in Licenses : Allocated(l)}
    BY DEF RevocableFor, AllocatedTo
  <2>3. CASE Done(v)
    BY <1>0, <2>1, <2>3, QuietHands DEF Done, Goto
  <2>4. ASSUME pc' = [pc EXCEPT ![v] = "commit"], NEW L \in SUBSET {l \in Licenses : Allocated(l)},
               view' = [view EXCEPT ![v] = RowsOf(L, licenses)]
        PROVE  HandsInv'
    <3>1. \A q \in Requests \ {v} : view'[q] = view[q] /\ InMemory(q)' = InMemory(q) /\ pc'[q] = pc[q]
      BY <2>4 DEF InMemory
    <3>2. \A l \in InMemory(v)' : l \in Licenses /\ Allocated(l) /\ view'[v][l] = licenses[l]
      BY <1>0, <2>4 DEF InMemory, RowsOf, AbsentRow
    <3>3. \A l \in Licenses : view'[v][l] = AbsentRow \/ Allocated(l)
      BY <1>0, <2>4 DEF RowsOf
    <3>4. AssignedFresh' /\ OneActivated' /\ ActivationHolds'
      BY <1>0, <2>1, <3>1 DEF HandsInv, AssignedFresh, OneActivated, ActivationHolds
    <3>5. ChargedStay'
      BY <1>0, <2>1, <3>2 DEF HandsInv, AssignedFresh, ChargedStay, Allocated
    <3>6. PickedUntouched'
      <4> SUFFICES ASSUME NEW q \in Assigners, pc'[q] = "write", NEW l \in InMemory(q)'
                   PROVE  /\ ~Allocated(l)' /\ licenses'[l].lms_user_id = NoEmail
                          /\ \A k \in Activators : l \notin InMemory(k)'
                          /\ view'[v][l].status # "activated"
        BY <1>0 DEF PickedUntouched
      <4>1. pc[q] = "write" /\ l \in InMemory(q) /\ l \in Licenses
        BY <1>0, <3>1 DEF InMemory
      <4>2. /\ ~Allocated(l) /\ licenses[l].lms_user_id = NoEmail
            /\ \A k \in Activators : l \notin InMemory(k)
        BY <4>1 DEF HandsInv, PickedUntouched
      <4> QED
        BY <1>0, <2>1, <3>1, <3>3, <4>1, <4>2 DEF Allocated, AbsentRow
    <3> QED
      BY <3>4, <3>5, <3>6 DEF HandsInv
  <2>5. CASE RevokeSelect(v)
    <3> HIDE DEF CapInv, SizeInv, CoherentInv, TypeOK, TableTypeOK
    <3> QED
      BY <2>2, <2>3, <2>4, <2>5 DEF RevokeSelect, Selections, Goto
  <2>6. CASE RevokeAllSelect(v)
    <3> HIDE DEF CapInv, SizeInv, CoherentInv, TypeOK, TableTypeOK
    <3> QED
      BY <2>4, <2>6 DEF RevokeAllSelect, Goto
  <2> QED
    BY <1>4, <2>5, <2>6
<1>5. CASE RevokeCommit(v)
  <2>3. /\ pc' = [pc EXCEPT ![v] = "idle"] /\ InMemory(v)' = {} /\ \A l \in Licenses : view'[v][l] = AbsentRow
        /\ \A q \in Requests \ {v} : view'[q] = view[q] /\ InMemory(q)' = InMemory(q) /\ pc'[q] = pc[q]
    BY <1>0, <1>5 DEF RevokeCommit, Done, Goto, InMemory, NoRows, AbsentRow
  <2>4. \A l \in Licenses :
           \/ licenses'[l] = licenses[l]
           \/ /\ l \in InMemory(v) /\ licenses'[l].status = "revoked"
              /\ licenses'[l].lms_user_id = view[v][l].lms_user_id
           \/ /\ licenses[l].status = "absent"
              /\ licenses'[l].status = "unassigned" /\ licenses'[l].lms_user_id = NoEmail
    BY <1>5, CommitRows
  <2> HIDE DEF CapInv, SizeInv, CoherentInv, TypeOK, TableTypeOK
  <2>a. HandsInv
    BY DEF CapInv
  <2>5. \A l \in Licenses : licenses'[l].status \in {"assigned", "activated"} => licenses'[l] = licenses[l]
    BY <2>4
  <2>6. AssignedFresh' /\ OneActivated'
    BY <2>a, <2>5 DEF HandsInv, AssignedFresh, OneActivated
  <2>7. ActivationHolds'
    <3>1. \A k \in Activators : \A l \in InMemory(k) :
             l \in Licenses /\ licenses'[l].status \in {"assigned", "revoked"}
      BY <2>4, <2>a DEF HandsInv, ActivationHolds, InMemory
    <3> QED
      BY <1>0, <2>3, <2>5, <2>a, <3>1 DEF HandsInv, ActivationHolds
  <2>8. PickedUntouched'
    <3> SUFFICES ASSUME NEW q \in Assigners, pc'[q] = "write", NEW l \in InMemory(q)'
                 PROVE  /\ ~Allocated(l)' /\ licenses'[l].lms_user_id = NoEmail
                        /\ \A k \in Activators : l \notin InMemory(k)'
                        /\ view'[v][l].status # "activated"
      BY <1>0 DEF PickedUntouched
    <3>1. pc[q] = "write" /\ l \in InMemory(q) /\ l \in Licenses
      BY <1>0, <2>3 DEF InMemory
    <3>2. /\ ~Allocated(l) /\ licenses[l].lms_user_id = NoEmail
          /\ \A k \in Activators : l \notin InMemory(k)
          /\ view[v][l].status # "activated"
      BY <2>a, <3>1 DEF HandsInv, PickedUntouched
    <3>3. l \in InMemory(v) => view[v][l].lms_user_id = NoEmail
      BY <2>a, <3>2 DEF HandsInv, ChargedStay
    <3>4. ~Allocated(l)' /\ licenses'[l].lms_user_id = NoEmail
      BY <2>4, <3>1, <3>2, <3>3 DEF Allocated
    <3> QED
      BY <1>0, <2>3, <3>1, <3>2, <3>4 DEF AbsentRow
  <2>9. ChargedStay'
    BY <1>0, <2>3 DEF ChargedStay
  <2> QED
    BY <2>6, <2>7, <2>8, <2>9 DEF HandsInv
<1> QED
  BY <1>1, <1>2, <1>3, <1>4, <1>5

LEMMA HandsStep ==
    ASSUME CapPremise, CapInv, [Next]_vars
    PROVE  HandsInv'
<1>1. CASE UNCHANGED vars
  BY <1>1 DEF vars, CapInv, HandsInv, AssignedFresh, OneActivated, ActivationHolds, PickedUntouched,
     ChargedStay, InMemory, Allocated
<1>2. CASE AutoApplyNext \/ FreezeNext
  BY <1>2 DEF CapPremise, OneRevoker, AutoApplyNext, FreezeNext
<1> QED
  BY <1>1, <1>2, AssignHands, ActivationHands, RevocationHands DEF Next

\* A plan that grows may revoke more.
LEMMA AllowedGrows ==
    ASSUME NEW a \in Nat, NEW b \in Nat, NEW p \in Nat, a <= b
    PROVE  /\ (a * p + 99) \div 100 \in Nat /\ (b * p + 99) \div 100 \in Nat
           /\ (a * p + 99) \div 100 <= (b * p + 99) \div 100
<1>1. a * p \in Nat /\ b * p \in Nat /\ a * p <= b * p
  <2>1. b - a \in Nat /\ b = a + (b - a)
    OBVIOUS
  <2>2. \A d \in Nat : (a + d) * p = a * p + d * p /\ d * p \in Nat /\ a * p \in Nat
    OBVIOUS
  <2>3. b * p = a * p + (b - a) * p /\ (b - a) * p \in Nat /\ a * p \in Nat
    BY <2>1, <2>2
  <2> QED
    BY <2>3
<1>2. \A x, y \in Nat : x <= y => /\ (x + 99) \div 100 \in Nat /\ (y + 99) \div 100 \in Nat
                                  /\ (x + 99) \div 100 <= (y + 99) \div 100
  OBVIOUS
<1> QED
  BY <1>1, <1>2

\* The limit never sinks.
LEMMA AllowedKept ==
    ASSUME SizeInv, Freezers = {}, [Next]_vars
    PROVE  RevocationsAllowed \in Nat /\ RevocationsAllowed' \in Nat /\ RevocationsAllowed <= RevocationsAllowed'
<1>1. NumLicenses \in Nat /\ NumLicenses' \in Nat /\ NumLicenses <= NumLicenses'
  BY SizeKept
<1>2. /\ RevocationsAllowed = (NumLicenses * RevokeMaxPercentage + 99) \div 100
      /\ RevocationsAllowed' = (NumLicenses' * RevokeMaxPercentage + 99) \div 100
  BY DEF RevocationsAllowed
<1> HIDE DEF RevocationsAllowed, NumLicenses
<1> QED
  BY <1>1, <1>2, AllowedGrows, RevocationAssumption

LEMMA SpentFinite ==
    /\ IsFiniteSet(Spent) /\ IsFiniteSet(Spent')
    /\ Cardinality(Spent) \in Nat /\ Cardinality(Spent') \in Nat
    /\ \A v : IsFiniteSet(Charged(v)) /\ Cardinality(Charged(v)) \in Nat
<1>1. Spent \subseteq Licenses /\ Spent' \subseteq Licenses /\ \A v : Charged(v) \subseteq Licenses
  BY DEF Spent, Charged
<1> QED
  BY <1>1, TableAssumption, FS_Subset, FS_CardinalityType

\* A step spends nothing new, and what the revocation reads is up to date.
LEMMA SpendKept ==
    ASSUME CapPremise, CapInv, RevocationCap, [Next]_vars,
           Spent' \subseteq Spent, num_revocations_applied' = num_revocations_applied,
           \A v \in Revokers : pc'[v] \in {"select", "commit"} =>
              \/ pc'[v] = pc[v] /\ plan_read'[v] = plan_read[v] /\ view'[v] = view[v]
              \/ /\ plan_read'[v] = num_revocations_applied
                 /\ pc'[v] = "commit" /\ Charged(v)' # {} =>
                      num_revocations_applied + Cardinality(Charged(v)') <= RevocationsAllowed
    PROVE  SpentCounted'
<1> DEFINE n == num_revocations_applied
<1>1. n \in Nat /\ SpentCounted
  BY DEF CapInv, SizeInv, CoherentInv, TypeOK, TableTypeOK
<1>2. RevocationsAllowed \in Nat /\ RevocationsAllowed' \in Nat /\ RevocationsAllowed <= RevocationsAllowed'
  BY AllowedKept DEF CapPremise, OneRevoker, CapInv
<1>3. Cardinality(Spent') <= n /\ n <= RevocationsAllowed'
  <2>1. Cardinality(Spent') <= Cardinality(Spent)
    BY SpentFinite, FS_Subset
  <2> QED
    BY <1>1, <1>2, <2>1, SpentFinite DEF SpentCounted
<1>4. ASSUME NEW v \in Revokers, pc'[v] \in {"select", "commit"}
      PROVE  plan_read'[v] = n
  BY <1>1, <1>4 DEF SpentCounted
<1>5. ASSUME NEW v \in Revokers, pc'[v] = "commit", Charged(v)' # {}
      PROVE  n + Cardinality(Charged(v)') <= RevocationsAllowed'
  <2>1. n + Cardinality(Charged(v)') <= RevocationsAllowed
    <3>1. CASE pc'[v] = pc[v] /\ plan_read'[v] = plan_read[v] /\ view'[v] = view[v]
      <4>1. Charged(v)' = Charged(v)
        BY <3>1 DEF Charged
      <4> QED
        BY <1>1, <1>5, <3>1, <4>1 DEF SpentCounted
    <3> QED
      BY <1>5, <3>1
  <2>2. Cardinality(Charged(v)') \in Nat
    <3>1. Charged(v)' \subseteq Licenses
      BY DEF Charged
    <3> QED
      BY <3>1, TableAssumption, FS_Subset, FS_CardinalityType
  <2> QED
    BY <1>1, <1>2, <2>1, <2>2
<1> QED
  BY <1>3, <1>4, <1>5 DEF SpentCounted

\* Nothing but a revocation spends.
LEMMA OthersSpend ==
    ASSUME CapPremise, CapInv, RevocationCap, AssignNext \/ (ActivationNext /\ UNCHANGED lock)
    PROVE  SpentCounted'
<1>0. /\ Assigners \subseteq Requests /\ Activators \subseteq Requests
      /\ \A v \in Revokers : v \in Requests /\ v \notin Assigners /\ v \notin Activators
      /\ CoherentInv /\ TypeOK /\ TableTypeOK /\ SavesCounted
  BY KindsDisjoint DEF Requests, CapInv, SizeInv, CoherentInv, TypeOK
<1>1. num_revocations_applied' = num_revocations_applied
  BY DEF AssignNext, AssignStep, AssignGet, AssignSet, AssignTrim,
     AssignCount, AssignPick, AssignWrite, AssignFail, AssignRelease, AssignCrash, LockExpire,
     ActivationNext, ActivationStep, ActivateLookup, ActivateSelect, ActivateGone, ActivateReset,
     ActivateReady, FullClean, SaveRow, tableVars
<1>2. \A l \in Licenses : licenses'[l] = licenses[l] \/ licenses'[l].status # "revoked"
  <2>1. ASSUME NEW r \in Assigners, AssignWrite(r), NEW l \in Licenses
        PROVE  licenses'[l] = licenses[l] \/ licenses'[l].status # "revoked"
    BY <1>0, <2>1 DEF AssignWrite, KeepLmsUser, CoherentInv, WritesAssigned, InMemory
  <2>2. ASSUME NEW r \in Activators, SaveRow(r), NEW l \in Licenses
        PROVE  licenses'[l] = licenses[l] \/ licenses'[l].status # "revoked"
    BY <1>0, <2>2 DEF SaveRow, Saved, SavesCounted, InMemory
  <2>3. ASSUME NEW r \in Activators, ActivateReset(r), NEW l \in Licenses
        PROVE  licenses'[l] = licenses[l] \/ licenses'[l].status # "revoked"
    BY <1>0, <2>3 DEF ActivateReset, UnassignedRow, TableTypeOK
  <2>4. \/ UNCHANGED licenses
        \/ \E r \in Assigners : AssignWrite(r)
        \/ \E r \in Activators : SaveRow(r) \/ ActivateReset(r)
    BY DEF AssignNext, AssignStep, AssignGet, AssignSet, AssignTrim,
       AssignCount, AssignPick, AssignFail, AssignRelease, AssignCrash, LockExpire,
       ActivationNext, ActivationStep, ActivateLookup, ActivateSelect, ActivateGone,
       ActivateReady, FullClean, tableVars
  <2> QED
    BY <2>1, <2>2, <2>3, <2>4
<1>3. Spent' \subseteq Spent
  BY <1>2 DEF Spent
<1>4. ASSUME NEW v \in Revokers
      PROVE  pc'[v] = pc[v] /\ plan_read'[v] = plan_read[v] /\ view'[v] = view[v]
  <2>1. CASE LockExpire
    BY <2>1 DEF LockExpire, localVars
  <2>2. ASSUME NEW r \in Assigners, NEW emails \in SUBSET Emails, AssignGet(r, emails)
        PROVE  pc'[v] = pc[v] /\ plan_read'[v] = plan_read[v] /\ view'[v] = view[v]
    BY <1>0, <2>2 DEF AssignGet, Goto, TypeOK, TableTypeOK
  <2>3. ASSUME NEW r \in Assigners, AssignStep(r) \/ AssignCrash(r) \/ AssignFail(r)
        PROVE  pc'[v] = pc[v] /\ plan_read'[v] = plan_read[v] /\ view'[v] = view[v]
    BY <1>0, <2>3 DEF AssignStep, AssignSet, AssignTrim, AssignCount, AssignPick, AssignWrite,
       AssignFail, AssignRelease, AssignCrash, Done, Goto, localVars, TypeOK, TableTypeOK
  <2>4. ASSUME NEW r \in Activators, (\E e \in Emails : ActivateLookup(r, e)) \/ ActivationStep(r)
        PROVE  pc'[v] = pc[v] /\ plan_read'[v] = plan_read[v] /\ view'[v] = view[v]
    BY <1>0, <2>4 DEF ActivationStep, ActivateLookup, ActivateSelect, ActivateGone, ActivateReset,
       ActivateReady, FullClean, SaveRow, Done, Goto, localVars, TypeOK, TableTypeOK
  <2> QED
    BY <2>1, <2>2, <2>3, <2>4 DEF AssignNext, ActivationNext
<1> QED
  BY <1>1, <1>3, <1>4, SpendKept DEF Next

\* What a revocation spends it has compared with the limit, and counts.
LEMMA RevocationSpends ==
    ASSUME CapPremise, CapInv, RevocationCap, RevocationNext /\ UNCHANGED lock
    PROVE  SpentCounted'
<1>1. PICK v \in Revokers :
         \/ \E emails \in SUBSET Emails : RevokeStart(v, emails)
         \/ RevokeSelect(v) \/ RevokeAllSelect(v) \/ RevokeCommit(v) \/ RevokeRollback(v)
  BY DEF RevocationNext
<1>0. /\ v \in Requests /\ Revokers = {v} /\ [Next]_vars
      /\ TypeOK /\ TableTypeOK /\ SpentCounted /\ num_revocations_applied \in Nat
  BY DEF Requests, CapPremise, OneRevoker, CapInv, SizeInv, CoherentInv, TypeOK, TableTypeOK, Next
<1>2. CASE \E emails \in SUBSET Emails : RevokeStart(v, emails)
  <2>1. /\ Spent' = Spent /\ num_revocations_applied' = num_revocations_applied
        /\ pc'[v] = "select" /\ plan_read'[v] = num_revocations_applied
    BY <1>0, <1>2 DEF RevokeStart, Goto, tableVars, Spent, TypeOK, TableTypeOK
  <2> QED
    BY <1>0, <2>1, SpendKept
<1>a. ASSUME Done(v), UNCHANGED tableVars
      PROVE  SpentCounted'
  <2>1. /\ Spent' = Spent /\ num_revocations_applied' = num_revocations_applied
        /\ pc'[v] = "idle"
    BY <1>0, <1>a DEF Done, Goto, tableVars, Spent, TypeOK
  <2> QED
    BY <1>0, <2>1, SpendKept
<1>3. CASE RevokeRollback(v)
  BY <1>a, <1>3 DEF RevokeRollback
<1>4. CASE RevokeSelect(v)
  <2>1. CASE Done(v)
    BY <1>a, <1>4, <2>1 DEF RevokeSelect
  <2>2. CASE ~Done(v)
    <3>1. PICK L \in Selections(todo[v], plan_read[v]) :
             /\ view' = [view EXCEPT ![v] = RowsOf(L, licenses)]
             /\ pc' = [pc EXCEPT ![v] = "commit"]
             /\ plan_read' = plan_read
      BY <1>4, <2>2 DEF RevokeSelect, Goto
    <3> DEFINE C == {l \in L : licenses[l].status = "activated"}
    <3>2. /\ L \subseteq Licenses
          /\ Cardinality(C) > 0 => plan_read[v] + Cardinality(C) <= RevocationsAllowed
      BY DEF Selections, RevocableFor, AllocatedTo
    <3>3. Charged(v)' = C
      BY <1>0, <3>1, <3>2 DEF Charged, RowsOf, AbsentRow, TableTypeOK
    <3>4. C # {} => Cardinality(C) > 0
      <4>1. IsFiniteSet(C)
        BY <3>2, TableAssumption, FS_Subset
      <4> QED
        BY <4>1, FS_EmptySet, FS_CardinalityType
    <3>5. plan_read[v] = num_revocations_applied /\ plan_read'[v] = num_revocations_applied
      BY <1>0, <1>4, <3>1 DEF RevokeSelect, SpentCounted
    <3>6. Charged(v)' # {} =>
             num_revocations_applied + Cardinality(Charged(v)') <= RevocationsAllowed
      BY <3>2, <3>3, <3>4, <3>5
    <3>7. Spent' = Spent /\ num_revocations_applied' = num_revocations_applied
      BY <1>4 DEF RevokeSelect, tableVars, Spent
    <3> QED
      BY <1>0, <3>5, <3>6, <3>7, SpendKept
  <2> QED
    BY <2>1, <2>2
<1>5. CASE RevokeAllSelect(v)
  BY <1>5 DEF RevokeAllSelect
<1>6. CASE RevokeCommit(v)
  <2> DEFINE n == num_revocations_applied
             C == Charged(v)
  <2>1. /\ pc[v] = "commit" /\ pc'[v] = "idle"
        /\ n' = IF C # {} THEN plan_read[v] + Cardinality(C) ELSE n
    BY <1>0, <1>6 DEF RevokeCommit, Done, Goto, TypeOK
  <2>2. plan_read[v] = n /\ Cardinality(Spent) <= n /\ n <= RevocationsAllowed
        /\ (C # {} => n + Cardinality(C) <= RevocationsAllowed)
    BY <1>0, <2>1 DEF SpentCounted
  <2>3. Spent' \subseteq Spent \union C
    <3> SUFFICES ASSUME NEW l \in Licenses, licenses'[l].status = "revoked",
                        licenses'[l].lms_user_id # NoEmail, l \notin Spent
                 PROVE  l \in C
      BY DEF Spent
    <3>1. l \in InMemory(v) /\ view[v][l].lms_user_id # NoEmail
      BY <1>6, CommitRows DEF Spent
    <3> QED
      BY <3>1 DEF CapInv, HandsInv, ChargedStay, Charged
  <2>4. IsFiniteSet(C) /\ Cardinality(C) \in Nat
    BY SpentFinite
  <2>5. Cardinality(Spent') <= Cardinality(Spent) + Cardinality(C)
    <3>1. IsFiniteSet(Spent \union C) /\ Cardinality(Spent') <= Cardinality(Spent \union C)
      BY <2>3, <2>4, SpentFinite, FS_Union, FS_Subset
    <3>2. Cardinality(Spent \union C) =
            Cardinality(Spent) + Cardinality(C) - Cardinality(Spent \intersect C)
      BY <2>4, SpentFinite, FS_Union
    <3>3. Cardinality(Spent \intersect C) \in Nat /\ Cardinality(Spent \union C) \in Nat
      BY <2>4, <3>1, SpentFinite, FS_Intersection, FS_CardinalityType
    <3> QED
      BY <2>4, <3>1, <3>2, <3>3, SpentFinite
  <2>6. C = {} => Cardinality(C) = 0
    BY FS_EmptySet
  <2>7. RevocationsAllowed \in Nat /\ RevocationsAllowed' \in Nat /\ RevocationsAllowed <= RevocationsAllowed'
    BY <1>0, AllowedKept DEF CapPremise, OneRevoker, CapInv
  <2>8. n \in Nat /\ n' = n + Cardinality(C)
    BY <1>0, <2>1, <2>2, <2>4, <2>6
  <2>9. n + Cardinality(C) <= RevocationsAllowed
    BY <1>0, <2>2, <2>4, <2>6, <2>7
  <2> HIDE DEF n, C
  <2>10. Cardinality(Spent') <= n' /\ n' <= RevocationsAllowed'
    BY <2>2, <2>4, <2>5, <2>7, <2>8, <2>9, SpentFinite
  <2> QED
    BY <1>0, <2>1, <2>10 DEF SpentCounted, n
<1> QED
  BY <1>1, <1>2, <1>3, <1>4, <1>5, <1>6

LEMMA CapStep ==
    ASSUME CapPremise, CapInv, [Next]_vars
    PROVE  CapInv'
<1>1. SizeInv' /\ HandsInv'
  BY SizeStep, HandsStep DEF CapInv
<1>2. NoOpenWindow => LockInv'
  BY LockStep DEF CapInv, SizeInv, CoherentInv
<1>3. RevocationCap => SpentCounted'
  <2> SUFFICES ASSUME RevocationCap PROVE SpentCounted'
    OBVIOUS
  <2>1. CASE UNCHANGED vars
    <3>1. Spent' = Spent /\ num_revocations_applied' = num_revocations_applied
      BY <2>1 DEF vars, Spent
    <3>2. \A v \in Revokers : pc'[v] = pc[v] /\ plan_read'[v] = plan_read[v] /\ view'[v] = view[v]
      BY <2>1 DEF vars
    <3> QED
      BY <3>1, <3>2, SpendKept
  <2>2. CASE AutoApplyNext \/ FreezeNext
    BY <2>2 DEF CapPremise, OneRevoker, AutoApplyNext, FreezeNext
  <2> QED
    BY <2>1, <2>2, OthersSpend, RevocationSpends DEF Next
<1> QED
  BY <1>1, <1>2, <1>3 DEF CapInv, NoOpenWindow

(***************************************************************************)
(* However long learners are assigned, activate and are revoked, the plan  *)
(* loses no license, and no more activated licenses are revoked than       *)
(* is_revocation_cap_enabled and revoke_max_percentage allow: while one    *)
(* revocation and one activation run at a time, no license is auto-applied *)
(* and assignments exclude each other.                                     *)
(***************************************************************************)
THEOREM RevocationsAreSound == CapPremise => (Spec => RevocationsSound)
<1> SUFFICES ASSUME CapPremise PROVE Spec => RevocationsSound
  OBVIOUS
<1>1. CapInv /\ [Next]_vars => CapInv'
  BY CapStep
<1>2. CapInv => RevocationCapRespected
  <2> SUFFICES ASSUME CapInv, RevocationCap
               PROVE  Cardinality(Spent) <= RevocationsAllowed
    BY DEF RevocationCapRespected, Spent
  <2>1. RevocationsAllowed \in Nat /\ num_revocations_applied \in Nat /\ SpentCounted
    BY CapBound DEF CapInv, SizeInv, CoherentInv, TypeOK, TableTypeOK
  <2> QED
    BY <2>1, SpentFinite DEF SpentCounted
<1>3. CapInv /\ [Next]_vars => [NumLicenses' >= NumLicenses]_vars
  BY SizeKept DEF CapPremise, OneRevoker, CapInv
<1> QED
  BY <1>1, <1>2, <1>3, CapInit, PTL DEF Spec, RevocationsSound, CapacityNotLost
=============================================================================
