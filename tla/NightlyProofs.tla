---------------------------- MODULE NightlyProofs ----------------------------
(***************************************************************************)
(* Proofs about the nightly commands, for any number of plans, licenses,   *)
(* learners, days and requests.                                            *)
(***************************************************************************)
EXTENDS Nightly, FiniteSetTheorems, WellFoundedInduction, TLAPS

LessThan == {p \in Nat \X Nat : p[1] < p[2]}

LEMMA LeastNumber ==
    ASSUME NEW S \in SUBSET Nat, S # {}
    PROVE  \E k \in S : \A j \in S : k <= j
<1>1. IsWellFoundedOn(LessThan, Nat)
  BY NatLessThanWellFounded DEF OpToRel, LessThan
<1>2. PICK k \in S : \A j \in S : <<j, k>> \notin LessThan
  BY <1>1, WFMin
<1>3. \A j \in S : ~(j < k)
  BY <1>2 DEF LessThan
<1> QED
  BY <1>3

\* The license that is written next is one of those left.
LEMMA LeastOfLicenses ==
    ASSUME NEW K \in SUBSET Pks, K # {}
    PROVE  Least(K) \in K
<1>1. \E k \in K : \A j \in K : k <= j
  BY NightlyAssumption, LeastNumber
<1> QED
  BY <1>1 DEF Least

-----------------------------------------------------------------------------
(***************************************************************************)
(* Chains of renewals.                                                     *)
(***************************************************************************)

\* What holds of the plans renewed into p, and of all renewed into a plan of which it
\* holds, holds of all the plans before p.
LEMMA PriorInduction ==
    ASSUME NEW p, NEW P \in SUBSET Plans, RenewedInto(P \union {p}) \subseteq P
    PROVE  PriorPlans(p) \subseteq P
  BY DEF PriorPlans

LEMMA PriorIsFixed ==
    ASSUME NEW p \in Plans
    PROVE  PriorPlans(p) = RenewedInto(PriorPlans(p) \union {p})
<1> DEFINE C == PriorPlans(p)
           P == RenewedInto(C \union {p})
<1>1. P \subseteq C
  BY DEF PriorPlans, RenewedInto
<1>2. RenewedInto(P \union {p}) \subseteq P
  BY <1>1 DEF RenewedInto
<1>3. P \in SUBSET Plans
  BY DEF RenewedInto
<1>4. C \subseteq P
  <2> HIDE DEF P
  <2> QED
    BY <1>2, <1>3, PriorInduction
<1> QED
  BY <1>1, <1>4

\* No plan is in the chains of two last plans.
LEMMA LastOfChain ==
    ASSUME NEW p \in Plans, RenewalOf[p] = None, NEW q \in {p} \union PriorPlans(p)
    PROVE  LastPlan(q) = p
<1> DEFINE Ends(r) == RenewalOf[r] = None /\ q \in {r} \union PriorPlans(r)
<1>1. ASSUME NEW r \in Plans, Ends(r), r # p
      PROVE  FALSE
  <2> DEFINE P == Plans \ ({p} \union PriorPlans(p))
  <2>1. PriorPlans(p) = RenewedInto(PriorPlans(p) \union {p})
    BY PriorIsFixed
  <2>2. None \notin Plans /\ PriorPlans(p) \subseteq Plans
    BY NightlyAssumption DEF PriorPlans
  <2>3. r \in P
    BY <1>1, <2>1, <2>2 DEF RenewedInto
  <2>4. ASSUME NEW x \in Plans, RenewalOf[x] \in P \union {r}
        PROVE  x \in P
    <3>1. RenewalOf[x] \in P
      BY <2>3, <2>4
    <3>2. x # p
      BY <2>2, <3>1
    <3>3. x \notin PriorPlans(p)
      BY <2>1, <3>1 DEF RenewedInto
    <3> QED
      BY <3>2, <3>3
  <2>5. PriorPlans(r) \subseteq P
    <3>1. RenewedInto(P \union {r}) \subseteq P
      BY <2>4 DEF RenewedInto
    <3>2. P \in SUBSET Plans
      OBVIOUS
    <3> HIDE DEF P
    <3> QED
      BY <3>1, <3>2, PriorInduction
  <2> QED
    BY <1>1, <2>3, <2>5
<1>2. Ends(p)
  OBVIOUS
<1>3. LastPlan(q) = CHOOSE r \in Plans : Ends(r)
  BY DEF LastPlan
<1> QED
  BY <1>1, <1>2, <1>3

\* Plans expire no later than the plans they are renewed into: the admin form demands it
\* of a renewal, and the endpoints do not.
RenewedPlansOutlast == \A p \in Plans : RenewalOf[p] # None => Expires[p] <= Expires[RenewalOf[p]]

LEMMA PriorExpireBefore ==
    ASSUME RenewedPlansOutlast, NEW p \in Plans, NEW q \in PriorPlans(p)
    PROVE  Expires[q] <= Expires[p]
<1> DEFINE P == {r \in Plans : Expires[r] <= Expires[p]}
<1>1. \A r \in Plans : Expires[r] \in Nat
  BY NightlyAssumption
<1>2. \A r \in Plans : RenewalOf[r] \in Plans => Expires[r] <= Expires[RenewalOf[r]]
  BY NightlyAssumption DEF RenewedPlansOutlast
<1>3. ASSUME NEW r \in Plans, RenewalOf[r] \in P \union {p}
      PROVE  r \in P
  <2>1. RenewalOf[r] \in Plans /\ Expires[RenewalOf[r]] <= Expires[p]
    BY <1>1, <1>3
  <2> QED
    BY <1>1, <1>2, <2>1
<1>4. RenewedInto(P \union {p}) \subseteq P
  BY <1>3 DEF RenewedInto
<1>5. q \in P
  <2> HIDE DEF P
  <2> QED
    BY <1>4, PriorInduction DEF P
<1> QED
  BY <1>5

-----------------------------------------------------------------------------
(***************************************************************************)
(* What moves in a step, and what it leaves alone.                         *)
(***************************************************************************)
TableMoves ==
    /\ Free
    /\ \/ \E k \in Pks, u \in Learners : Assigned(k, u)
       \/ \E k \in Pks : Activated(k) \/ Revoked(k)
    /\ UNCHANGED <<expireVars, unlinkVars, retireVars>>

ExpireMoves ==
    /\ ExpireStart \/ ExpireStep \/ \E P \in SUBSET Plans : ExpireByHand(P)
    /\ UNCHANGED <<unlinkVars, retireVars>>

UnlinkMoves == ((Free /\ UnlinkStart) \/ UnlinkStep) /\ UNCHANGED <<expireVars, retireVars>>

RetireMoves ==
    /\ \/ RetireBatch \/ RetireNextStage \/ RetireDone
       \/ \E w \in Scrubbers : ScrubStep(w) \/ ScrubCrash(w)
       \/ \E u \in Learners : RefreshWrite(u)
       \/ Free /\ (RetireStart \/ \E u \in Learners : RetireUser(u) \/ RefreshRead(u))
    /\ UNCHANGED <<expireVars, unlinkVars>>

LEMMA StepKinds ==
    ASSUME [NightlyNext]_nightlyVars
    PROVE  TableMoves \/ ExpireMoves \/ UnlinkMoves \/ RetireMoves \/ DayPasses
           \/ UNCHANGED nightlyVars
<1>1. CASE ExpirationRuns
  BY <1>1 DEF ExpirationRuns, ExpireMoves
<1>2. CASE UnlinkingRuns
  BY <1>2 DEF UnlinkingRuns, UnlinkMoves
<1>3. CASE RetirementRuns
  BY <1>3 DEF RetirementRuns, RetireMoves, RetireStep
<1>4. CASE Crash
  BY <1>4 DEF Crash, RetireMoves
<1>5. CASE Requests
  <2>. Free
    BY <1>5 DEF Requests
  <2>1. CASE \E k \in Pks, u \in Learners \ deleted : Assigned(k, u)
             /\ UNCHANGED <<expireVars, unlinkVars, retireVars>>
    BY <2>1 DEF TableMoves
  <2>2. CASE (\E k \in Pks : Activated(k) \/ Revoked(k))
             /\ UNCHANGED <<expireVars, unlinkVars, retireVars>>
    BY <2>2 DEF TableMoves
  <2>3. CASE \E P \in SUBSET Plans : ExpireByHand(P) /\ UNCHANGED <<unlinkVars, retireVars>>
    BY <2>3 DEF ExpireMoves
  <2>4. CASE \E u \in Learners : (RetireUser(u) \/ RefreshRead(u)) /\ UNCHANGED <<expireVars, unlinkVars>>
    BY <2>4 DEF RetireMoves
  <2> QED
    BY <1>5, <2>1, <2>2, <2>3, <2>4 DEF Requests
<1> QED
  BY <1>1, <1>2, <1>3, <1>4, <1>5 DEF NightlyNext

LEMMA ExpireLeaves ==
    ASSUME ExpireMoves
    PROVE  /\ UNCHANGED <<day, rows, history, source, linked>>
           /\ UNCHANGED <<events, unlink>> /\ UNCHANGED <<retire, scrub, deleted, refresh>>
  BY DEF ExpireMoves, ExpireStart, ExpireByHand, ExpireStep, ExpireNextPlan, ExpireRead, ExpireChunk,
         ExpireFlag, ExpireChainDone, ExpireDone, tableVars, unlinkVars, retireVars

LEMMA UnlinkLeaves ==
    ASSUME UnlinkMoves
    PROVE  /\ UNCHANGED <<day, rows, history, source>> /\ linked' \subseteq linked
           /\ UNCHANGED <<processed, ended, expire>> /\ UNCHANGED <<retire, scrub, deleted, refresh>>
  BY DEF UnlinkMoves, UnlinkStart, UnlinkStep, UnlinkPage, UnlinkCall, UnlinkRecord, UnlinkDone,
         tableVars, expireVars, retireVars

LEMMA RetireLeaves ==
    ASSUME RetireMoves
    PROVE  UNCHANGED <<day, linked>> /\ UNCHANGED <<processed, ended, expire>> /\ UNCHANGED <<events, unlink>>
  BY DEF RetireMoves, RetireStart, RetireBatch, RetireNextStage, RetireDone, ScrubStep, ScrubSave,
         ScrubHistory, ScrubSource, ScrubDone, ScrubCrash, RefreshWrite, RetireUser, RefreshRead,
         tableVars, expireVars, unlinkVars

LEMMA OthersLeave ==
    /\ TableMoves => /\ UNCHANGED <<day, processed, ended, expire>> /\ UNCHANGED <<events, unlink>>
                     /\ UNCHANGED <<retire, scrub, deleted, refresh>>
    /\ DayPasses => /\ UNCHANGED <<rows, history, source, linked>> /\ UNCHANGED <<processed, ended, expire>>
                    /\ UNCHANGED <<events, unlink>> /\ UNCHANGED <<retire, scrub, deleted, refresh>>
                    /\ Quiet
    /\ UNCHANGED nightlyVars =>
          /\ UNCHANGED <<day, rows, history, source, linked>> /\ UNCHANGED <<processed, ended, expire>>
          /\ UNCHANGED <<events, unlink>> /\ UNCHANGED <<retire, scrub, deleted, refresh>>
<1>1. TableMoves => /\ UNCHANGED <<day, processed, ended, expire>> /\ UNCHANGED <<events, unlink>>
                    /\ UNCHANGED <<retire, scrub, deleted, refresh>>
  BY DEF TableMoves, Assigned, Activated, Revoked, expireVars, unlinkVars, retireVars
<1>2. DayPasses => /\ UNCHANGED <<rows, history, source, linked>> /\ UNCHANGED <<processed, ended, expire>>
                   /\ UNCHANGED <<events, unlink>> /\ UNCHANGED <<retire, scrub, deleted, refresh>>
                   /\ Quiet
  BY DEF DayPasses, NextDay, tableVars, expireVars, unlinkVars, retireVars
<1> QED
  BY <1>1, <1>2 DEF nightlyVars

-----------------------------------------------------------------------------
(***************************************************************************)
(* Types.                                                                  *)
(***************************************************************************)

\* A row that holds no learner's data and that nobody can use.
Gone == {r \in LicenseRow : r.user_email = None /\ r.status \notin {"assigned", "activated"}}

ExpireState == [pc : {"idle", "plans", "chain", "chunks"}, plans : SUBSET Plans, chain : SUBSET Plans,
                plan : Plans \union {None}, licenses : SUBSET Pks, failures : BOOLEAN]

FoundRows == UNION {[K -> LicenseRow] : K \in SUBSET Pks}
LinkedPairs == Pks \X (Learners \union {None})
UnlinkState == [pc : {"idle", "pages", "call", "record"}, found : FoundRows, page : SUBSET LinkedPairs,
                due : SUBSET Pks]

RetireState == [stage : Stages \union {"idle"}, starts : SUBSET (Pks \union {0})]

TodoRows == UNION {[K -> Gone] : K \in SUBSET Pks}
ScrubState == [pc : {"idle", "save", "history", "source"}, todo : TodoRows,
               pk : Pks \union {None}, user : Learners \union {None}]

ScrubSound(w, s) ==
    /\ s \in ScrubState
    /\ s.pc \in {"history", "source"} => s.pk \in Pks
    /\ w = "request" /\ s.pc # "idle" => s.user \in Learners

ExpireTyped ==
    /\ processed \subseteq Plans /\ ended \subseteq Pks /\ expire \in ExpireState
    /\ expire.pc = "chunks" => expire.plan \in Plans

UnlinkTyped == events \subseteq Pks /\ unlink \in UnlinkState

RetireTyped ==
    /\ retire \in RetireState /\ deleted \subseteq Learners
    /\ DOMAIN scrub = Scrubbers /\ \A w \in Scrubbers : ScrubSound(w, scrub[w])
    /\ refresh \in [Learners -> SUBSET Pks]

Typed == TableTypeOK /\ ExpireTyped /\ UnlinkTyped /\ RetireTyped

LEMMA TypesSuffice == Typed => NightlyTypeOK
  BY DEF Typed, ExpireTyped, UnlinkTyped, RetireTyped, ScrubSound, NightlyTypeOK, ExpireState, UnlinkState,
         RetireState, ScrubState, Stages

LEMMA TypedStart == NightlyInit => Typed
<1> SUFFICES ASSUME NightlyInit PROVE Typed
  OBVIOUS
<1>1. TableTypeOK
  BY NightlyAssumption DEF NightlyInit, TableInit, TableTypeOK, LicenseRow, Blank, Commands
<1>2. ExpireTyped
  BY DEF NightlyInit, ExpireInit, ExpireTyped, ExpireIdle, ExpireState
<1>3. UnlinkTyped
  <2>1. <<>> \in [{} -> LicenseRow]
    OBVIOUS
  <2> QED
    BY <2>1 DEF NightlyInit, UnlinkInit, UnlinkTyped, UnlinkIdle, UnlinkState, FoundRows
<1>4. RetireTyped
  <2>1. <<>> \in [{} -> Gone]
    OBVIOUS
  <2>2. \A w \in Scrubbers : ScrubSound(w, ScrubIdle)
    BY <2>1 DEF ScrubSound, ScrubIdle, ScrubState, TodoRows
  <2> QED
    BY <2>2 DEF NightlyInit, RetireInit, RetireTyped, RetireIdle, RetireState
<1> QED
  BY <1>1, <1>2, <1>3, <1>4 DEF Typed

\* A row that is assigned, activated or revoked.
LEMMA RowsChange ==
    ASSUME TableTypeOK
    PROVE  /\ Blank \in LicenseRow
           /\ \A u \in Learners :
                LET r == [Blank EXCEPT !.status = "assigned", !.user_email = u, !.assigned_date = day]
                IN  /\ r \in LicenseRow /\ r.status = "assigned" /\ r.user_email = u
                    /\ r.lms_user_id = None /\ r.assigned_date = day
           /\ \A r \in LicenseRow :
                LET s == [r EXCEPT !.status = "activated", !.lms_user_id = r.user_email]
                IN  /\ s \in LicenseRow /\ s.status = "activated" /\ s.user_email = r.user_email
                    /\ s.lms_user_id = r.user_email /\ s.assigned_date = r.assigned_date
           /\ \A r \in LicenseRow :
                LET s == [r EXCEPT !.status = "revoked", !.revoked_date = day]
                IN  s \in LicenseRow /\ s.status = "revoked" /\ s.user_email = r.user_email
           /\ \A r \in LicenseRow, u \in Learners :
                LET s == [r EXCEPT !.user_email = u]
                IN  /\ s \in LicenseRow /\ s.user_email = u /\ s.status = r.status
                    /\ s.lms_user_id = r.lms_user_id /\ s.assigned_date = r.assigned_date
<1>1. Blank \in LicenseRow /\ day \in 0..MaxDay
  BY NightlyAssumption DEF LicenseRow, Blank, TableTypeOK
<1>2. \A u \in Learners :
        LET r == [Blank EXCEPT !.status = "assigned", !.user_email = u, !.assigned_date = day]
        IN  /\ r \in LicenseRow /\ r.status = "assigned" /\ r.user_email = u
            /\ r.lms_user_id = None /\ r.assigned_date = day
  BY <1>1 DEF LicenseRow, Blank
<1>3. \A r \in LicenseRow :
        LET s == [r EXCEPT !.status = "activated", !.lms_user_id = r.user_email]
        IN  /\ s \in LicenseRow /\ s.status = "activated" /\ s.user_email = r.user_email
            /\ s.lms_user_id = r.user_email /\ s.assigned_date = r.assigned_date
  BY DEF LicenseRow
<1>4. \A r \in LicenseRow :
        LET s == [r EXCEPT !.status = "revoked", !.revoked_date = day]
        IN  s \in LicenseRow /\ s.status = "revoked" /\ s.user_email = r.user_email
  BY <1>1 DEF LicenseRow
<1>5. \A r \in LicenseRow, u \in Learners :
        LET s == [r EXCEPT !.user_email = u]
        IN  /\ s \in LicenseRow /\ s.user_email = u /\ s.status = r.status
            /\ s.lms_user_id = r.lms_user_id /\ s.assigned_date = r.assigned_date
  BY DEF LicenseRow
<1> QED
  BY <1>1, <1>2, <1>3, <1>4, <1>5

\* The requests change one row.
LEMMA TableRows ==
    ASSUME TableTypeOK, TableMoves
    PROVE  \E k \in Pks, r \in LicenseRow :
             /\ rows' = [rows EXCEPT ![k] = r]
             /\ \/ /\ rows[k].status = "unassigned" /\ r.status = "assigned"
                   /\ r.user_email \in Learners /\ r.lms_user_id = None /\ r.assigned_date = day
                   /\ history' = [history EXCEPT ![k] = @ \union {r.user_email}]
                   /\ source' = source \union {k} /\ linked' = linked \union {r.user_email}
                \/ /\ rows[k].status = "assigned" /\ r.status = "activated"
                   /\ r.user_email = rows[k].user_email /\ r.user_email # None
                   /\ r.lms_user_id = rows[k].user_email /\ r.assigned_date = rows[k].assigned_date
                   /\ UNCHANGED <<history, source, linked>>
                \/ /\ r.status = "revoked" /\ r.user_email = rows[k].user_email
                   /\ UNCHANGED <<history, source, linked>>
<1>1. rows \in [Pks -> LicenseRow]
  BY DEF TableTypeOK
<1>2. ASSUME NEW k \in Pks, NEW u \in Learners, Assigned(k, u)
      PROVE  \E r \in LicenseRow :
                /\ rows' = [rows EXCEPT ![k] = r]
                /\ rows[k].status = "unassigned" /\ r.status = "assigned"
                /\ r.user_email \in Learners /\ r.lms_user_id = None /\ r.assigned_date = day
                /\ history' = [history EXCEPT ![k] = @ \union {r.user_email}]
                /\ source' = source \union {k} /\ linked' = linked \union {r.user_email}
  <2> DEFINE r == [Blank EXCEPT !.status = "assigned", !.user_email = u, !.assigned_date = day]
  <2>1. /\ r \in LicenseRow /\ r.status = "assigned" /\ r.user_email = u
        /\ r.lms_user_id = None /\ r.assigned_date = day
    BY RowsChange
  <2>2. /\ rows' = [rows EXCEPT ![k] = r] /\ rows[k].status = "unassigned"
        /\ history' = [history EXCEPT ![k] = @ \union {u}]
        /\ source' = source \union {k} /\ linked' = linked \union {u}
    BY <1>2 DEF Assigned
  <2> HIDE DEF r
  <2> QED
    BY <2>1, <2>2
<1>3. ASSUME NEW k \in Pks, Activated(k)
      PROVE  \E r \in LicenseRow :
                /\ rows' = [rows EXCEPT ![k] = r]
                /\ rows[k].status = "assigned" /\ r.status = "activated"
                /\ r.user_email = rows[k].user_email /\ r.user_email # None
                /\ r.lms_user_id = rows[k].user_email /\ r.assigned_date = rows[k].assigned_date
                /\ UNCHANGED <<history, source, linked>>
  <2> DEFINE r == [rows[k] EXCEPT !.status = "activated", !.lms_user_id = rows[k].user_email]
  <2>1. rows[k] \in LicenseRow
    BY <1>1
  <2>2. /\ r \in LicenseRow /\ r.status = "activated" /\ r.user_email = rows[k].user_email
        /\ r.lms_user_id = rows[k].user_email /\ r.assigned_date = rows[k].assigned_date
    BY <2>1, RowsChange
  <2>3. /\ rows' = [rows EXCEPT ![k] = r] /\ rows[k].status = "assigned"
        /\ rows[k].user_email # None /\ UNCHANGED <<history, source, linked>>
    BY <1>1, <1>3, <2>1 DEF Activated, LicenseRow
  <2> HIDE DEF r
  <2> QED
    BY <2>2, <2>3
<1>4. ASSUME NEW k \in Pks, Revoked(k)
      PROVE  \E r \in LicenseRow :
                /\ rows' = [rows EXCEPT ![k] = r]
                /\ r.status = "revoked" /\ r.user_email = rows[k].user_email
                /\ UNCHANGED <<history, source, linked>>
  <2> DEFINE r == [rows[k] EXCEPT !.status = "revoked", !.revoked_date = day]
  <2>1. rows[k] \in LicenseRow
    BY <1>1
  <2>2. r \in LicenseRow /\ r.status = "revoked" /\ r.user_email = rows[k].user_email
    BY <2>1, RowsChange
  <2>3. rows' = [rows EXCEPT ![k] = r] /\ UNCHANGED <<history, source, linked>>
    BY <1>1, <1>4, <2>1 DEF Revoked, LicenseRow
  <2> HIDE DEF r
  <2> QED
    BY <2>2, <2>3
<1> QED
  BY <1>2, <1>3, <1>4 DEF TableMoves

LEMMA CallsCounted ==
    ASSUME TableTypeOK, Call
    PROVE  calls' \in 0..MaxCalls
  BY NightlyAssumption DEF TableTypeOK, Call

LEMMA TableKeepsTypes ==
    ASSUME TableTypeOK, TableMoves
    PROVE  TableTypeOK'
<1>1. PICK k \in Pks, r \in LicenseRow :
        /\ rows' = [rows EXCEPT ![k] = r]
        /\ \/ /\ r.user_email \in Learners
              /\ history' = [history EXCEPT ![k] = @ \union {r.user_email}]
              /\ source' = source \union {k} /\ linked' = linked \union {r.user_email}
           \/ UNCHANGED <<history, source, linked>>
  BY TableRows
<1>2. calls' \in 0..MaxCalls /\ ran' = ran /\ day' = day
  BY CallsCounted DEF TableMoves, Assigned, Activated, Revoked
<1> QED
  BY <1>1, <1>2 DEF TableTypeOK

LEMMA ExpireKeepsTypes ==
    ASSUME TableTypeOK, ExpireTyped, ExpireMoves
    PROVE  TableTypeOK' /\ ExpireTyped'
<1>1. TableTypeOK'
  <2>1. UNCHANGED <<day, rows, history, source, linked>>
    BY ExpireLeaves
  <2>2. ran' \subseteq Commands /\ calls' \in 0..MaxCalls
    BY CallsCounted DEF ExpireMoves, ExpireStart, ExpireByHand, ExpireStep, ExpireNextPlan, ExpireRead,
       ExpireChunk, ExpireFlag, ExpireChainDone, ExpireDone, tableVars, TableTypeOK, Commands
  <2> QED
    BY <2>1, <2>2 DEF TableTypeOK
<1>2. PICK e \in ExpireState : expire = e /\ (e.pc = "chunks" => e.plan \in Plans)
  BY DEF ExpireTyped
<1>3. processed \subseteq Plans /\ ended \subseteq Pks
  BY DEF ExpireTyped
<1>4. ExpireIdle \in ExpireState
  BY DEF ExpireIdle, ExpireState
<1>5. CASE ExpireStart \/ \E P \in SUBSET Plans : ExpireByHand(P)
  <2>1. PICK P \in SUBSET Plans : expire' = [ExpireIdle EXCEPT !.pc = "plans", !.plans = P]
    BY <1>5 DEF ExpireStart, ExpireByHand, ExpiredPlans, ExpiredPlansAmong
  <2>2. expire' \in ExpireState /\ expire'.pc # "chunks"
    BY <2>1 DEF ExpireIdle, ExpireState
  <2>3. processed' = processed /\ ended' = ended
    BY <1>5 DEF ExpireStart, ExpireByHand
  <2> QED
    BY <1>1, <1>3, <2>2, <2>3 DEF ExpireTyped
<1>6. ASSUME NEW p \in Plans, ExpireNextPlan(p) PROVE ExpireTyped'
  <2>1. \A P, C \in SUBSET Plans :
           /\ [e EXCEPT !.plans = P] \in ExpireState /\ [e EXCEPT !.plans = P].pc = e.pc
           /\ [e EXCEPT !.plans = P, !.pc = "chain", !.chain = C] \in ExpireState
           /\ [e EXCEPT !.plans = P, !.pc = "chain", !.chain = C].pc = "chain"
    BY DEF ExpireState
  <2>2. e.plans \ {p} \in SUBSET Plans /\ {p} \union PriorPlans(p) \in SUBSET Plans
    BY DEF ExpireState, PriorPlans
  <2>3. expire' \in {[e EXCEPT !.plans = e.plans \ {p}],
                     [e EXCEPT !.plans = e.plans \ {p}, !.pc = "chain", !.chain = {p} \union PriorPlans(p)]}
    BY <1>2, <1>6 DEF ExpireNextPlan
  <2>4. processed' = processed /\ ended' = ended /\ e.pc = "plans"
    BY <1>2, <1>6 DEF ExpireNextPlan
  <2>5. expire' \in ExpireState /\ expire'.pc # "chunks"
    <3> DEFINE P == e.plans \ {p}
               C == {p} \union PriorPlans(p)
    <3>1. /\ [e EXCEPT !.plans = P] \in ExpireState /\ [e EXCEPT !.plans = P].pc = e.pc
          /\ [e EXCEPT !.plans = P, !.pc = "chain", !.chain = C] \in ExpireState
          /\ [e EXCEPT !.plans = P, !.pc = "chain", !.chain = C].pc = "chain"
      <4> HIDE DEF P, C
      <4>1. P \in SUBSET Plans /\ C \in SUBSET Plans
        BY <2>2 DEF P, C
      <4> QED
        BY <2>1, <4>1
    <3>2. expire' = [e EXCEPT !.plans = P] \/ expire' = [e EXCEPT !.plans = P, !.pc = "chain", !.chain = C]
      BY <2>3
    <3> HIDE DEF P, C
    <3> QED
      BY <2>4, <3>1, <3>2
  <2> QED
    BY <1>3, <2>4, <2>5 DEF ExpireTyped
<1>7. ASSUME NEW q \in Plans, ExpireRead(q) PROVE ExpireTyped'
  <2> DEFINE L == {k \in Pks : PlanOf[k] = q /\ Allocated(k)}
  <2>1. \A C \in SUBSET Plans, K \in SUBSET Pks :
           LET s == [e EXCEPT !.pc = "chunks", !.plan = q, !.chain = C, !.licenses = K, !.failures = FALSE]
           IN  s \in ExpireState /\ s.plan = q
    BY DEF ExpireState
  <2>2. e.chain \ {q} \in SUBSET Plans /\ L \in SUBSET Pks
    BY DEF ExpireState
  <2>3. expire' = [e EXCEPT !.pc = "chunks", !.plan = q, !.chain = e.chain \ {q}, !.licenses = L,
                            !.failures = FALSE]
    BY <1>2, <1>7 DEF ExpireRead
  <2>4. processed' = processed /\ ended' = ended
    BY <1>7 DEF ExpireRead
  <2>5. expire' \in ExpireState /\ expire'.plan = q
    <3> HIDE DEF L
    <3> QED
      BY <2>1, <2>2, <2>3
  <2> QED
    BY <1>3, <2>4, <2>5 DEF ExpireTyped
<1>8. ASSUME ExpireChunk PROVE ExpireTyped'
  <2>1. PICK C : /\ C \subseteq e.licenses
                 /\ \/ ended' = ended \union C /\ expire' = [e EXCEPT !.licenses = e.licenses \ C]
                    \/ ended' = ended /\ expire' = [e EXCEPT !.licenses = e.licenses \ C, !.failures = TRUE]
    BY <1>2, <1>8 DEF ExpireChunk, Chunk
  <2>2. e.licenses \in SUBSET Pks
    BY DEF ExpireState
  <2>3. \A K \in SUBSET Pks :
           /\ [e EXCEPT !.licenses = K] \in ExpireState
           /\ [e EXCEPT !.licenses = K].plan = e.plan
           /\ [e EXCEPT !.licenses = K, !.failures = TRUE] \in ExpireState
           /\ [e EXCEPT !.licenses = K, !.failures = TRUE].plan = e.plan
    BY DEF ExpireState
  <2>4. e.licenses \ C \in SUBSET Pks
    BY <2>2
  <2>5. processed' = processed /\ e.plan \in Plans
    BY <1>2, <1>8 DEF ExpireChunk
  <2>6. expire' \in ExpireState /\ expire'.plan = e.plan
    <3>1. /\ [e EXCEPT !.licenses = e.licenses \ C] \in ExpireState
          /\ [e EXCEPT !.licenses = e.licenses \ C].plan = e.plan
          /\ [e EXCEPT !.licenses = e.licenses \ C, !.failures = TRUE] \in ExpireState
          /\ [e EXCEPT !.licenses = e.licenses \ C, !.failures = TRUE].plan = e.plan
      BY <2>3, <2>4
    <3> QED
      BY <2>1, <3>1
  <2>7. ended' \subseteq Pks
    BY <1>3, <2>1, <2>2
  <2> QED
    BY <2>5, <2>6, <2>7, <1>3 DEF ExpireTyped
<1>9. ASSUME ExpireFlag PROVE ExpireTyped'
  <2>1. expire' = [e EXCEPT !.pc = "chain", !.plan = None, !.failures = FALSE]
    BY <1>2, <1>9 DEF ExpireFlag
  <2>2. expire' \in ExpireState /\ expire'.pc = "chain"
    BY <2>1 DEF ExpireState
  <2>3. processed' \subseteq Plans /\ ended' = ended
    BY <1>2, <1>3, <1>9 DEF ExpireFlag
  <2> QED
    BY <1>3, <2>2, <2>3 DEF ExpireTyped
<1>10. ASSUME ExpireChainDone \/ ExpireDone PROVE ExpireTyped'
  <2>1. expire' \in ExpireState /\ expire'.pc # "chunks"
    BY <1>2, <1>4, <1>10 DEF ExpireChainDone, ExpireDone, ExpireState, ExpireIdle
  <2>2. processed' = processed /\ ended' = ended
    BY <1>10 DEF ExpireChainDone, ExpireDone
  <2> QED
    BY <1>3, <2>1, <2>2 DEF ExpireTyped
<1> QED
  BY <1>1, <1>5, <1>6, <1>7, <1>8, <1>9, <1>10 DEF ExpireMoves, ExpireStep

LEMMA UnlinkKeepsTypes ==
    ASSUME TableTypeOK, UnlinkTyped, UnlinkMoves
    PROVE  TableTypeOK' /\ UnlinkTyped'
<1>1. TableTypeOK'
  <2>1. UNCHANGED <<day, rows, history, source>> /\ linked' \subseteq linked
    BY UnlinkLeaves
  <2>2. ran' \subseteq Commands /\ calls' = calls
    BY DEF UnlinkMoves, UnlinkStart, UnlinkStep, UnlinkPage, UnlinkCall, UnlinkRecord, UnlinkDone,
       tableVars, TableTypeOK, Commands
  <2> QED
    BY <2>1, <2>2 DEF TableTypeOK
<1>2. PICK s \in UnlinkState : unlink = s
  BY DEF UnlinkTyped
<1>3. events \subseteq Pks /\ rows \in [Pks -> LicenseRow]
  BY DEF UnlinkTyped, TableTypeOK
<1>4. UnlinkIdle \in UnlinkState
  <2>1. <<>> \in [{} -> LicenseRow]
    OBVIOUS
  <2> QED
    BY <2>1 DEF UnlinkIdle, UnlinkState, FoundRows
<1>5. PICK K \in SUBSET Pks : s.found \in [K -> LicenseRow]
  BY DEF UnlinkState, FoundRows
<1>6. s.page \subseteq Pks \X (Learners \union {None})
  BY DEF UnlinkState, LinkedPairs
<1>12. \A c \in {"pages", "call"}, F \in FoundRows, G \in SUBSET LinkedPairs,
          D \in SUBSET Pks : [pc |-> c, found |-> F, page |-> G, due |-> D] \in UnlinkState
  BY DEF UnlinkState
<1>7. CASE UnlinkStart
  <2> DEFINE F == [k \in ExpiredLicenses |-> rows[k]]
  <2>1. F \in FoundRows
    <3>1. ExpiredLicenses \subseteq Pks
      BY DEF ExpiredLicenses
    <3>2. F \in [ExpiredLicenses -> LicenseRow]
      BY <1>3, <3>1
    <3> QED
      BY <3>1, <3>2 DEF FoundRows
  <2>2. unlink' = [pc |-> "pages", found |-> F, page |-> {}, due |-> ExpiredLicenses] /\ events' = events
    BY <1>7 DEF UnlinkStart
  <2>4. ExpiredLicenses \in SUBSET Pks
    BY DEF ExpiredLicenses
  <2> HIDE DEF F
  <2>3. unlink' \in UnlinkState
    BY <1>12, <2>1, <2>2, <2>4
  <2> QED
    BY <1>1, <1>3, <2>2, <2>3 DEF UnlinkTyped
<1>8. CASE UnlinkPage
  <2>1. unlink.found \in [K -> LicenseRow] /\ DOMAIN unlink.found = K
    BY <1>2, <1>5
  <2>2. PICK P \in SUBSET DOMAIN unlink.found :
          unlink' = [pc |-> "call",
                     found |-> [k \in DOMAIN unlink.found \ P |-> unlink.found[k]],
                     page |-> {<<k, unlink.found[k].user_email>> :
                                 k \in {j \in P : ~OtherActiveLicenses(unlink.found[j])}},
                     due |-> unlink.due]
    BY <1>8 DEF UnlinkPage
  <2> DEFINE F == [k \in DOMAIN unlink.found \ P |-> unlink.found[k]]
             G == {<<k, unlink.found[k].user_email>> : k \in {j \in P : ~OtherActiveLicenses(unlink.found[j])}}
  <2>3. F \in FoundRows
    <3>1. K \ P \in SUBSET Pks /\ F \in [K \ P -> LicenseRow]
      BY <2>1
    <3> HIDE DEF F
    <3> QED
      BY <3>1 DEF FoundRows
  <2>4. G \in SUBSET LinkedPairs
    <3>1. \A k \in P : k \in Pks /\ unlink.found[k].user_email \in Learners \union {None}
      BY <2>1 DEF LicenseRow
    <3> QED
      BY <3>1 DEF LinkedPairs
  <2>5. unlink' = [pc |-> "call", found |-> F, page |-> G, due |-> unlink.due]
    BY <2>2
  <2>8. unlink.due \in SUBSET Pks
    BY <1>2 DEF UnlinkState
  <2> HIDE DEF F, G
  <2>6. unlink' \in UnlinkState
    BY <1>12, <2>3, <2>4, <2>5, <2>8
  <2>7. events' = events
    BY <1>8 DEF UnlinkPage
  <2> QED
    BY <1>1, <1>3, <2>6, <2>7 DEF UnlinkTyped
<1>9. CASE UnlinkCall
  <2>1. events' = events /\ unlink' \in {[s EXCEPT !.pc = "record"], UnlinkIdle}
    BY <1>2, <1>9 DEF UnlinkCall
  <2>2. [s EXCEPT !.pc = "record"] \in UnlinkState
    BY DEF UnlinkState
  <2>3. unlink' \in UnlinkState
    BY <1>4, <2>1, <2>2
  <2> QED
    BY <1>1, <1>3, <2>1, <2>3 DEF UnlinkTyped
<1>10. CASE UnlinkRecord
  <2>1. events' = events \union {pair[1] : pair \in s.page} /\ unlink' = [s EXCEPT !.pc = "pages", !.page = {}]
    BY <1>2, <1>10 DEF UnlinkRecord
  <2>2. [s EXCEPT !.pc = "pages", !.page = {}] \in UnlinkState
    BY DEF UnlinkState
  <2>3. {pair[1] : pair \in s.page} \subseteq Pks
    BY <1>6
  <2>4. unlink' \in UnlinkState /\ events' \subseteq Pks
    <3> HIDE DEF UnlinkState
    <3>1. unlink' \in UnlinkState
      BY <2>1, <2>2
    <3>2. events' \subseteq Pks
      BY <1>3, <2>1, <2>3
    <3> QED
      BY <3>1, <3>2
  <2> QED
    BY <1>1, <2>4 DEF UnlinkTyped
<1>11. CASE UnlinkDone
  BY <1>1, <1>3, <1>4, <1>11 DEF UnlinkDone, UnlinkTyped
<1> QED
  BY <1>1, <1>7, <1>8, <1>9, <1>10, <1>11 DEF UnlinkMoves, UnlinkStep

\* What the commands and requests that remove data are about to save.
LEMMA ScrubbedIsGone ==
    ASSUME TableTypeOK
    PROVE  /\ \A s \in Stages : \A k \in PurgeDurationExceeded(s) : Scrubbed(s, rows[k]) \in Gone
           /\ \A k \in Pks : (IF rows[k].status = "revoked" THEN ClearPii(rows[k]) ELSE Reset(rows[k])) \in Gone
<1>1. rows \in [Pks -> LicenseRow] /\ day \in 0..MaxDay
  BY DEF TableTypeOK
<1>2. Blank \in Gone
  BY RowsChange DEF Gone, Blank
<1>3. \A r \in LicenseRow : r.status = "revoked" => ClearPii(r) \in Gone
  BY DEF ClearPii, Gone, LicenseRow
<1>4. \A r \in LicenseRow : [ClearPii(r) EXCEPT !.status = "revoked", !.revoked_date = day] \in Gone
  BY <1>1 DEF ClearPii, Gone, LicenseRow
<1>5. ASSUME NEW s \in Stages, NEW k \in PurgeDurationExceeded(s)
      PROVE  Scrubbed(s, rows[k]) \in Gone
  <2>1. k \in Pks /\ rows[k] \in LicenseRow
    BY <1>1 DEF PurgeDurationExceeded
  <2>2. CASE s = "expired"
    <3>1. Scrubbed("expired", rows[k]) = [ClearPii(rows[k]) EXCEPT !.status = "revoked", !.revoked_date = day]
      BY Zenon DEF Scrubbed
    <3> QED
      BY <1>4, <2>1, <2>2, <3>1
  <2>3. CASE s = "revoked"
    <3>1. rows[k].status = "revoked"
      BY <2>3 DEF PurgeDurationExceeded
    <3>2. Scrubbed("revoked", rows[k]) = ClearPii(rows[k])
      BY DEF Scrubbed
    <3> QED
      BY <1>3, <2>1, <2>3, <3>1, <3>2
  <2>4. CASE s = "assigned"
    <3>1. Scrubbed("assigned", rows[k]) = Blank
      BY DEF Scrubbed, Reset
    <3> QED
      BY <1>2, <2>4, <3>1
  <2> QED
    BY <2>2, <2>3, <2>4 DEF Stages
<1>6. ASSUME NEW k \in Pks
      PROVE  (IF rows[k].status = "revoked" THEN ClearPii(rows[k]) ELSE Reset(rows[k])) \in Gone
  BY <1>1, <1>2, <1>3 DEF Reset
<1> QED
  BY <1>5, <1>6

LEMMA ScrubStates ==
    ASSUME NEW s \in ScrubState
    PROVE  /\ \E K \in SUBSET Pks : s.todo \in [K -> Gone]
           /\ \A T \in TodoRows, k \in Pks :
                LET t == [s EXCEPT !.pc = "history", !.pk = k, !.todo = T]
                IN  t \in ScrubState /\ t.pc = "history" /\ t.pk = k /\ t.user = s.user
           /\ LET t == [s EXCEPT !.pc = "source"]
              IN  t \in ScrubState /\ t.pc = "source" /\ t.pk = s.pk /\ t.user = s.user
           /\ LET t == [s EXCEPT !.pc = "save", !.pk = None]
              IN  t \in ScrubState /\ t.pc = "save" /\ t.user = s.user
           /\ \A T \in TodoRows :
                LET t == [ScrubIdle EXCEPT !.pc = "save", !.todo = T]
                IN  t \in ScrubState /\ t.pc = "save"
           /\ \A T \in TodoRows, u \in Learners :
                LET t == [pc |-> "save", pk |-> None, user |-> u, todo |-> T]
                IN  t \in ScrubState /\ t.pc = "save" /\ t.user = u
           /\ ScrubIdle \in ScrubState /\ ScrubIdle.pc = "idle"
<1>1. \E K \in SUBSET Pks : s.todo \in [K -> Gone]
  BY DEF ScrubState, TodoRows
<1>2. \A T \in TodoRows, k \in Pks :
        LET t == [s EXCEPT !.pc = "history", !.pk = k, !.todo = T]
        IN  t \in ScrubState /\ t.pc = "history" /\ t.pk = k /\ t.user = s.user
  BY DEF ScrubState
<1>3. LET t == [s EXCEPT !.pc = "source"]
      IN  t \in ScrubState /\ t.pc = "source" /\ t.pk = s.pk /\ t.user = s.user
  BY DEF ScrubState
<1>4. LET t == [s EXCEPT !.pc = "save", !.pk = None]
      IN  t \in ScrubState /\ t.pc = "save" /\ t.user = s.user
  BY DEF ScrubState
<1>5. \A T \in TodoRows :
        LET t == [ScrubIdle EXCEPT !.pc = "save", !.todo = T]
        IN  t \in ScrubState /\ t.pc = "save"
  BY DEF ScrubState, ScrubIdle
<1>6. \A T \in TodoRows, u \in Learners :
        LET t == [pc |-> "save", pk |-> None, user |-> u, todo |-> T]
        IN  t \in ScrubState /\ t.pc = "save" /\ t.user = u
  BY DEF ScrubState
<1>7. <<>> \in TodoRows
  <2>1. <<>> \in [{} -> Gone]
    OBVIOUS
  <2> QED
    BY <2>1 DEF TodoRows
<1>8. ScrubIdle \in ScrubState /\ ScrubIdle.pc = "idle"
  BY <1>7 DEF ScrubState, ScrubIdle
<1> QED
  BY <1>1, <1>2, <1>3, <1>4, <1>5, <1>6, <1>8

\* One of the three statements for a license.
LEMMA ScrubWrites ==
    ASSUME TableTypeOK, RetireTyped, NEW w \in Scrubbers, ScrubSave(w) \/ ScrubHistory(w) \/ ScrubSource(w)
    PROVE  \E k \in Pks, t \in ScrubState :
             /\ scrub' = [scrub EXCEPT ![w] = t] /\ t.user = scrub[w].user
             /\ UNCHANGED <<day, ran, linked, calls>> /\ UNCHANGED <<retire, deleted, refresh>>
             /\ \/ /\ scrub[w].pc = "save" /\ t.pc = "history" /\ t.pk = k
                   /\ \E r \in Gone : rows' = [rows EXCEPT ![k] = r]
                   /\ UNCHANGED <<history, source>>
                \/ /\ scrub[w].pc = "history" /\ scrub[w].pk = k /\ t.pc = "source" /\ t.pk = k
                   /\ history' = [history EXCEPT ![k] = {}]
                   /\ UNCHANGED <<rows, source>>
                \/ /\ scrub[w].pc = "source" /\ scrub[w].pk = k /\ t.pc = "save"
                   /\ source' = source \ {k}
                   /\ UNCHANGED <<rows, history>>
<1>1. PICK s \in ScrubState : scrub[w] = s /\ (s.pc \in {"history", "source"} => s.pk \in Pks)
  BY DEF RetireTyped, ScrubSound
<1>2. DOMAIN scrub = Scrubbers
  BY DEF RetireTyped
<1>3. CASE ScrubSave(w)
  <2>1. PICK K \in SUBSET Pks : s.todo \in [K -> Gone]
    BY ScrubStates
  <2>2. DOMAIN scrub[w].todo = K /\ scrub[w].todo \in [K -> Gone]
    BY <1>1, <2>1
  <2> DEFINE k == Least(DOMAIN scrub[w].todo)
             T == [j \in DOMAIN scrub[w].todo \ {k} |-> scrub[w].todo[j]]
             t == [s EXCEPT !.pc = "history", !.pk = k, !.todo = T]
  <2>3. k \in K
    BY <1>3, <2>2, LeastOfLicenses DEF ScrubSave
  <2>4. T \in TodoRows
    <3>1. K \ {k} \in SUBSET Pks /\ T \in [K \ {k} -> Gone]
      <4> HIDE DEF k
      <4> QED
        BY <2>2
    <3> HIDE DEF T, k
    <3> QED
      BY <3>1 DEF TodoRows
  <2>5. t \in ScrubState /\ t.pc = "history" /\ t.pk = k /\ t.user = s.user
    <3>1. \A S \in TodoRows, j \in Pks :
             LET x == [s EXCEPT !.pc = "history", !.pk = j, !.todo = S]
             IN  x \in ScrubState /\ x.pc = "history" /\ x.pk = j /\ x.user = s.user
      BY ScrubStates
    <3>2. k \in Pks
      <4> HIDE DEF k
      <4> QED
        BY <2>3
    <3> HIDE DEF T, k
    <3> QED
      BY <3>1, <3>2, <2>4
  <2>6. scrub' = [scrub EXCEPT ![w] = t]
    BY <1>1, <1>2, <1>3 DEF ScrubSave
  <2>7. \E r \in Gone : rows' = [rows EXCEPT ![k] = r]
    BY <1>3, <2>2, <2>3 DEF ScrubSave
  <2>8. /\ s.pc = "save" /\ UNCHANGED <<history, source>>
        /\ UNCHANGED <<day, ran, linked, calls>> /\ UNCHANGED <<retire, deleted, refresh>>
    BY <1>1, <1>3 DEF ScrubSave
  <2> HIDE DEF t, k
  <2> QED
    BY <1>1, <2>3, <2>5, <2>6, <2>7, <2>8
<1>4. CASE ScrubHistory(w)
  <2> DEFINE t == [s EXCEPT !.pc = "source"]
  <2>1. t \in ScrubState /\ t.pc = "source" /\ t.pk = s.pk /\ t.user = s.user
    BY ScrubStates
  <2>2. scrub' = [scrub EXCEPT ![w] = t]
    BY <1>1, <1>2, <1>4 DEF ScrubHistory
  <2>3. /\ s.pc = "history" /\ s.pk \in Pks /\ history' = [history EXCEPT ![s.pk] = {}]
        /\ UNCHANGED <<rows, source>>
        /\ UNCHANGED <<day, ran, linked, calls>> /\ UNCHANGED <<retire, deleted, refresh>>
    BY <1>1, <1>4 DEF ScrubHistory
  <2> HIDE DEF t
  <2> QED
    BY <1>1, <2>1, <2>2, <2>3
<1>5. CASE ScrubSource(w)
  <2> DEFINE t == [s EXCEPT !.pc = "save", !.pk = None]
  <2>1. t \in ScrubState /\ t.pc = "save" /\ t.user = s.user
    BY ScrubStates
  <2>2. scrub' = [scrub EXCEPT ![w] = t]
    BY <1>1, <1>2, <1>5 DEF ScrubSource
  <2>3. /\ s.pc = "source" /\ s.pk \in Pks /\ source' = source \ {s.pk}
        /\ UNCHANGED <<rows, history>>
        /\ UNCHANGED <<day, ran, linked, calls>> /\ UNCHANGED <<retire, deleted, refresh>>
    BY <1>1, <1>5 DEF ScrubSource
  <2> HIDE DEF t
  <2> QED
    BY <1>1, <2>1, <2>2, <2>3
<1> QED
  BY <1>3, <1>4, <1>5

LEMMA BatchKeys == ASSUME NEW K \in SUBSET Pks PROVE BatchStarts(K) \in SUBSET (Pks \union {0})
  BY DEF BatchStarts

\* A batch, or a request, takes over the licenses that it is about to write.
LEMMA ScrubStarts ==
    ASSUME TableTypeOK, RetireTyped
    PROVE  /\ RetireBatch => \E t \in ScrubState :
                /\ retire.stage # "idle" /\ t.pc = "save" /\ scrub' = [scrub EXCEPT !["command"] = t]
                /\ retire' \in RetireState /\ retire'.stage = retire.stage
                /\ UNCHANGED <<day, ran, tableVars>> /\ UNCHANGED <<deleted, refresh>>
           /\ \A u \in Learners : RetireUser(u) => \E t \in ScrubState :
                /\ t.pc = "save" /\ t.user = u /\ scrub' = [scrub EXCEPT !["request"] = t]
                /\ UNCHANGED <<day, ran, tableVars>> /\ UNCHANGED <<retire, deleted, refresh>>
<1>1. PICK r \in RetireState : retire = r
  BY DEF RetireTyped
<1>2. PICK s \in ScrubState : scrub["command"] = s
  BY DEF RetireTyped, ScrubSound, Scrubbers
<1>3. ASSUME RetireBatch
      PROVE  \E t \in ScrubState :
               /\ retire.stage # "idle" /\ t.pc = "save" /\ scrub' = [scrub EXCEPT !["command"] = t]
               /\ retire' \in RetireState /\ retire'.stage = retire.stage
               /\ UNCHANGED <<day, ran, tableVars>> /\ UNCHANGED <<deleted, refresh>>
  <2> DEFINE from == Least(retire.starts)
             batch == Smallest({k \in PurgeDurationExceeded(retire.stage) : k > from}, BatchSize)
             T == [k \in batch |-> Scrubbed(retire.stage, rows[k])]
             t == [ScrubIdle EXCEPT !.pc = "save", !.todo = T]
  <2>1. retire.stage \in Stages
    BY <1>1, <1>3 DEF RetireBatch, RetireState
  <2>2. batch \subseteq PurgeDurationExceeded(retire.stage) /\ batch \subseteq Pks
    BY DEF Smallest, PurgeDurationExceeded
  <2>3. T \in TodoRows
    <3>1. \A k \in batch : Scrubbed(retire.stage, rows[k]) \in Gone
      <4> HIDE DEF batch
      <4> QED
        BY <2>1, <2>2, ScrubbedIsGone
    <3>2. T \in [batch -> Gone]
      <4> HIDE DEF batch
      <4> QED
        BY <3>1
    <3> HIDE DEF T, batch
    <3> QED
      BY <2>2, <3>2 DEF TodoRows
  <2>4. t \in ScrubState /\ t.pc = "save"
    <3>1. \A S \in TodoRows :
            LET x == [ScrubIdle EXCEPT !.pc = "save", !.todo = S]
            IN  x \in ScrubState /\ x.pc = "save"
      BY <1>2, ScrubStates
    <3> HIDE DEF T
    <3> QED
      BY <2>3, <3>1
  <2>5. scrub' = [scrub EXCEPT !["command"] = t]
    BY <1>3 DEF RetireBatch
  <2>6. retire' \in RetireState /\ retire'.stage = retire.stage
    <3>1. retire' = [r EXCEPT !.starts = r.starts \ {from}]
      BY <1>1, <1>3 DEF RetireBatch
    <3>2. \A S \in SUBSET (Pks \union {0}) : LET x == [r EXCEPT !.starts = S]
                                              IN  x \in RetireState /\ x.stage = r.stage
      BY DEF RetireState
    <3>3. r.starts \ {from} \in SUBSET (Pks \union {0})
      BY DEF RetireState
    <3> HIDE DEF from
    <3> QED
      BY <1>1, <3>1, <3>2, <3>3
  <2>7. /\ retire.stage # "idle" /\ UNCHANGED <<day, ran, tableVars>> /\ UNCHANGED <<deleted, refresh>>
    BY <1>3 DEF RetireBatch
  <2> HIDE DEF t
  <2> QED
    BY <2>4, <2>5, <2>6, <2>7
<1>4. ASSUME NEW u \in Learners, RetireUser(u)
      PROVE  \E t \in ScrubState :
                /\ t.pc = "save" /\ t.user = u /\ scrub' = [scrub EXCEPT !["request"] = t]
                /\ UNCHANGED <<day, ran, tableVars>> /\ UNCHANGED <<retire, deleted, refresh>>
  <2> DEFINE found == {k \in Pks : rows[k].lms_user_id = u}
             T == [k \in found |-> IF rows[k].status = "revoked" THEN ClearPii(rows[k]) ELSE Reset(rows[k])]
             t == [pc |-> "save", pk |-> None, user |-> u, todo |-> T]
  <2>1. T \in TodoRows
    <3>1. T \in [found -> Gone] /\ found \in SUBSET Pks
      BY ScrubbedIsGone
    <3> HIDE DEF T, found
    <3> QED
      BY <3>1 DEF TodoRows
  <2>2. t \in ScrubState /\ t.pc = "save" /\ t.user = u
    <3>1. \A S \in TodoRows, v \in Learners :
            LET x == [pc |-> "save", pk |-> None, user |-> v, todo |-> S]
            IN  x \in ScrubState /\ x.pc = "save" /\ x.user = v
      BY <1>2, ScrubStates
    <3> HIDE DEF T
    <3> QED
      BY <2>1, <3>1
  <2>3. scrub' = [scrub EXCEPT !["request"] = t]
    BY <1>4 DEF RetireUser
  <2>4. UNCHANGED <<day, ran, tableVars>> /\ UNCHANGED <<retire, deleted, refresh>>
    BY <1>4 DEF RetireUser
  <2> HIDE DEF t
  <2> QED
    BY <2>2, <2>3, <2>4
<1> QED
  BY <1>3, <1>4

\* The e-mails of the licenses read for a learner are overwritten.
LEMMA RefreshRows ==
    ASSUME TableTypeOK, NEW u \in Learners, RefreshWrite(u)
    PROVE  /\ rows' \in [Pks -> LicenseRow]
           /\ \A k \in Pks :
                 \/ /\ k \in refresh[u] /\ rows'[k].user_email = u /\ rows'[k].status = rows[k].status
                    /\ rows'[k].lms_user_id = rows[k].lms_user_id
                    /\ rows'[k].assigned_date = rows[k].assigned_date
                 \/ rows'[k] = rows[k] /\ history'[k] = history[k]
           /\ history' \in [Pks -> SUBSET Learners]
           /\ UNCHANGED <<day, ran, source, linked, calls>>
<1>1. rows \in [Pks -> LicenseRow] /\ history \in [Pks -> SUBSET Learners]
  BY DEF TableTypeOK
<1>2. \A k \in Pks : LET s == [rows[k] EXCEPT !.user_email = u]
                     IN  /\ s \in LicenseRow /\ s.user_email = u /\ s.status = rows[k].status
                         /\ s.lms_user_id = rows[k].lms_user_id /\ s.assigned_date = rows[k].assigned_date
  BY <1>1, RowsChange
<1>3. rows' = [k \in Pks |-> IF k \in refresh[u] THEN [rows[k] EXCEPT !.user_email = u] ELSE rows[k]]
  BY DEF RefreshWrite
<1>4. history' = [k \in Pks |-> IF k \in refresh[u] THEN history[k] \union {u} ELSE history[k]]
  BY DEF RefreshWrite
<1>5. rows' \in [Pks -> LicenseRow]
  BY <1>1, <1>2, <1>3
<1>6. ASSUME NEW k \in Pks
      PROVE  \/ /\ k \in refresh[u] /\ rows'[k].user_email = u /\ rows'[k].status = rows[k].status
                /\ rows'[k].lms_user_id = rows[k].lms_user_id
                /\ rows'[k].assigned_date = rows[k].assigned_date
             \/ rows'[k] = rows[k] /\ history'[k] = history[k]
  BY <1>2, <1>3, <1>4
<1>7. history' \in [Pks -> SUBSET Learners]
  BY <1>1, <1>4
<1> QED
  BY <1>5, <1>6, <1>7 DEF RefreshWrite

LEMMA RetireKeepsTypes ==
    ASSUME TableTypeOK, RetireTyped, RetireMoves
    PROVE  TableTypeOK' /\ RetireTyped'
<1>1. /\ rows \in [Pks -> LicenseRow] /\ history \in [Pks -> SUBSET Learners] /\ source \subseteq Pks
      /\ day \in 0..MaxDay /\ linked \subseteq Learners /\ ran \subseteq Commands /\ calls \in 0..MaxCalls
  BY DEF TableTypeOK
<1>2. /\ retire \in RetireState /\ deleted \subseteq Learners /\ DOMAIN scrub = Scrubbers
      /\ refresh \in [Learners -> SUBSET Pks]
      /\ \A w \in Scrubbers : scrub[w] \in ScrubState /\ ScrubSound(w, scrub[w])
  BY DEF RetireTyped, ScrubSound
<1>3. RetireState' = RetireState /\ \A w \in Scrubbers, s \in ScrubState : ScrubSound(w, s)' = ScrubSound(w, s)
  BY DEF RetireState, Stages, ScrubSound, ScrubState, TodoRows, Gone, LicenseRow
<1>4. ASSUME NEW v \in Scrubbers, NEW t \in ScrubState, scrub' = [scrub EXCEPT ![v] = t], ScrubSound(v, t)
      PROVE  DOMAIN scrub' = Scrubbers /\ \A w \in Scrubbers : ScrubSound(w, scrub'[w])
  BY <1>2, <1>4
<1>5. ASSUME UNCHANGED <<day, ran, tableVars>>
      PROVE  TableTypeOK'
  BY <1>1, <1>5 DEF TableTypeOK, tableVars
<1>6. RetireIdle \in RetireState
  BY DEF RetireIdle, RetireState
<1>7. ASSUME NEW w \in Scrubbers, ScrubSave(w) \/ ScrubHistory(w) \/ ScrubSource(w)
      PROVE  TableTypeOK' /\ RetireTyped'
  <2>1. PICK k \in Pks, t \in ScrubState :
          /\ scrub' = [scrub EXCEPT ![w] = t] /\ t.user = scrub[w].user
          /\ UNCHANGED <<day, ran, linked, calls>> /\ UNCHANGED <<retire, deleted, refresh>>
          /\ \/ /\ scrub[w].pc = "save" /\ t.pc = "history" /\ t.pk = k
                /\ \E r \in Gone : rows' = [rows EXCEPT ![k] = r]
                /\ UNCHANGED <<history, source>>
             \/ /\ scrub[w].pc = "history" /\ t.pc = "source" /\ t.pk = k
                /\ history' = [history EXCEPT ![k] = {}]
                /\ UNCHANGED <<rows, source>>
             \/ /\ scrub[w].pc = "source" /\ t.pc = "save"
                /\ source' = source \ {k}
                /\ UNCHANGED <<rows, history>>
    BY <1>7, ScrubWrites
  <2>2. rows' \in [Pks -> LicenseRow]
    BY <1>1, <2>1 DEF Gone
  <2>3. history' \in [Pks -> SUBSET Learners] /\ source' \subseteq Pks
    BY <1>1, <2>1
  <2>4. TableTypeOK'
    BY <1>1, <2>1, <2>2, <2>3 DEF TableTypeOK
  <2>5. ScrubSound(w, t)
    <3>1. w = "request" => scrub[w].user \in Learners
      BY <1>2, <2>1 DEF ScrubSound
    <3> QED
      BY <2>1, <3>1 DEF ScrubSound
  <2>6. DOMAIN scrub' = Scrubbers /\ \A v \in Scrubbers : ScrubSound(v, scrub'[v])
    BY <1>4, <2>1, <2>5
  <2>7. RetireTyped'
    BY <1>2, <1>3, <2>1, <2>6 DEF RetireTyped
  <2> QED
    BY <2>4, <2>7
<1>8. ASSUME NEW w \in Scrubbers, ScrubDone(w) \/ ScrubCrash(w)
      PROVE  TableTypeOK' /\ RetireTyped'
  <2>1. scrub' = [scrub EXCEPT ![w] = ScrubIdle] /\ UNCHANGED <<day, ran, tableVars, refresh>>
    BY <1>8 DEF ScrubDone, ScrubCrash
  <2>2. ScrubIdle \in ScrubState /\ ScrubSound(w, ScrubIdle)
    <3>1. ScrubIdle \in ScrubState
      BY <1>2, ScrubStates
    <3> QED
      BY <3>1 DEF ScrubSound, ScrubIdle
  <2>3. DOMAIN scrub' = Scrubbers /\ \A v \in Scrubbers : ScrubSound(v, scrub'[v])
    BY <1>4, <2>1, <2>2
  <2>4. deleted' \subseteq Learners
    <3>1. CASE ScrubDone(w)
      <4>1. w = "request" => scrub[w].user \in Learners
        BY <1>2, <3>1 DEF ScrubSound, ScrubDone
      <4> QED
        BY <1>2, <3>1, <4>1 DEF ScrubDone
    <3>2. CASE ScrubCrash(w)
      BY <1>2, <3>2 DEF ScrubCrash
    <3> QED
      BY <1>8, <3>1, <3>2
  <2>5. retire' \in RetireState
    BY <1>2, <1>6, <1>8 DEF ScrubDone, ScrubCrash
  <2>6. RetireTyped'
    BY <1>2, <1>3, <2>1, <2>3, <2>4, <2>5 DEF RetireTyped
  <2> QED
    BY <1>5, <2>1, <2>6
<1>9. CASE RetireBatch
  <2>1. PICK t \in ScrubState :
          /\ t.pc = "save" /\ scrub' = [scrub EXCEPT !["command"] = t] /\ retire' \in RetireState
          /\ UNCHANGED <<day, ran, tableVars>> /\ UNCHANGED <<deleted, refresh>>
    BY <1>9, ScrubStarts
  <2>2. "command" \in Scrubbers /\ ScrubSound("command", t)
    BY <2>1 DEF ScrubSound, Scrubbers
  <2>3. DOMAIN scrub' = Scrubbers /\ \A v \in Scrubbers : ScrubSound(v, scrub'[v])
    BY <1>4, <2>1, <2>2
  <2>4. RetireTyped'
    BY <1>2, <1>3, <2>1, <2>3 DEF RetireTyped
  <2> QED
    BY <1>5, <2>1, <2>4
<1>10. ASSUME NEW u \in Learners, RetireUser(u)
       PROVE  TableTypeOK' /\ RetireTyped'
  <2>1. PICK t \in ScrubState :
          /\ t.pc = "save" /\ t.user = u /\ scrub' = [scrub EXCEPT !["request"] = t]
          /\ UNCHANGED <<day, ran, tableVars>> /\ UNCHANGED <<retire, deleted, refresh>>
    BY <1>10, ScrubStarts
  <2>2. "request" \in Scrubbers /\ ScrubSound("request", t)
    BY <2>1 DEF ScrubSound, Scrubbers
  <2>3. DOMAIN scrub' = Scrubbers /\ \A v \in Scrubbers : ScrubSound(v, scrub'[v])
    BY <1>4, <2>1, <2>2
  <2>4. RetireTyped'
    BY <1>2, <1>3, <2>1, <2>3 DEF RetireTyped
  <2> QED
    BY <1>5, <2>1, <2>4
<1>11. CASE RetireStart \/ RetireNextStage \/ RetireDone
  <2>1. retire' \in RetireState
    <3>1. \A s \in Stages : BatchStarts(PurgeDurationExceeded(s)) \in SUBSET (Pks \union {0})
      BY BatchKeys DEF PurgeDurationExceeded
    <3>2. "expired" \in Stages /\ \A s \in {"expired", "revoked"} : NextStage(s) \in Stages
      BY DEF NextStage, Stages
    <3>3. \A s \in Stages, S \in SUBSET (Pks \union {0}) : [stage |-> s, starts |-> S] \in RetireState
      BY DEF RetireState
    <3> QED
      BY <1>6, <1>11, <3>1, <3>2, <3>3 DEF RetireStart, RetireNextStage, RetireDone
  <2>2. /\ ran' \subseteq Commands /\ UNCHANGED <<day, tableVars>>
        /\ scrub' = scrub /\ deleted' = deleted /\ refresh' = refresh
    BY <1>1, <1>11 DEF RetireStart, RetireNextStage, RetireDone, Commands
  <2>3. TableTypeOK'
    BY <1>1, <2>2 DEF TableTypeOK, tableVars
  <2>4. RetireTyped'
    BY <1>2, <1>3, <2>1, <2>2 DEF RetireTyped
  <2> QED
    BY <2>3, <2>4
<1>12. ASSUME NEW u \in Learners, RefreshRead(u) \/ RefreshWrite(u)
       PROVE  TableTypeOK' /\ RetireTyped'
  <2>1. UNCHANGED <<retire, scrub, deleted>> /\ refresh' \in [Learners -> SUBSET Pks]
    BY <1>2, <1>12 DEF RefreshRead, RefreshWrite
  <2>2. RetireTyped'
    BY <1>2, <1>3, <2>1 DEF RetireTyped
  <2>3. CASE RefreshRead(u)
    BY <1>5, <2>2, <2>3 DEF RefreshRead
  <2>4. CASE RefreshWrite(u)
    <3>1. /\ rows' \in [Pks -> LicenseRow] /\ history' \in [Pks -> SUBSET Learners]
          /\ UNCHANGED <<day, ran, source, linked, calls>>
      BY <2>4, RefreshRows
    <3> QED
      BY <1>1, <2>2, <3>1 DEF TableTypeOK
  <2> QED
    BY <1>12, <2>3, <2>4
<1> QED
  BY <1>7, <1>8, <1>9, <1>10, <1>11, <1>12 DEF RetireMoves, ScrubStep

LEMMA TypedStep ==
    ASSUME Typed, [NightlyNext]_nightlyVars
    PROVE  Typed'
<1>1. TableTypeOK /\ ExpireTyped /\ UnlinkTyped /\ RetireTyped
  BY DEF Typed
<1>2. UNCHANGED <<processed, ended, expire>> => ExpireTyped'
  BY <1>1 DEF ExpireTyped
<1>3. UNCHANGED <<events, unlink>> => UnlinkTyped'
  BY <1>1 DEF UnlinkTyped
<1>4. UNCHANGED <<retire, scrub, deleted, refresh>> => RetireTyped'
  BY <1>1 DEF RetireTyped, ScrubSound
<1>5. CASE TableMoves
  BY <1>1, <1>2, <1>3, <1>4, <1>5, TableKeepsTypes, OthersLeave DEF Typed
<1>6. CASE ExpireMoves
  BY <1>1, <1>2, <1>3, <1>4, <1>6, ExpireKeepsTypes, ExpireLeaves DEF Typed
<1>7. CASE UnlinkMoves
  BY <1>1, <1>2, <1>3, <1>4, <1>7, UnlinkKeepsTypes, UnlinkLeaves DEF Typed
<1>8. CASE RetireMoves
  BY <1>1, <1>2, <1>3, <1>4, <1>8, RetireKeepsTypes, RetireLeaves DEF Typed
<1>9. CASE DayPasses
  <2>1. TableTypeOK'
    BY <1>1, <1>9, NightlyAssumption DEF DayPasses, NextDay, TableTypeOK, tableVars
  <2> QED
    BY <1>1, <1>2, <1>3, <1>4, <1>9, <2>1, OthersLeave DEF Typed
<1>10. CASE UNCHANGED nightlyVars
  <2>1. TableTypeOK'
    BY <1>1, <1>10 DEF nightlyVars, TableTypeOK
  <2> QED
    BY <1>1, <1>2, <1>3, <1>4, <1>10, <2>1, OthersLeave DEF Typed
<1> QED
  BY <1>5, <1>6, <1>7, <1>8, <1>9, <1>10, StepKinds

-----------------------------------------------------------------------------
(***************************************************************************)
(* Personal data, as long as no process dies while it removes them.        *)
(***************************************************************************)

\* The process that saved the license without its e-mail has the other two
\* statements before it.
Clearing(k, pcs) == \E w \in Scrubbers : scrub[w].pk = k /\ scrub[w].pc \in pcs

Traceless(k) ==
    /\ history[k] = {} \/ Clearing(k, {"history"})
    /\ k \notin source \/ Clearing(k, {"history", "source"})

DataInv == \A k \in Pks : rows[k].user_email = None => Traceless(k)

LEMMA DataStart == NightlyInit => DataInv
  BY DEF NightlyInit, TableInit, DataInv, Traceless

LEMMA DataSuffices == DataInv => NoDataLeftBehind
  BY DEF DataInv, Traceless, Clearing, NoDataLeftBehind

\* Who has nothing to clear may go on.
LEMMA ClearingStays ==
    ASSUME RetireTyped, NEW w \in Scrubbers, NEW t, scrub' = [scrub EXCEPT ![w] = t],
           NEW k \in Pks, NEW pcs \in SUBSET {"history", "source"}, Clearing(k, pcs),
           \/ scrub[w].pc \in {"idle", "save"}
           \/ scrub[w].pk # k
    PROVE  Clearing(k, pcs)'
<1>1. PICK v \in Scrubbers : scrub[v].pk = k /\ scrub[v].pc \in pcs
  BY DEF Clearing
<1>2. v # w
  BY <1>1
<1>3. scrub'[v] = scrub[v]
  BY <1>2 DEF RetireTyped
<1> QED
  BY <1>1, <1>3 DEF Clearing

LEMMA ScrubKeepsData ==
    ASSUME TableTypeOK, RetireTyped, DataInv, NEW w \in Scrubbers, ScrubSave(w) \/ ScrubHistory(w) \/ ScrubSource(w)
    PROVE  DataInv'
<1>1. PICK k \in Pks, t \in ScrubState :
        /\ scrub' = [scrub EXCEPT ![w] = t]
        /\ \/ /\ scrub[w].pc = "save" /\ t.pc = "history" /\ t.pk = k
              /\ \E r \in Gone : rows' = [rows EXCEPT ![k] = r]
              /\ UNCHANGED <<history, source>>
           \/ /\ scrub[w].pc = "history" /\ scrub[w].pk = k /\ t.pc = "source" /\ t.pk = k
              /\ history' = [history EXCEPT ![k] = {}]
              /\ UNCHANGED <<rows, source>>
           \/ /\ scrub[w].pc = "source" /\ scrub[w].pk = k /\ t.pc = "save"
              /\ source' = source \ {k}
              /\ UNCHANGED <<rows, history>>
  BY ScrubWrites
<1>2. /\ rows \in [Pks -> LicenseRow] /\ history \in [Pks -> SUBSET Learners]
  BY DEF TableTypeOK
<1>3. scrub'[w] = t
  BY <1>1 DEF RetireTyped
<1> SUFFICES ASSUME NEW j \in Pks, rows'[j].user_email = None
             PROVE  Traceless(j)'
  BY DEF DataInv
<1>4. CASE scrub[w].pc = "save" /\ t.pc = "history"
  <2>1. UNCHANGED <<history, source>> /\ t.pk = k /\ \E r \in Gone : rows' = [rows EXCEPT ![k] = r]
    BY <1>1, <1>4
  <2>2. CASE j = k
    BY <1>3, <1>4, <2>1, <2>2 DEF Traceless, Clearing
  <2>3. CASE j # k
    <3>1. Traceless(j)
      BY <1>2, <2>1, <2>3 DEF DataInv
    <3>2. \A pcs \in {{"history"}, {"history", "source"}} : Clearing(j, pcs) => Clearing(j, pcs)'
      BY <1>1, <1>4, ClearingStays
    <3> QED
      BY <2>1, <3>1, <3>2 DEF Traceless
  <2> QED
    BY <2>2, <2>3
<1>5. CASE scrub[w].pc = "history" /\ t.pc = "source"
  <2>1. /\ UNCHANGED <<rows, source>> /\ history' = [history EXCEPT ![k] = {}]
        /\ t.pk = k /\ scrub[w].pk = k
    BY <1>1, <1>5
  <2>2. CASE j = k
    BY <1>2, <1>3, <1>5, <2>1, <2>2 DEF Traceless, Clearing
  <2>3. CASE j # k
    <3>1. Traceless(j)
      BY <2>1 DEF DataInv
    <3>2. \A pcs \in {{"history"}, {"history", "source"}} : Clearing(j, pcs) => Clearing(j, pcs)'
      BY <1>1, <2>1, <2>3, ClearingStays
    <3>3. history'[j] = history[j]
      BY <1>2, <2>1, <2>3
    <3> QED
      BY <2>1, <3>1, <3>2, <3>3 DEF Traceless
  <2> QED
    BY <2>2, <2>3
<1>6. CASE scrub[w].pc = "source" /\ t.pc = "save"
  <2>1. /\ UNCHANGED <<rows, history>> /\ source' = source \ {k} /\ scrub[w].pk = k
    BY <1>1, <1>6
  <2>2. Traceless(j)
    BY <2>1 DEF DataInv
  <2>3. history'[j] = {} \/ Clearing(j, {"history"})'
    <3>1. CASE history[j] = {}
      BY <2>1, <3>1
    <3>2. CASE Clearing(j, {"history"})
      <4>1. PICK v \in Scrubbers : scrub[v].pk = j /\ scrub[v].pc = "history"
        BY <3>2 DEF Clearing
      <4>2. v # w
        BY <1>6, <4>1
      <4>3. scrub'[v] = scrub[v]
        BY <1>1, <4>2 DEF RetireTyped
      <4> QED
        BY <4>1, <4>3 DEF Clearing
    <3> QED
      BY <2>2, <3>1, <3>2 DEF Traceless
  <2>4. j \notin source' \/ Clearing(j, {"history", "source"})'
    <3>1. CASE j = k
      BY <2>1, <3>1
    <3>2. CASE j # k
      <4>1. Clearing(j, {"history", "source"}) => Clearing(j, {"history", "source"})'
        BY <1>1, <2>1, <3>2, ClearingStays
      <4> QED
        BY <2>1, <2>2, <4>1 DEF Traceless
    <3> QED
      BY <3>1, <3>2
  <2> QED
    BY <2>3, <2>4 DEF Traceless
<1> QED
  BY <1>1, <1>4, <1>5, <1>6

LEMMA DataStep ==
    ASSUME Crashes = FALSE, Typed, DataInv, [NightlyNext]_nightlyVars
    PROVE  DataInv'
<1>1. TableTypeOK /\ RetireTyped /\ rows \in [Pks -> LicenseRow] /\ history \in [Pks -> SUBSET Learners]
  BY DEF Typed, TableTypeOK
<1>2. ASSUME UNCHANGED <<rows, history, source, scrub>>
      PROVE  DataInv'
  BY <1>2 DEF DataInv, Traceless, Clearing
<1>3. ASSUME NEW w \in Scrubbers, NEW t, scrub' = [scrub EXCEPT ![w] = t], scrub[w].pc \in {"idle", "save"},
             UNCHANGED <<rows, history, source>>
      PROVE  DataInv'
  <2> SUFFICES ASSUME NEW j \in Pks, rows[j].user_email = None
               PROVE  Traceless(j)'
    BY <1>3 DEF DataInv
  <2>1. Traceless(j)
    BY DEF DataInv
  <2>2. \A pcs \in {{"history"}, {"history", "source"}} : Clearing(j, pcs) => Clearing(j, pcs)'
    BY <1>1, <1>3, ClearingStays
  <2> QED
    BY <1>3, <2>1, <2>2 DEF Traceless
<1>4. CASE TableMoves
  <2>1. PICK k \in Pks, r \in LicenseRow :
          /\ rows' = [rows EXCEPT ![k] = r]
          /\ \/ r.user_email # None /\ \E u \in Learners : history' = [history EXCEPT ![k] = @ \union {u}]
                /\ source' = source \union {k}
             \/ r.user_email # None /\ UNCHANGED <<history, source>>
             \/ r.user_email = rows[k].user_email /\ UNCHANGED <<history, source>>
    <3>1. \A u \in Learners : u # None
      BY NightlyAssumption
    <3> QED
      BY <1>1, <1>4, <3>1, TableRows
  <2> SUFFICES ASSUME NEW j \in Pks, rows'[j].user_email = None
               PROVE  Traceless(j)'
    BY DEF DataInv
  <2>2. rows[j].user_email = None /\ history'[j] = history[j] /\ (j \in source' => j \in source)
    BY <1>1, <2>1
  <2>3. Traceless(j) /\ scrub' = scrub
    BY <1>4, <2>2, OthersLeave DEF DataInv
  <2> QED
    BY <2>2, <2>3 DEF Traceless, Clearing
<1>5. CASE RetireMoves
  <2>1. ASSUME NEW w \in Scrubbers, ScrubSave(w) \/ ScrubHistory(w) \/ ScrubSource(w)
        PROVE  DataInv'
    BY <1>1, <2>1, ScrubKeepsData
  <2>2. ASSUME NEW w \in Scrubbers, ScrubDone(w)
        PROVE  DataInv'
    BY <1>3, <2>2 DEF ScrubDone, tableVars
  <2>3. CASE RetireBatch
    <3>1. scrub["command"].pc = "idle" /\ "command" \in Scrubbers /\ UNCHANGED <<rows, history, source>>
      BY <2>3 DEF RetireBatch, Scrubbers, tableVars
    <3>2. \E t \in ScrubState : scrub' = [scrub EXCEPT !["command"] = t]
      BY <1>1, <2>3, ScrubStarts
    <3> QED
      BY <1>3, <3>1, <3>2
  <2>4. ASSUME NEW u \in Learners, RetireUser(u)
        PROVE  DataInv'
    <3>1. scrub["request"].pc = "idle" /\ "request" \in Scrubbers /\ UNCHANGED <<rows, history, source>>
      BY <2>4 DEF RetireUser, Scrubbers, tableVars
    <3>2. \E t \in ScrubState : scrub' = [scrub EXCEPT !["request"] = t]
      BY <1>1, <2>4, ScrubStarts
    <3> QED
      BY <1>3, <3>1, <3>2
  <2>5. CASE RetireStart \/ RetireNextStage \/ RetireDone \/ \E u \in Learners : RefreshRead(u)
    BY <1>2, <2>5 DEF RetireStart, RetireNextStage, RetireDone, RefreshRead, tableVars
  <2>6. ASSUME NEW u \in Learners, RefreshWrite(u)
        PROVE  DataInv'
    <3> SUFFICES ASSUME NEW j \in Pks, rows'[j].user_email = None
                 PROVE  Traceless(j)'
      BY DEF DataInv
    <3>1. u # None
      BY NightlyAssumption
    <3>2. rows'[j] = rows[j] /\ history'[j] = history[j] /\ source' = source
      BY <1>1, <2>6, <3>1, RefreshRows
    <3>3. Traceless(j) /\ scrub' = scrub
      BY <2>6, <3>2 DEF DataInv, RefreshWrite
    <3> QED
      BY <3>2, <3>3 DEF Traceless, Clearing
  <2>7. \A w \in Scrubbers : ~ScrubCrash(w)
    BY DEF ScrubCrash
  <2> QED
    BY <1>5, <2>1, <2>2, <2>3, <2>4, <2>5, <2>6, <2>7 DEF RetireMoves, ScrubStep
<1>6. CASE ExpireMoves
  BY <1>2, <1>6, ExpireLeaves
<1>7. CASE UnlinkMoves
  BY <1>2, <1>7, UnlinkLeaves
<1>8. CASE DayPasses \/ UNCHANGED nightlyVars
  BY <1>2, <1>8, OthersLeave
<1> QED
  BY <1>4, <1>5, <1>6, <1>7, <1>8, StepKinds

(***************************************************************************)
(* Whatever commands and requests remove e-mails at the same time, no      *)
(* license without a learner keeps an e-mail in its history or a source,   *)
(* provided that the processes run to their ends.                          *)
(***************************************************************************)
THEOREM NoDataIsLeft ==
    ASSUME Crashes = FALSE
    PROVE  NightlySpec => []NoDataLeftBehind
<1>1. NightlyInit => Typed /\ DataInv
  BY TypedStart, DataStart
<1>2. Typed /\ DataInv /\ [NightlyNext]_nightlyVars => Typed' /\ DataInv'
  BY TypedStep, DataStep
<1>3. Typed /\ DataInv => NoDataLeftBehind
  BY DataSuffices
<1> QED
  BY <1>1, <1>2, <1>3, PTL DEF NightlySpec

-----------------------------------------------------------------------------
(***************************************************************************)
(* The ends of enrollments, whatever fails and whatever overlaps.          *)
(***************************************************************************)
\* The chain of renewals that the plan is in ends in a plan that has expired.
Over(p) == LastPlan(p) \in Plans /\ Expires[LastPlan(p)] <= day

Due(p) == Expires[p] <= day /\ Over(p)

Early(k) == Allocated(k) /\ rows[k].assigned_date < Expires[PlanOf[k]]

ChunksInv ==
    /\ expire.plan \in Plans /\ Due(expire.plan)
    /\ \A k \in expire.licenses : PlanOf[k] = expire.plan
    /\ ~expire.failures =>
          \A k \in Pks : PlanOf[k] = expire.plan /\ Early(k) => k \in ended \union expire.licenses

EndsInv ==
    /\ \A p \in processed : Expires[p] <= day
    /\ \A k \in ended : Over(PlanOf[k])
    /\ \A p \in expire.plans : Expires[p] <= day
    /\ \A p \in expire.chain : Due(p)
    /\ expire.pc = "chunks" => ChunksInv
    /\ ProcessedMeansEnded

LEMMA EndsStart == NightlyInit => EndsInv
  BY DEF NightlyInit, ExpireInit, ExpireIdle, EndsInv, ProcessedMeansEnded

LEMMA EndsSuffice == Typed /\ EndsInv => EnrollmentsSound
  BY TypesSuffice DEF EndsInv, Over, EndedWithTheChain, EnrollmentsSound

\* The calendar, as numbers.
LEMMA Calendar ==
    ASSUME TableTypeOK
    PROVE  /\ day \in Nat
           /\ \A p \in Plans : Expires[p] \in Nat
           /\ \A k \in Pks : PlanOf[k] \in Plans /\ rows[k] \in LicenseRow /\ rows[k].assigned_date \in Nat
  BY NightlyAssumption DEF TableTypeOK, LicenseRow

\* In a plan that has expired no license is given out that counts.
EarlyBefore == \A k \in Pks : Early(k)' => Early(k) \/ day < Expires[PlanOf[k]]

LEMMA TableEarly ==
    ASSUME TableTypeOK, TableMoves
    PROVE  EarlyBefore
<1>1. PICK k \in Pks, r \in LicenseRow :
        /\ rows' = [rows EXCEPT ![k] = r]
        /\ \/ r.assigned_date = day
           \/ rows[k].status = "assigned" /\ r.assigned_date = rows[k].assigned_date
           \/ r.status = "revoked"
  BY TableRows
<1>2. rows \in [Pks -> LicenseRow]
  BY DEF TableTypeOK
<1>3. ASSUME NEW j \in Pks, Early(j)'
      PROVE  Early(j) \/ day < Expires[PlanOf[j]]
  <2>1. CASE j # k
    BY <1>1, <1>2, <1>3, <2>1 DEF Early, Allocated
  <2>2. CASE j = k
    <3>1. rows'[k] = r
      BY <1>1, <1>2
    <3> QED
      BY <1>1, <1>3, <2>2, <3>1 DEF Early, Allocated
  <2> QED
    BY <2>1, <2>2
<1> QED
  BY <1>3 DEF EarlyBefore

LEMMA RetireEarly ==
    ASSUME TableTypeOK, RetireTyped, RetireMoves
    PROVE  EarlyBefore
<1>1. rows \in [Pks -> LicenseRow]
  BY DEF TableTypeOK
<1>2. ASSUME UNCHANGED rows
      PROVE  EarlyBefore
  BY <1>2 DEF EarlyBefore, Early, Allocated
<1>3. ASSUME NEW w \in Scrubbers, ScrubSave(w) \/ ScrubHistory(w) \/ ScrubSource(w)
      PROVE  EarlyBefore
  <2>1. PICK k \in Pks : UNCHANGED rows \/ \E r \in Gone : rows' = [rows EXCEPT ![k] = r]
    BY <1>3, ScrubWrites
  <2>2. ASSUME NEW r \in Gone, rows' = [rows EXCEPT ![k] = r], NEW j \in Pks, Early(j)'
        PROVE  Early(j)
    <3>1. j # k
      BY <1>1, <2>2 DEF Early, Allocated, Gone
    <3> QED
      BY <1>1, <2>2, <3>1 DEF Early, Allocated
  <2> QED
    BY <1>2, <2>1, <2>2 DEF EarlyBefore
<1>4. ASSUME NEW u \in Learners, RefreshWrite(u)
      PROVE  EarlyBefore
  <2>1. \A k \in Pks : rows'[k].status = rows[k].status /\ rows'[k].assigned_date = rows[k].assigned_date
    BY <1>4, RefreshRows
  <2> QED
    BY <2>1 DEF EarlyBefore, Early, Allocated
<1>5. CASE \/ RetireStart \/ RetireBatch \/ RetireNextStage \/ RetireDone
           \/ \E w \in Scrubbers : ScrubDone(w) \/ ScrubCrash(w)
           \/ \E u \in Learners : RetireUser(u) \/ RefreshRead(u)
  BY <1>2, <1>5 DEF RetireStart, RetireBatch, RetireNextStage, RetireDone, ScrubDone, ScrubCrash,
                    RetireUser, RefreshRead, tableVars
<1> QED
  BY <1>3, <1>4, <1>5 DEF RetireMoves, ScrubStep

\* The command alone changes what it has ended; time only passes.
LEMMA OthersKeepEnds ==
    ASSUME TableTypeOK, ExpireTyped, EndsInv, EarlyBefore, UNCHANGED <<processed, ended, expire>>,
           day' \in Nat, day <= day'
    PROVE  EndsInv'
<1>1. /\ day \in Nat /\ \A p \in Plans : Expires[p] \in Nat
      /\ \A k \in Pks : PlanOf[k] \in Plans
  BY Calendar
<1>2. \A p \in Plans : Expires[p] <= day => Expires[p] <= day'
  BY <1>1
<1>3. \A p \in Plans : Over(p) => Over(p)'
  BY <1>2 DEF Over
<1>4. \A p \in Plans : Due(p) => Due(p)'
  BY <1>2, <1>3 DEF Due
<1>5. \A p \in Plans, k \in Pks : Expires[p] <= day /\ PlanOf[k] = p /\ Early(k)' => Early(k)
  BY <1>1 DEF EarlyBefore
<1>6. processed \subseteq Plans /\ ended \subseteq Pks /\ expire.plans \subseteq Plans /\ expire.chain \subseteq Plans
  BY DEF ExpireTyped, ExpireState
<1>7. (\A p \in processed : Expires[p] <= day)' /\ (\A k \in ended : Over(PlanOf[k]))'
  BY <1>1, <1>2, <1>3, <1>6 DEF EndsInv
<1>8. (\A p \in expire.plans : Expires[p] <= day)' /\ (\A p \in expire.chain : Due(p))'
  BY <1>2, <1>4, <1>6 DEF EndsInv
<1>9. ASSUME expire.pc = "chunks"
      PROVE  ChunksInv'
  <2>1. ChunksInv
    BY <1>9 DEF EndsInv
  <2>2. expire.plan \in Plans /\ Due(expire.plan)' /\ Expires[expire.plan] <= day
    BY <1>4, <2>1 DEF ChunksInv, Due
  <2>3. \A k \in Pks : PlanOf[k] = expire.plan /\ Early(k)' => Early(k)
    BY <1>5, <2>2
  <2> QED
    BY <2>1, <2>2, <2>3 DEF ChunksInv
<1>10. ProcessedMeansEnded'
  <2> SUFFICES ASSUME NEW k \in Pks, PlanOf[k] \in processed, Early(k)'
               PROVE  k \in ended
    BY DEF ProcessedMeansEnded, Early, Allocated
  <2>1. Early(k)
    BY <1>5, <1>6 DEF EndsInv
  <2> QED
    BY <2>1 DEF EndsInv, ProcessedMeansEnded, Early
<1> QED
  BY <1>7, <1>8, <1>9, <1>10 DEF EndsInv

LEMMA ExpireKeepsEnds ==
    ASSUME RenewedPlansOutlast, TableTypeOK, ExpireTyped, EndsInv, ExpireMoves
    PROVE  EndsInv'
<1>1. /\ day \in Nat /\ \A p \in Plans : Expires[p] \in Nat
      /\ \A k \in Pks : PlanOf[k] \in Plans
  BY Calendar
<1>2. UNCHANGED <<day, rows>>
  BY ExpireLeaves
<1>3. /\ \A p : Over(p)' <=> Over(p)
      /\ \A p : Due(p)' <=> Due(p)
      /\ \A k : Early(k)' <=> Early(k)
  BY <1>2 DEF Over, Due, Early, Allocated
<1>4. /\ processed \subseteq Plans /\ ended \subseteq Pks /\ expire \in ExpireState
      /\ expire.plans \subseteq Plans /\ expire.chain \subseteq Plans /\ expire.licenses \subseteq Pks
  BY DEF ExpireTyped, ExpireState
<1>5. /\ \A p \in processed : Expires[p] <= day
      /\ \A k \in ended : Over(PlanOf[k])
      /\ \A p \in expire.plans : Expires[p] <= day
      /\ \A p \in expire.chain : Due(p)
      /\ \A k \in Pks : PlanOf[k] \in processed /\ Early(k) => k \in ended
  BY DEF EndsInv, ProcessedMeansEnded, Early
<1> DEFINE Now(P, E, e) ==
             /\ \A p \in P : Expires[p] <= day
             /\ \A k \in E : Over(PlanOf[k])
             /\ \A p \in e.plans : Expires[p] <= day
             /\ \A p \in e.chain : Due(p)
             /\ e.pc = "chunks" =>
                  /\ e.plan \in Plans /\ Due(e.plan)
                  /\ \A k \in e.licenses : PlanOf[k] = e.plan
                  /\ ~e.failures =>
                       \A k \in Pks : PlanOf[k] = e.plan /\ Early(k) => k \in E \union e.licenses
             /\ \A k \in Pks : PlanOf[k] \in P /\ Early(k) => k \in E
<1>6. Now(processed', ended', expire') => EndsInv'
  <2> HIDE DEF Early, Over, Due
  <2>1. ASSUME Now(processed', ended', expire')
        PROVE  EndsInv'
    <3>1. (expire.pc = "chunks" => ChunksInv)'
      BY <1>3, <2>1 DEF ChunksInv
    <3>2. ProcessedMeansEnded'
      <4>1. \A k \in Pks : PlanOf[k] \in processed' /\ Early(k)' => k \in ended'
        BY <1>3, <2>1
      <4> QED
        BY <4>1 DEF ProcessedMeansEnded, Early, Allocated
    <3> QED
      BY <1>2, <1>3, <2>1, <3>1, <3>2 DEF EndsInv
  <2> QED
    BY <2>1
<1>7. CASE ExpireStart \/ \E P \in SUBSET Plans : ExpireByHand(P)
  <2>1. PICK P \in SUBSET Plans :
          /\ expire' = [ExpireIdle EXCEPT !.pc = "plans", !.plans = P]
          /\ \A p \in P : Expires[p] <= day
    <3>1. CASE ExpireStart
      <4>1. ExpiredPlans \in SUBSET Plans /\ \A p \in ExpiredPlans : Expires[p] <= day
        BY <1>1 DEF ExpiredPlans
      <4> QED
        BY <3>1, <4>1 DEF ExpireStart
    <3>2. ASSUME NEW Q \in SUBSET Plans, ExpireByHand(Q)
          PROVE  \E P \in SUBSET Plans :
                   /\ expire' = [ExpireIdle EXCEPT !.pc = "plans", !.plans = P]
                   /\ \A p \in P : Expires[p] <= day
      <4>1. ExpiredPlansAmong(Q) \in SUBSET Plans /\ \A p \in ExpiredPlansAmong(Q) : Expires[p] <= day
        BY DEF ExpiredPlansAmong
      <4> QED
        BY <3>2, <4>1 DEF ExpireByHand
    <3> QED
      BY <1>7, <3>1, <3>2
  <2>2. expire'.pc = "plans" /\ expire'.plans = P /\ expire'.chain = {}
    BY <2>1 DEF ExpireIdle
  <2>3. processed' = processed /\ ended' = ended
    BY <1>7 DEF ExpireStart, ExpireByHand
  <2>4. Now(processed', ended', expire')
    BY <1>5, <2>1, <2>2, <2>3
  <2> QED
    BY <1>6, <2>4
<1>8. ASSUME NEW p \in Plans, ExpireNextPlan(p) PROVE EndsInv'
  <2>1. p \in expire.plans /\ Expires[p] <= day /\ processed' = processed /\ ended' = ended /\ expire.pc = "plans"
    BY <1>5, <1>8 DEF ExpireNextPlan
  <2> DEFINE C == {p} \union PriorPlans(p)
             P == expire.plans \ {p}
  <2>2. CASE RenewalOf[p] # None
    <3>1. expire' = [expire EXCEPT !.plans = P]
      BY <1>8, <2>2 DEF ExpireNextPlan
    <3>2. expire'.pc = "plans" /\ expire'.plans = P /\ expire'.chain = expire.chain
      <4> HIDE DEF P
      <4> QED
        BY <1>4, <2>1, <3>1 DEF ExpireState
    <3>3. Now(processed', ended', expire')
      BY <1>5, <2>1, <3>2
    <3> QED
      BY <1>6, <3>3
  <2>3. CASE RenewalOf[p] = None
    <3>1. expire' = [expire EXCEPT !.plans = P, !.pc = "chain", !.chain = C]
      BY <1>8, <2>3 DEF ExpireNextPlan
    <3>2. expire'.pc = "chain" /\ expire'.plans = P /\ expire'.chain = C
      <4> HIDE DEF P, C
      <4> QED
        BY <1>4, <3>1 DEF ExpireState
    <3>3. \A q \in C : q \in Plans /\ LastPlan(q) = p
      BY <2>3, LastOfChain DEF PriorPlans
    <3>4. \A q \in C : Expires[q] <= day
      <4>1. \A q \in PriorPlans(p) : Expires[q] <= Expires[p]
        BY PriorExpireBefore
      <4>2. \A q \in PriorPlans(p) : q \in Plans
        BY DEF PriorPlans
      <4> QED
        BY <1>1, <2>1, <4>1, <4>2
    <3>5. \A q \in C : Due(q)
      <4> HIDE DEF C
      <4> QED
        BY <2>1, <3>3, <3>4 DEF Due, Over
    <3>6. Now(processed', ended', expire')
      <4> HIDE DEF C
      <4> QED
        BY <1>5, <2>1, <3>2, <3>5
    <3> QED
      BY <1>6, <3>6
  <2> QED
    BY <2>2, <2>3
<1>9. ASSUME NEW q \in Plans, ExpireRead(q) PROVE EndsInv'
  <2> DEFINE L == {k \in Pks : PlanOf[k] = q /\ Allocated(k)}
             C == expire.chain \ {q}
  <2>1. /\ Due(q) /\ processed' = processed /\ ended' = ended
        /\ expire' = [expire EXCEPT !.pc = "chunks", !.plan = q, !.chain = C, !.licenses = L, !.failures = FALSE]
    BY <1>5, <1>9 DEF ExpireRead
  <2>2. /\ expire'.pc = "chunks" /\ expire'.plan = q /\ expire'.chain = C /\ expire'.licenses = L
        /\ expire'.failures = FALSE /\ expire'.plans = expire.plans
    <3> HIDE DEF L, C
    <3> QED
      BY <1>4, <2>1 DEF ExpireState
  <2>3. Now(processed', ended', expire')
    <3>1. \A k \in Pks : PlanOf[k] = q /\ Early(k) => k \in L
      BY DEF Early
    <3>2. \A k \in L : PlanOf[k] = q
      OBVIOUS
    <3>3. \A p \in C : Due(p)
      BY <1>5
    <3> HIDE DEF L, C
    <3> QED
      BY <1>5, <2>1, <2>2, <3>1, <3>2, <3>3
  <2> QED
    BY <1>6, <2>3
<1>10. ASSUME expire.pc = "chunks"
       PROVE  /\ expire.plan \in Plans /\ Due(expire.plan)
              /\ \A k \in expire.licenses : PlanOf[k] = expire.plan
              /\ ~expire.failures =>
                   \A k \in Pks : PlanOf[k] = expire.plan /\ Early(k) => k \in ended \union expire.licenses
  BY <1>10 DEF EndsInv, ChunksInv
<1>11. CASE ExpireChunk
  <2>1. PICK C : /\ C \subseteq expire.licenses
                 /\ \/ ended' = ended \union C /\ expire' = [expire EXCEPT !.licenses = expire.licenses \ C]
                    \/ /\ ended' = ended
                       /\ expire' = [expire EXCEPT !.licenses = expire.licenses \ C, !.failures = TRUE]
    BY <1>11 DEF ExpireChunk, Chunk
  <2>2. expire.pc = "chunks" /\ processed' = processed
    BY <1>11 DEF ExpireChunk
  <2> DEFINE L == expire.licenses \ C
  <2>3. /\ expire'.pc = "chunks" /\ expire'.plan = expire.plan /\ expire'.chain = expire.chain
        /\ expire'.plans = expire.plans /\ expire'.licenses = L
        /\ (expire'.failures = expire.failures /\ ended' = ended \union C) \/ expire'.failures = TRUE
    <3> HIDE DEF L
    <3> QED
      BY <1>4, <2>1, <2>2 DEF ExpireState, L
  <2>4. \A k \in ended' : Over(PlanOf[k])
    <3>1. \A k \in C : Over(PlanOf[k])
      BY <1>10, <2>1, <2>2 DEF Due
    <3> QED
      BY <1>5, <2>1, <3>1
  <2>5. \A k \in Pks : PlanOf[k] \in processed /\ Early(k) => k \in ended'
    BY <1>5, <2>1
  <2>6. Now(processed', ended', expire')
    <3>1. \A k \in L : PlanOf[k] = expire.plan
      BY <1>10, <2>2
    <3>2. ~expire'.failures => \A k \in Pks : PlanOf[k] = expire.plan /\ Early(k) => k \in ended' \union L
      <4>1. ~expire'.failures => ~expire.failures /\ ended' = ended \union C
        BY <2>3
      <4> QED
        BY <1>10, <2>2, <4>1
    <3> HIDE DEF L
    <3> QED
      BY <1>5, <1>10, <2>2, <2>3, <2>4, <2>5, <3>1, <3>2
  <2> QED
    BY <1>6, <2>6
<1>12. CASE ExpireFlag
  <2>1. /\ expire' = [expire EXCEPT !.pc = "chain", !.plan = None, !.failures = FALSE]
        /\ processed' = IF expire.failures THEN processed ELSE processed \union {expire.plan}
        /\ ended' = ended /\ expire.pc = "chunks" /\ expire.licenses = {}
    BY <1>12 DEF ExpireFlag
  <2>2. expire'.pc = "chain" /\ expire'.chain = expire.chain /\ expire'.plans = expire.plans
    BY <1>4, <2>1 DEF ExpireState
  <2>3. \A p \in processed' : Expires[p] <= day
    BY <1>5, <1>10, <2>1 DEF Due
  <2>4. \A k \in Pks : PlanOf[k] \in processed' /\ Early(k) => k \in ended
    <3>1. CASE expire.failures
      BY <1>5, <2>1, <3>1
    <3>2. CASE ~expire.failures
      BY <1>5, <1>10, <2>1, <3>2
    <3> QED
      BY <3>1, <3>2
  <2>5. Now(processed', ended', expire')
    BY <1>5, <2>1, <2>2, <2>3, <2>4
  <2> QED
    BY <1>6, <2>5
<1>13. CASE ExpireChainDone \/ ExpireDone
  <2>1. /\ processed' = processed /\ ended' = ended
        /\ expire' = [expire EXCEPT !.pc = "plans"] \/ expire' = ExpireIdle
    BY <1>13 DEF ExpireChainDone, ExpireDone
  <2>2. /\ expire'.pc # "chunks"
        /\ \/ expire'.plans = expire.plans /\ expire'.chain = expire.chain
           \/ expire'.plans = {} /\ expire'.chain = {}
    BY <1>4, <2>1 DEF ExpireState, ExpireIdle
  <2>3. Now(processed', ended', expire')
    BY <1>5, <2>1, <2>2
  <2> QED
    BY <1>6, <2>3
<1> QED
  BY <1>7, <1>8, <1>9, <1>11, <1>12, <1>13 DEF ExpireMoves, ExpireStep

LEMMA EndsStep ==
    ASSUME RenewedPlansOutlast, Typed, EndsInv, [NightlyNext]_nightlyVars
    PROVE  EndsInv'
<1>1. TableTypeOK /\ ExpireTyped /\ RetireTyped /\ day \in Nat
  BY Calendar DEF Typed
<1>2. UNCHANGED rows => EarlyBefore
  BY DEF EarlyBefore, Early, Allocated
<1>3. CASE TableMoves
  BY <1>1, <1>3, TableEarly, OthersLeave, OthersKeepEnds
<1>4. CASE ExpireMoves
  BY <1>1, <1>4, ExpireKeepsEnds
<1>5. CASE UnlinkMoves
  BY <1>1, <1>2, <1>5, UnlinkLeaves, OthersKeepEnds
<1>6. CASE RetireMoves
  BY <1>1, <1>6, RetireEarly, RetireLeaves, OthersKeepEnds
<1>7. CASE DayPasses
  <2>1. day' \in Nat /\ day <= day'
    BY <1>1, <1>7 DEF DayPasses, NextDay
  <2> QED
    BY <1>1, <1>2, <1>7, <2>1, OthersLeave, OthersKeepEnds
<1>8. CASE UNCHANGED nightlyVars
  BY <1>1, <1>2, <1>8, OthersLeave, OthersKeepEnds
<1> QED
  BY <1>3, <1>4, <1>5, <1>6, <1>7, <1>8, StepKinds

(***************************************************************************)
(* Whatever chunks fail, whatever dies and whatever requests come between, *)
(* enrollments end with the chain of renewals, and a processed plan has no *)
(* license from before its expiration whose enrollments go on.             *)
(***************************************************************************)
THEOREM EnrollmentsAreSound ==
    ASSUME RenewedPlansOutlast
    PROVE  NightlySpec => []EnrollmentsSound
<1>1. NightlyInit => Typed /\ EndsInv
  BY TypedStart, EndsStart
<1>2. Typed /\ EndsInv /\ [NightlyNext]_nightlyVars => Typed' /\ EndsInv'
  BY TypedStep, EndsStep
<1>3. Typed /\ EndsInv => EnrollmentsSound
  BY EndsSuffice
<1> QED
  BY <1>1, <1>2, <1>3, PTL DEF NightlySpec

-----------------------------------------------------------------------------
(***************************************************************************)
(* The links of learners, as long as requests wait for the commands.       *)
(***************************************************************************)
RetireQuiet == retire.stage = "idle" /\ \A w \in Scrubbers : scrub[w].pc = "idle"

\* A learner with a license in a current plan is not among those about to be unlinked.
PageSpares ==
    \A pair \in unlink.page : \A k \in Pks : Current(PlanOf[k]) => rows[k].user_email # pair[2]

\* Licenses in use know the learner by one e-mail.
EmailsKnown ==
    \A k \in Pks : Allocated(k) => /\ rows[k].user_email \in Learners
                                   /\ rows[k].lms_user_id \in {None, rows[k].user_email}

\* One of the commands and requests that read and write e-mails at a time.
Turns ==
    /\ unlink.pc # "idle" => RetireQuiet /\ \A u \in Learners : refresh[u] = {}
    /\ \A u \in Learners : refresh[u] # {} => RetireQuiet /\ \A v \in Learners : v # u => refresh[v] = {}
    /\ \A u \in Learners : \A k \in refresh[u] : rows[k].lms_user_id = u
    /\ unlink.pc = "call" => PageSpares

LinkedInv == EmailsKnown /\ CurrentLearnersLinked /\ Turns

LEMMA LinkedStart == NightlyInit => LinkedInv
  BY DEF NightlyInit, TableInit, UnlinkInit, UnlinkIdle, RetireInit, LinkedInv, EmailsKnown,
         CurrentLearnersLinked, Turns, Allocated, Blank

LEMMA TableKeepsLinks ==
    ASSUME Overlap = FALSE, Typed, LinkedInv, TableMoves
    PROVE  LinkedInv'
<1>1. /\ rows \in [Pks -> LicenseRow] /\ None \notin Learners /\ day' = day
      /\ UNCHANGED <<events, unlink>> /\ UNCHANGED <<retire, scrub, deleted, refresh>>
  BY NightlyAssumption, OthersLeave DEF Typed, TableTypeOK
<1>2. Quiet
  BY DEF TableMoves, Free
<1>3. PICK k \in Pks, r \in LicenseRow :
        /\ rows' = [rows EXCEPT ![k] = r]
        /\ \/ /\ r.user_email \in Learners /\ r.lms_user_id = None
              /\ linked' = linked \union {r.user_email}
           \/ /\ rows[k].status = "assigned" /\ r.user_email = rows[k].user_email
              /\ r.lms_user_id = rows[k].user_email /\ linked' = linked
           \/ r.status = "revoked" /\ linked' = linked
  BY TableRows DEF Typed
<1>4. Turns'
  BY <1>1, <1>2 DEF Quiet, Turns
<1>5. EmailsKnown /\ CurrentLearnersLinked
  BY DEF LinkedInv
<1>6. rows'[k] = r /\ \A j \in Pks : j # k => rows'[j] = rows[j]
  BY <1>1, <1>3
<1>7. EmailsKnown' /\ CurrentLearnersLinked'
  <2> SUFFICES ASSUME NEW j \in Pks, Allocated(j)'
               PROVE  /\ rows'[j].user_email \in Learners
                      /\ rows'[j].lms_user_id \in {None, rows'[j].user_email}
                      /\ Current(PlanOf[j])' => rows'[j].user_email \in linked'
    BY DEF EmailsKnown, CurrentLearnersLinked
  <2>1. Current(PlanOf[j])' => Current(PlanOf[j])
    BY <1>1 DEF Current
  <2>2. CASE j # k
    BY <1>3, <1>5, <1>6, <2>1, <2>2 DEF EmailsKnown, CurrentLearnersLinked, Allocated
  <2>3. CASE j = k
    <3>1. r.status # "revoked"
      BY <1>6, <2>3 DEF Allocated
    <3> QED
      BY <1>3, <1>5, <1>6, <2>1, <2>3, <3>1 DEF EmailsKnown, CurrentLearnersLinked, Allocated
  <2> QED
    BY <2>2, <2>3
<1> QED
  BY <1>4, <1>7 DEF LinkedInv

LEMMA UnlinkKeepsLinks ==
    ASSUME Overlap = FALSE, Typed, LinkedInv, UnlinkMoves
    PROVE  LinkedInv'
<1>1. /\ UNCHANGED <<day, rows, history, source>> /\ UNCHANGED <<retire, scrub, deleted, refresh>>
  BY UnlinkLeaves
<1>2. EmailsKnown /\ CurrentLearnersLinked /\ Turns
  BY DEF LinkedInv
<1>3. EmailsKnown'
  BY <1>1, <1>2 DEF EmailsKnown, Allocated
<1>4. unlink.pc # "idle" \/ Quiet
  BY DEF UnlinkMoves, Free, UnlinkStep, UnlinkPage, UnlinkCall, UnlinkRecord, UnlinkDone
<1>5. RetireQuiet' /\ \A u \in Learners : refresh'[u] = {}
  BY <1>1, <1>2, <1>4 DEF Turns, Quiet, RetireQuiet
<1>6. linked' = linked => CurrentLearnersLinked'
  BY <1>1, <1>2 DEF CurrentLearnersLinked, Allocated, Current
<1>7. PageSpares' => Turns'
  BY <1>5 DEF Turns
<1>8. unlink'.pc # "call" => Turns'
  BY <1>5 DEF Turns
<1>9. CASE UnlinkStart
  <2>1. unlink'.pc = "pages" /\ linked' = linked
    BY <1>9 DEF UnlinkStart, tableVars
  <2> QED
    BY <1>3, <1>6, <1>8, <2>1 DEF LinkedInv
<1>10. CASE UnlinkPage
  <2>1. linked' = linked
    BY <1>10 DEF UnlinkPage, tableVars
  <2>2. PICK P \in SUBSET DOMAIN unlink.found :
          unlink' = [pc |-> "call",
                     found |-> [k \in DOMAIN unlink.found \ P |-> unlink.found[k]],
                     page |-> {<<k, unlink.found[k].user_email>> :
                                 k \in {j \in P : ~OtherActiveLicenses(unlink.found[j])}},
                     due |-> unlink.due]
    BY <1>10 DEF UnlinkPage
  <2>3. PageSpares'
    <3> SUFFICES ASSUME NEW pair \in unlink'.page, NEW k \in Pks, Current(PlanOf[k])
                 PROVE  rows[k].user_email # pair[2]
      BY <1>1 DEF PageSpares, Current
    <3>1. unlink'.page = {<<k_1, unlink.found[k_1].user_email>> :
                            k_1 \in {j \in P : ~OtherActiveLicenses(unlink.found[j])}}
      BY <2>2
    <3>2. PICK j \in P : pair = <<j, unlink.found[j].user_email>> /\ ~OtherActiveLicenses(unlink.found[j])
      BY <3>1
    <3> QED
      BY <3>2 DEF OtherActiveLicenses
  <2> QED
    BY <1>3, <1>6, <1>7, <2>1, <2>3 DEF LinkedInv
<1>11. CASE UnlinkCall
  <2>1. unlink'.pc # "call"
    <3>1. unlink \in UnlinkState
      BY DEF Typed, UnlinkTyped
    <3>2. \A s \in UnlinkState : [s EXCEPT !.pc = "record"].pc = "record"
      BY DEF UnlinkState
    <3>3. [unlink EXCEPT !.pc = "record"].pc = "record"
      BY <3>1, <3>2
    <3>4. unlink' = [unlink EXCEPT !.pc = "record"] \/ unlink' = UnlinkIdle
      BY <1>11 DEF UnlinkCall
    <3>5. UnlinkIdle.pc = "idle"
      BY DEF UnlinkIdle
    <3>6. unlink' = UnlinkIdle => unlink'.pc = "idle"
      BY <3>5
    <3>7. unlink' # UnlinkIdle => unlink'.pc = "record"
      BY <3>3, <3>4
    <3> QED
      BY <3>6, <3>7
  <2>2. CurrentLearnersLinked'
    <3>1. linked' = linked \/ linked' = linked \ {pair[2] : pair \in unlink.page}
      BY <1>11 DEF UnlinkCall
    <3>2. PageSpares
      BY <1>2, <1>11 DEF UnlinkCall, Turns
    <3>3. ASSUME linked' = linked \ {pair[2] : pair \in unlink.page},
                 NEW k \in Pks, Allocated(k), Current(PlanOf[k])
          PROVE  rows[k].user_email \in linked'
      BY <1>2, <3>2, <3>3 DEF CurrentLearnersLinked, PageSpares
    <3>4. linked' = linked \ {pair[2] : pair \in unlink.page} => CurrentLearnersLinked'
      BY <1>1, <3>3 DEF CurrentLearnersLinked, Allocated, Current
    <3> QED
      BY <1>6, <3>1, <3>4
  <2> QED
    BY <1>3, <1>8, <2>1, <2>2 DEF LinkedInv
<1>12. CASE UnlinkRecord \/ UnlinkDone
  <2>1. linked' = linked
    BY <1>12 DEF UnlinkRecord, UnlinkDone, tableVars
  <2>2. unlink'.pc # "call"
    <3>1. unlink \in UnlinkState
      BY DEF Typed, UnlinkTyped
    <3>2. \A s \in UnlinkState : [s EXCEPT !.pc = "pages", !.page = {}].pc = "pages"
      BY DEF UnlinkState
    <3>3. [unlink EXCEPT !.pc = "pages", !.page = {}].pc = "pages"
      BY <3>1, <3>2
    <3>4. unlink' = [unlink EXCEPT !.pc = "pages", !.page = {}] \/ unlink' = UnlinkIdle
      BY <1>12 DEF UnlinkRecord, UnlinkDone
    <3>5. UnlinkIdle.pc = "idle"
      BY DEF UnlinkIdle
    <3>6. unlink' = UnlinkIdle => unlink'.pc = "idle"
      BY <3>5
    <3>7. unlink' # UnlinkIdle => unlink'.pc = "pages"
      BY <3>3, <3>4
    <3> QED
      BY <3>6, <3>7
  <2> QED
    BY <1>3, <1>6, <1>8, <2>1, <2>2 DEF LinkedInv
<1> QED
  BY <1>9, <1>10, <1>11, <1>12 DEF UnlinkMoves, UnlinkStep

LEMMA RetireKeepsLinks ==
    ASSUME Overlap = FALSE, Typed, LinkedInv, RetireMoves
    PROVE  LinkedInv'
<1>1. /\ UNCHANGED <<day, linked>> /\ UNCHANGED <<events, unlink>>
      /\ rows \in [Pks -> LicenseRow] /\ refresh \in [Learners -> SUBSET Pks] /\ DOMAIN scrub = Scrubbers
  BY RetireLeaves DEF Typed, TableTypeOK, RetireTyped
<1>2. EmailsKnown /\ CurrentLearnersLinked /\ Turns /\ TableTypeOK /\ RetireTyped
  BY DEF LinkedInv, Typed
<1>3. UNCHANGED rows => EmailsKnown' /\ CurrentLearnersLinked'
  BY <1>1, <1>2 DEF EmailsKnown, CurrentLearnersLinked, Allocated, Current
<1>4. ASSUME ~RetireQuiet, UNCHANGED refresh
      PROVE  Turns'
  BY <1>1, <1>2, <1>4 DEF Turns
<1>5. ASSUME NEW w \in Scrubbers, ScrubSave(w) \/ ScrubHistory(w) \/ ScrubSource(w)
      PROVE  LinkedInv'
  <2>1. PICK k \in Pks : UNCHANGED rows \/ \E r \in Gone : rows' = [rows EXCEPT ![k] = r]
    BY <1>2, <1>5, ScrubWrites
  <2>2. Turns'
    BY <1>4, <1>5 DEF RetireQuiet, ScrubSave, ScrubHistory, ScrubSource
  <2>3. ASSUME NEW r \in Gone, rows' = [rows EXCEPT ![k] = r], NEW j \in Pks, Allocated(j)'
        PROVE  Allocated(j) /\ rows'[j] = rows[j]
    <3>1. j # k
      BY <1>1, <2>3 DEF Allocated, Gone
    <3> QED
      BY <1>1, <2>3, <3>1 DEF Allocated
  <2>4. \/ UNCHANGED rows
        \/ \A j \in Pks : Allocated(j)' => Allocated(j) /\ rows'[j] = rows[j]
    BY <2>1, <2>3
  <2>5. EmailsKnown' /\ CurrentLearnersLinked'
    BY <1>1, <1>2, <1>3, <2>4 DEF EmailsKnown, CurrentLearnersLinked, Current
  <2> QED
    BY <2>2, <2>5 DEF LinkedInv
<1>6. CASE RetireBatch \/ RetireNextStage \/ RetireDone \/ \E w \in Scrubbers : ScrubDone(w) \/ ScrubCrash(w)
  <2>1. UNCHANGED rows /\ UNCHANGED refresh /\ ~RetireQuiet
    BY <1>6 DEF RetireBatch, RetireNextStage, RetireDone, ScrubDone, ScrubCrash, RetireQuiet, tableVars
  <2> QED
    BY <1>3, <1>4, <2>1 DEF LinkedInv
<1>7. ASSUME NEW u \in Learners, RefreshWrite(u)
      PROVE  LinkedInv'
  <2>1. refresh[u] # {} /\ refresh' = [refresh EXCEPT ![u] = {}]
    BY <1>7 DEF RefreshWrite
  <2>2. unlink.pc = "idle" /\ \A v \in Learners : v # u => refresh[v] = {}
    BY <1>2, <2>1 DEF Turns
  <2>3. \A v \in Learners : refresh'[v] = {}
    BY <1>1, <2>1, <2>2
  <2>4. Turns'
    BY <1>1, <2>2, <2>3 DEF Turns
  <2>5. u # None
    BY NightlyAssumption
  <2>6. ASSUME NEW k \in Pks, Allocated(k)'
        PROVE  /\ Allocated(k) /\ rows'[k].user_email = rows[k].user_email
               /\ rows'[k].lms_user_id = rows[k].lms_user_id
    <3>1. \/ /\ k \in refresh[u] /\ rows'[k].user_email = u /\ rows'[k].status = rows[k].status
             /\ rows'[k].lms_user_id = rows[k].lms_user_id
          \/ rows'[k] = rows[k]
      BY <1>2, <1>7, RefreshRows
    <3>2. CASE rows'[k] = rows[k]
      BY <2>6, <3>2 DEF Allocated
    <3>3. CASE /\ k \in refresh[u] /\ rows'[k].user_email = u /\ rows'[k].status = rows[k].status
               /\ rows'[k].lms_user_id = rows[k].lms_user_id
      <4>1. Allocated(k) /\ rows[k].lms_user_id = u
        BY <1>2, <2>6, <3>3 DEF Allocated, Turns
      <4>2. rows[k].user_email = u
        BY <1>2, <2>5, <4>1 DEF EmailsKnown
      <4> QED
        BY <3>3, <4>1, <4>2
    <3> QED
      BY <3>1, <3>2, <3>3
  <2>7. EmailsKnown' /\ CurrentLearnersLinked'
    BY <1>1, <1>2, <2>6 DEF EmailsKnown, CurrentLearnersLinked, Current
  <2> QED
    BY <2>4, <2>7 DEF LinkedInv
<1>8. CASE Free /\ (RetireStart \/ \E u \in Learners : RetireUser(u) \/ RefreshRead(u))
  <2>1. Quiet
    BY <1>8 DEF Free
  <2>2. UNCHANGED rows
    BY <1>8 DEF RetireStart, RetireUser, RefreshRead, tableVars
  <2>3. CASE RetireStart \/ \E u \in Learners : RetireUser(u)
    <3>1. UNCHANGED refresh
      BY <2>3 DEF RetireStart, RetireUser
    <3>2. Turns'
      BY <1>1, <2>1, <3>1 DEF Turns, Quiet
    <3> QED
      BY <1>3, <2>2, <3>2 DEF LinkedInv
  <2>4. ASSUME NEW u \in Learners, RefreshRead(u)
        PROVE  LinkedInv'
    <3>1. /\ refresh' = [refresh EXCEPT ![u] = {k \in Pks : rows[k].lms_user_id = u}]
          /\ UNCHANGED <<retire, scrub>>
      BY <2>4 DEF RefreshRead
    <3>2. /\ refresh'[u] = {k \in Pks : rows[k].lms_user_id = u}
          /\ \A v \in Learners : v # u => refresh'[v] = {}
      BY <1>1, <2>1, <3>1 DEF Quiet
    <3>3. RetireQuiet'
      BY <2>1, <3>1 DEF Quiet, RetireQuiet
    <3>4. Turns'
      BY <1>1, <2>1, <2>2, <3>2, <3>3 DEF Turns, Quiet
    <3> QED
      BY <1>3, <2>2, <3>4 DEF LinkedInv
  <2> QED
    BY <1>8, <2>3, <2>4
<1> QED
  BY <1>5, <1>6, <1>7, <1>8 DEF RetireMoves, ScrubStep

LEMMA LinkedStep ==
    ASSUME Overlap = FALSE, Typed, LinkedInv, [NightlyNext]_nightlyVars
    PROVE  LinkedInv'
<1>1. EmailsKnown /\ CurrentLearnersLinked /\ Turns
  BY DEF LinkedInv
<1>2. ASSUME UNCHANGED <<day, rows, history, source, linked>>, UNCHANGED <<events, unlink>>,
             UNCHANGED <<retire, scrub, deleted, refresh>>
      PROVE  LinkedInv'
  BY <1>1, <1>2 DEF LinkedInv, EmailsKnown, CurrentLearnersLinked, Turns, PageSpares, RetireQuiet, Allocated, Current
<1>3. CASE DayPasses
  <2>1. /\ UNCHANGED <<rows, history, source, linked>> /\ UNCHANGED <<events, unlink>>
        /\ UNCHANGED <<retire, scrub, deleted, refresh>> /\ Quiet
    BY <1>3, OthersLeave
  <2>2. \A p \in Plans : Current(p)' => Current(p)
    <3>1. /\ day \in Nat /\ \A p \in Plans : Expires[p] \in Nat
      BY Calendar DEF Typed
    <3>2. day' \in Nat /\ day <= day'
      BY <1>3, <3>1 DEF DayPasses, NextDay
    <3> QED
      BY <3>1, <3>2 DEF Current
  <2>3. \A k \in Pks : PlanOf[k] \in Plans
    BY NightlyAssumption
  <2>4. EmailsKnown' /\ CurrentLearnersLinked'
    BY <1>1, <2>1, <2>2, <2>3 DEF EmailsKnown, CurrentLearnersLinked, Allocated
  <2>5. Turns'
    BY <2>1 DEF Turns, Quiet
  <2> QED
    BY <2>4, <2>5 DEF LinkedInv
<1>4. CASE ExpireMoves
  BY <1>2, <1>4, ExpireLeaves
<1>5. CASE UNCHANGED nightlyVars
  BY <1>2, <1>5, OthersLeave
<1> QED
  BY <1>3, <1>4, <1>5, StepKinds, TableKeepsLinks, UnlinkKeepsLinks, RetireKeepsLinks

(***************************************************************************)
(* While no request comes between the steps of a command, the page of      *)
(* learners to unlink has none with a license in a current plan, although  *)
(* the page is read long after the query, and e-mails are refreshed.       *)
(***************************************************************************)
THEOREM LearnersStayLinked ==
    ASSUME Overlap = FALSE
    PROVE  NightlySpec => []CurrentLearnersLinked
<1>1. NightlyInit => Typed /\ LinkedInv
  BY TypedStart, LinkedStart
<1>2. Typed /\ LinkedInv /\ [NightlyNext]_nightlyVars => Typed' /\ LinkedInv'
  BY TypedStep, LinkedStep
<1>3. Typed /\ LinkedInv => CurrentLearnersLinked
  BY DEF LinkedInv
<1> QED
  BY <1>1, <1>2, <1>3, PTL DEF NightlySpec

-----------------------------------------------------------------------------
(***************************************************************************)
(* What a run of unlink_expired_licenses began with, until it ends.        *)
(***************************************************************************)
Handled(k) ==
    \/ HasCurrentLicense(rows[k])
    \/ k \in events /\ (rows[k].user_email \notin linked \/ UnlinkFails)

RunInv ==
    unlink.pc # "idle" =>
       /\ \A k \in DOMAIN unlink.found : unlink.found[k] = rows[k]
       /\ \A k \in unlink.due : \/ Handled(k) \/ k \in DOMAIN unlink.found
                              \/ <<k, rows[k].user_email>> \in unlink.page
       /\ unlink.pc = "record" => UnlinkFails \/ \A pair \in unlink.page : pair[2] \notin linked
       /\ unlink.pc = "pages" => unlink.page = {}

\* Nothing else moves while the command runs.
LEMMA RunAlone ==
    ASSUME Overlap = FALSE, LinkedInv, unlink.pc # "idle", [NightlyNext]_nightlyVars, ~UnlinkMoves
    PROVE  UNCHANGED <<day, rows, events, unlink, linked>>
<1>1. ~Free /\ ~Quiet
  BY DEF Free, Quiet
<1>2. RetireQuiet /\ \A u \in Learners : refresh[u] = {}
  BY DEF LinkedInv, Turns
<1>3. ~RetireMoves
  BY <1>1, <1>2 DEF RetireMoves, ScrubStep, ScrubSave, ScrubHistory, ScrubSource, RetireBatch, RetireNextStage,
     RetireDone, ScrubDone, ScrubCrash, RefreshWrite, RetireQuiet
<1>4. ~TableMoves /\ ~DayPasses
  BY <1>1 DEF TableMoves, DayPasses
<1> QED
  BY <1>3, <1>4, StepKinds, ExpireLeaves, OthersLeave

LEMMA RunStep ==
    ASSUME Overlap = FALSE, Typed, LinkedInv, RunInv, [NightlyNext]_nightlyVars
    PROVE  /\ RunInv'
           /\ unlink.pc = "pages" /\ unlink'.pc = "idle" => \A k \in unlink.due : Handled(k)
<1>1. unlink \in UnlinkState
  BY DEF Typed, UnlinkTyped
<1>2. CASE ~UnlinkMoves
  <2>1. CASE unlink.pc # "idle"
    <3>1. UNCHANGED <<day, rows, events, unlink, linked>>
      BY <1>2, <2>1, RunAlone
    <3> QED
      BY <2>1, <3>1 DEF RunInv, Handled, HasCurrentLicense, Current
  <2>2. CASE unlink.pc = "idle"
    <3>1. unlink' = unlink
      BY <1>2, StepKinds, ExpireLeaves, RetireLeaves, OthersLeave
    <3> QED
      BY <2>2, <3>1 DEF RunInv
  <2> QED
    BY <2>1, <2>2
<1>3. ASSUME UnlinkStep
      PROVE  UNCHANGED <<day, rows>> /\ \A k : HasCurrentLicense(rows[k])' <=> HasCurrentLicense(rows[k])
  <2>1. UNCHANGED <<day, rows>>
    BY <1>3 DEF UnlinkStep, UnlinkPage, UnlinkCall, UnlinkRecord, UnlinkDone, tableVars
  <2> QED
    BY <2>1 DEF HasCurrentLicense, Current
<1>4. CASE UnlinkStart
  <2>1. unlink' = [pc |-> "pages", found |-> [k \in ExpiredLicenses |-> rows[k]], page |-> {},
                   due |-> ExpiredLicenses]
        /\ unlink.pc = "idle" /\ rows' = rows
    BY <1>4 DEF UnlinkStart, tableVars
  <2> QED
    BY <2>1 DEF RunInv
<1>5. CASE UnlinkPage
  <2>1. unlink.pc = "pages" /\ UNCHANGED <<rows, events, linked>>
    BY <1>5 DEF UnlinkPage, tableVars
  <2>2. PICK P \in SUBSET DOMAIN unlink.found :
          unlink' = [pc |-> "call",
                     found |-> [k \in DOMAIN unlink.found \ P |-> unlink.found[k]],
                     page |-> {<<k, unlink.found[k].user_email>> :
                                 k \in {j \in P : ~OtherActiveLicenses(unlink.found[j])}},
                     due |-> unlink.due]
    BY <1>5 DEF UnlinkPage
  <2>3. /\ unlink'.pc = "call" /\ unlink'.due = unlink.due
        /\ DOMAIN unlink'.found = DOMAIN unlink.found \ P
        /\ \A k \in DOMAIN unlink'.found : unlink'.found[k] = unlink.found[k]
        /\ \A k \in P : ~OtherActiveLicenses(unlink.found[k]) =>
                         <<k, unlink.found[k].user_email>> \in unlink'.page
    BY <2>2
  <2>4. /\ \A k \in DOMAIN unlink.found : unlink.found[k] = rows[k]
        /\ \A k \in unlink.due : Handled(k) \/ k \in DOMAIN unlink.found
    BY <2>1 DEF RunInv
  <2>5. \A k \in unlink.due : Handled(k) => Handled(k)'
    BY <1>3, <1>5, <2>1 DEF UnlinkStep, Handled
  <2>6. \A k \in P : OtherActiveLicenses(unlink.found[k]) => Handled(k)
    BY <2>4 DEF OtherActiveLicenses, HasCurrentLicense, Handled
  <2>7. \A k \in unlink'.due : \/ Handled(k)' \/ k \in DOMAIN unlink'.found
                              \/ <<k, rows'[k].user_email>> \in unlink'.page
    <3> SUFFICES ASSUME NEW k \in unlink.due
                 PROVE  \/ Handled(k)' \/ k \in DOMAIN unlink'.found
                        \/ <<k, rows[k].user_email>> \in unlink'.page
      BY <2>1, <2>3
    <3> QED
      BY <2>3, <2>4, <2>5, <2>6
  <2> QED
    BY <2>1, <2>3, <2>4, <2>7 DEF RunInv
<1>6. CASE UnlinkCall
  <2>1. unlink.pc = "call" /\ UNCHANGED <<rows, events>> /\ linked' \subseteq linked
    BY <1>6 DEF UnlinkCall
  <2>2. \A r \in UnlinkState : LET q == [r EXCEPT !.pc = "record"] IN
           q.pc = "record" /\ q.found = r.found /\ q.page = r.page /\ q.due = r.due
    BY DEF UnlinkState
  <2>3. CASE unlink' = UnlinkIdle
    BY <2>1, <2>3 DEF UnlinkIdle, RunInv
  <2>4. CASE unlink' = [unlink EXCEPT !.pc = "record"]
    <3>1. unlink'.pc = "record" /\ unlink'.found = unlink.found /\ unlink'.page = unlink.page
          /\ unlink'.due = unlink.due
      BY <1>1, <2>2, <2>4
    <3>2. UnlinkFails \/ \A pair \in unlink'.page : pair[2] \notin linked'
      BY <1>6, <3>1 DEF UnlinkCall
    <3>3. \A k : Handled(k) => Handled(k)'
      BY <1>3, <1>6, <2>1 DEF UnlinkStep, Handled
    <3> QED
      BY <2>1, <3>1, <3>2, <3>3 DEF RunInv
  <2> QED
    BY <1>6, <2>3, <2>4 DEF UnlinkCall
<1>7. CASE UnlinkRecord
  <2>1. /\ unlink.pc = "record" /\ UNCHANGED <<rows, linked>>
        /\ events' = events \union {pair[1] : pair \in unlink.page}
        /\ unlink' = [unlink EXCEPT !.pc = "pages", !.page = {}]
    BY <1>7 DEF UnlinkRecord, tableVars
  <2>2. \A r \in UnlinkState : LET q == [r EXCEPT !.pc = "pages", !.page = {}] IN
           q.pc = "pages" /\ q.found = r.found /\ q.page = {} /\ q.due = r.due
    BY DEF UnlinkState
  <2>3. unlink'.pc = "pages" /\ unlink'.found = unlink.found /\ unlink'.page = {} /\ unlink'.due = unlink.due
    BY <1>1, <2>1, <2>2
  <2>4. \A k : Handled(k) => Handled(k)'
    BY <1>3, <1>7, <2>1 DEF UnlinkStep, Handled
  <2>5. ASSUME NEW k, <<k, rows[k].user_email>> \in unlink.page
        PROVE  Handled(k)'
    <3>1. k \in events'
      BY <2>1, <2>5
    <3>2. UnlinkFails \/ rows[k].user_email \notin linked
      BY <2>1, <2>5 DEF RunInv
    <3> QED
      BY <2>1, <3>1, <3>2 DEF Handled
  <2> QED
    BY <2>1, <2>3, <2>4, <2>5 DEF RunInv
<1>8. CASE UnlinkDone
  <2>1. unlink.pc = "pages" /\ DOMAIN unlink.found = {} /\ unlink'.pc = "idle"
    BY <1>8 DEF UnlinkDone, UnlinkIdle
  <2> QED
    BY <2>1 DEF RunInv
<1> QED
  BY <1>2, <1>4, <1>5, <1>6, <1>7, <1>8 DEF UnlinkMoves, UnlinkStep

(***************************************************************************)
(* For pages and queries of any size: while no request comes between the   *)
(* steps of a command, a run of unlink_expired_licenses has forgotten      *)
(* nobody when it ends, although what it records changes its query.        *)
(***************************************************************************)
THEOREM NobodyIsForgotten ==
    ASSUME Overlap = FALSE
    PROVE  NightlySpec => RunForgetsNobody
<1> DEFINE Ends == unlink.pc = "pages" /\ unlink'.pc = "idle" =>
                      \A k \in unlink.due :
                         \/ HasCurrentLicense(rows[k])
                         \/ k \in events /\ (rows[k].user_email \notin linked \/ UnlinkFails)
           Inv == Typed /\ LinkedInv /\ RunInv
<1>1. NightlyInit => Inv
  BY TypedStart, LinkedStart DEF NightlyInit, UnlinkInit, UnlinkIdle, RunInv
<1>2. Inv /\ [NightlyNext]_nightlyVars => Inv'
  BY TypedStep, LinkedStep, RunStep
<1>3. Inv /\ [NightlyNext]_nightlyVars => [Ends]_nightlyVars
  BY RunStep DEF Handled
<1> QED
  BY <1>1, <1>2, <1>3, PTL DEF NightlySpec, RunForgetsNobody
=============================================================================
