--------------------------- MODULE RenewalProofs ---------------------------
(***************************************************************************)
(* While nothing overlaps a processor, a renewal is renewed into one plan, *)
(* gives no learner two licenses, leaves at most one plan that             *)
(* auto-applies, and can be processed again without undue change; the      *)
(* renewed plan has the size that was agreed; and it carries over exactly  *)
(* the right learners, but for those whose license changes meanwhile.      *)
(* Nothing is assumed of the prior plan: its licenses may change at any    *)
(* time.                                                                   *)
(***************************************************************************)
EXTENDS Renewal, FiniteSetTheorems, TLAPS

\* The initial states satisfy the invariant.
LEMMA RenewalInitInv == RenewalInit => RenewalInv
<1> SUFFICES ASSUME RenewalInit PROVE RenewalInv
  OBVIOUS
<1> USE RenewalAssumption
<1>1. PICK L \in SUBSET Slots :
        /\ renewal.renewed_subscription_plan = None => L = {}
        /\ future = [s \in Slots |-> IF s \in L
                       THEN FreeSlot(renewal.renewed_subscription_plan) ELSE AbsentSlot]
  BY DEF RenewalInit
<1>2. renewal \in RenewalRow /\ ~renewal.processed
  BY DEF RenewalInit
<1>3. renewal.renewed_subscription_plan \in Plans \union {None}
  BY <1>2 DEF RenewalRow
<1>4. \A s \in Slots : \/ s \in L /\ future[s] = FreeSlot(renewal.renewed_subscription_plan)
                                  /\ renewal.renewed_subscription_plan # None
                       \/ s \notin L /\ future[s] = AbsentSlot
  BY <1>1
<1>5. future \in [Slots -> FutureRow]
  BY <1>1, <1>3 DEF FreeSlot, AbsentSlot, FutureRow
<1>6. RenewalTypeOK
  BY <1>2, <1>5 DEF RenewalInit, RenewalTypeOK, NoCopies
<1>7. RowsSound
  BY <1>2, <1>4 DEF RowsSound, FreeSlot, AbsentSlot
<1>8. OneAtWork /\ ReadsCurrent
  BY DEF RenewalInit, OneAtWork, ReadsCurrent
<1>9. RenewedOnce /\ NoLearnerTwice
  BY <1>4 DEF RenewedOnce, NoLearnerTwice, Holds, FreeSlot, AbsentSlot
<1>10. LinksFaithful /\ AtMostOneAutoApplies
  BY DEF RenewalInit, LinksFaithful, AtMostOneAutoApplies
<1> QED
  BY <1>6, <1>7, <1>8, <1>9, <1>10 DEF RenewalInv

-----------------------------------------------------------------------------
\* While a processor works nobody else does, and it is not idle.
LEMMA AloneAtWork ==
    ASSUME RenewalInv, NEW r \in Processors, step[r] # "idle"
    PROVE  \A q \in Processors : q # r => step[q] = "idle"
BY DEF RenewalInv, OneAtWork

\* A processor that ends and changes nothing else keeps the invariant.
LEMMA FinishedInv ==
    ASSUME RenewalInv, NEW r \in Processors, step[r] # "idle", Finished(r),
           UNCHANGED <<original, renewed_to, future, auto, renewal>>
    PROVE  RenewalInv'
<1>1. \A q \in Processors : step'[q] = "idle"
  BY AloneAtWork DEF Finished, RenewalInv, RenewalTypeOK
<1>2. RenewalTypeOK'
  BY RenewalAssumption DEF RenewalInv, RenewalTypeOK, Finished, NoCopies
<1>3. OneAtWork' /\ ReadsCurrent'
  BY <1>1 DEF OneAtWork, ReadsCurrent
<1>4. RowsSound' /\ RenewedOnce' /\ NoLearnerTwice' /\ LinksFaithful' /\ AtMostOneAutoApplies'
  BY DEF RenewalInv, RowsSound, RenewedOnce, NoLearnerTwice, LinksFaithful,
         AtMostOneAutoApplies, Holds
<1> QED
  BY <1>2, <1>3, <1>4 DEF RenewalInv

LEMMA StartInv ==
    ASSUME RenewalInv, ~Overlap, NEW r \in Processors, RenewalStart(r)
    PROVE  RenewalInv'
<1>1. \A q \in Processors : q # r => step'[q] = "idle"
  BY DEF RenewalStart, Resting, RenewalInv, RenewalTypeOK
<1>2. /\ step'[r] = "originals"
      /\ plan_read'[r] = renewal.renewed_subscription_plan
      /\ auto_read'[r] = auto
  BY DEF RenewalStart, RenewalInv, RenewalTypeOK
<1>3. RenewalTypeOK'
  <2>1. renewal.renewed_subscription_plan \in Plans \union {None}
    BY DEF RenewalInv, RenewalTypeOK, RenewalRow
  <2> QED
    BY <2>1 DEF RenewalInv, RenewalTypeOK, RenewalStart
<1>4. OneAtWork'
  BY <1>1 DEF OneAtWork
<1>5. ReadsCurrent'
  BY <1>1, <1>2 DEF ReadsCurrent, RenewalStart
<1>6. RowsSound' /\ RenewedOnce' /\ NoLearnerTwice' /\ LinksFaithful' /\ AtMostOneAutoApplies'
  BY DEF RenewalInv, RowsSound, RenewedOnce, NoLearnerTwice, LinksFaithful,
         AtMostOneAutoApplies, Holds, RenewalStart
<1> QED
  BY <1>3, <1>4, <1>5, <1>6 DEF RenewalInv

LEMMA ReadOriginalsInv ==
    ASSUME RenewalInv, NEW r \in Processors, ReadOriginals(r)
    PROVE  RenewalInv'
<1>1. CASE renewal.number_of_licenses < Cardinality(OriginalLicensesToCopy)
  BY <1>1, FinishedInv DEF ReadOriginals
<1>2. CASE ~(renewal.number_of_licenses < Cardinality(OriginalLicensesToCopy))
  <2>1. /\ copies' = [copies EXCEPT ![r] =
                        [l \in Learners |-> IF l \in OriginalLicensesToCopy THEN original[l] ELSE "none"]]
        /\ step' = [step EXCEPT ![r] = "future"]
        /\ UNCHANGED <<plan_read, auto_read, changed, original, renewed_to, future, auto, renewal>>
        /\ step[r] = "originals"
    BY <1>2 DEF ReadOriginals
  <2>2. \A l \in OriginalLicensesToCopy : original[l] \in {"assigned", "activated"}
    BY DEF OriginalLicensesToCopy, RenewalInv, RenewalTypeOK, RenewalRow, LicenseTypesToRenew
  <2>3. [l \in Learners |-> IF l \in OriginalLicensesToCopy THEN original[l] ELSE "none"]
           \in [Learners -> {"none", "assigned", "activated"}]
    BY <2>2
  <2>4. RenewalTypeOK'
    BY <2>1, <2>3 DEF RenewalInv, RenewalTypeOK
  <2>5. OneAtWork' /\ ReadsCurrent'
    BY <2>1 DEF RenewalInv, RenewalTypeOK, OneAtWork, ReadsCurrent, LicensesOf
  <2>6. RowsSound' /\ RenewedOnce' /\ NoLearnerTwice' /\ LinksFaithful' /\ AtMostOneAutoApplies'
    BY <2>1 DEF RenewalInv, RowsSound, RenewedOnce, NoLearnerTwice, LinksFaithful,
           AtMostOneAutoApplies, Holds
  <2> QED
    BY <2>4, <2>5, <2>6 DEF RenewalInv
<1> QED
  BY <1>1, <1>2

LEMMA ReadFutureInv ==
    ASSUME RenewalInv, NEW r \in Processors, ReadFuture(r)
    PROVE  RenewalInv'
<1> DEFINE existing == IF plan_read[r] = None THEN {} ELSE LicensesOf(plan_read[r])
           bad == \/ \E s \in existing : future[s].status # "unassigned"
                  \/ Cardinality(existing) > renewal.number_of_licenses
<1>1. CASE bad
  BY <1>1, FinishedInv DEF ReadFuture
<1>2. CASE ~bad
  <2>1. /\ step' = [step EXCEPT ![r] = "commit"]
        /\ UNCHANGED <<original, renewed_to, future, auto, renewal, readVars>>
        /\ step[r] = "future"
    BY <1>2 DEF ReadFuture
  <2>2. plan_read[r] # None =>
           /\ \A s \in LicensesOf(plan_read[r]) : future[s].status = "unassigned"
           /\ ~(Cardinality(LicensesOf(plan_read[r])) > renewal.number_of_licenses)
    BY <1>2
  <2>3. plan_read[r] # None =>
           Cardinality(LicensesOf(plan_read[r])) <= renewal.number_of_licenses
    <3>1. renewal.number_of_licenses \in Nat
      BY RenewalAssumption DEF RenewalInv, RenewalTypeOK, RenewalRow
    <3>2. Cardinality(LicensesOf(plan_read[r])) \in Nat
      BY RenewalAssumption, FS_Subset, FS_CardinalityType DEF LicensesOf
    <3> QED
      BY <2>2, <3>1, <3>2
  <2>4. RenewalTypeOK'
    BY <2>1 DEF RenewalInv, RenewalTypeOK, readVars
  <2>5. OneAtWork'
    BY <2>1 DEF RenewalInv, RenewalTypeOK, OneAtWork
  <2>6. \A q \in Processors : q # r => step'[q] = "idle"
    BY <2>1, AloneAtWork DEF RenewalInv, RenewalTypeOK
  <2>7. ReadsCurrent'
    BY <2>1, <2>2, <2>3, <2>6 DEF RenewalInv, ReadsCurrent, LicensesOf, readVars
  <2>8. RowsSound' /\ RenewedOnce' /\ NoLearnerTwice' /\ LinksFaithful' /\ AtMostOneAutoApplies'
    BY <2>1 DEF RenewalInv, RowsSound, RenewedOnce, NoLearnerTwice, LinksFaithful,
           AtMostOneAutoApplies, Holds
  <2> QED
    BY <2>4, <2>5, <2>7, <2>8 DEF RenewalInv
<1> QED
  BY <1>1, <1>2

-----------------------------------------------------------------------------
\* What the transaction finds: the renewed plan is the only one and has
\* unassigned licenses only, and nobody is linked yet.
LEMMA CommitFinds ==
    ASSUME RenewalInv, NEW r \in Processors, step[r] = "commit", NEW p \in RenewInto(r)
    PROVE  /\ p \in Plans
           /\ renewal.renewed_subscription_plan \in {None, p}
           /\ \A s \in Slots : future[s].plan \in {None, p}
           /\ \A s \in Slots : ~Holds(s)
           /\ \A l \in Learners : renewed_to[l] = None
<1> USE RenewalAssumption
<1>1. plan_read[r] = renewal.renewed_subscription_plan
  BY DEF RenewalInv, ReadsCurrent
<1>2. p \in Plans /\ (plan_read[r] # None => p = plan_read[r])
  BY DEF RenewInto, RenewalInv, RenewalTypeOK
<1>3. renewal.renewed_subscription_plan \in {None, p}
  BY <1>1, <1>2
<1>4. \A s \in Slots : future[s].plan \in {None, p}
  BY <1>3 DEF RenewalInv, RenewedOnce
<1>5. \A s \in Slots : future[s].status \in {"absent", "unassigned"}
  <2>1. \A s \in Slots : future[s].plan = None => future[s].status = "absent"
    BY DEF RenewalInv, RowsSound, AbsentSlot
  <2>2. CASE plan_read[r] = None
    BY <1>1, <2>1, <2>2 DEF RenewalInv, RenewedOnce
  <2>3. CASE plan_read[r] # None
    BY <1>1, <1>2, <1>4, <2>1, <2>3 DEF RenewalInv, ReadsCurrent, LicensesOf
  <2> QED
    BY <2>2, <2>3
<1>6. \A s \in Slots : ~Holds(s)
  BY <1>5 DEF Holds
<1>7. \A l \in Learners : renewed_to[l] = None
  <2> SUFFICES ASSUME NEW l \in Learners, renewed_to[l] # None PROVE FALSE
    OBVIOUS
  <2>1. renewed_to[l] \in Slots
    BY DEF RenewalInv, RenewalTypeOK
  <2>2. future[renewed_to[l]].learner = l
    BY DEF RenewalInv, LinksFaithful
  <2>3. future[renewed_to[l]].learner = None
    BY <2>1, <1>5 DEF RenewalInv, RowsSound
  <2> QED
    BY <2>2, <2>3
<1> QED
  BY <1>2, <1>3, <1>4, <1>6, <1>7

LEMMA CommitInv ==
    ASSUME RenewalInv, NEW r \in Processors, RenewalCommit(r)
    PROVE  RenewalInv'
<1> USE RenewalAssumption
<1>1. step[r] = "commit" /\ Finished(r) /\ original' = original
  BY DEF RenewalCommit
<1>2. PICK p \in RenewInto(r) : \E new \in Added(p) :
        \E pair \in Pairings(Copied(r), LicensesOf(p) \union new) :
           /\ future' = RenewedRows(r, p, new, pair)
           /\ renewed_to' = RenewedLinks(r, pair)
           /\ auto' = AutoAfter(r, p)
           /\ renewal' = [renewal EXCEPT !.renewed_subscription_plan = p, !.processed = TRUE]
  BY Zenon DEF RenewalCommit
<1>3. PICK new \in Added(p) : \E pair \in Pairings(Copied(r), LicensesOf(p) \union new) :
           /\ future' = RenewedRows(r, p, new, pair)
           /\ renewed_to' = RenewedLinks(r, pair)
           /\ auto' = AutoAfter(r, p)
           /\ renewal' = [renewal EXCEPT !.renewed_subscription_plan = p, !.processed = TRUE]
  BY <1>2, Zenon
<1>4. PICK pair \in Pairings(Copied(r), LicensesOf(p) \union new) :
           /\ future' = RenewedRows(r, p, new, pair)
           /\ renewed_to' = RenewedLinks(r, pair)
           /\ auto' = AutoAfter(r, p)
           /\ renewal' = [renewal EXCEPT !.renewed_subscription_plan = p, !.processed = TRUE]
  BY <1>3, Zenon
<1>5. new \in SUBSET Slots
  BY DEF Added, LicensesOf
<1>6. pair \in [Copied(r) -> Slots] /\ \A l, m \in Copied(r) : pair[l] = pair[m] => l = m
  BY <1>5 DEF Pairings, LicensesOf
<1>7. /\ p \in Plans /\ p # None
      /\ renewal.renewed_subscription_plan \in {None, p}
      /\ \A s \in Slots : future[s].plan \in {None, p}
      /\ \A s \in Slots : ~Holds(s)
      /\ \A l \in Learners : renewed_to[l] = None
  BY <1>1, CommitFinds
<1>8. /\ \A l \in Copied(r) :
           future'[pair[l]] = [plan |-> p, status |-> copies[r][l], learner |-> l]
      /\ \A s \in Slots : \/ \E l \in Copied(r) : pair[l] = s
                          \/ future'[s] = FreeSlot(p)
                          \/ future'[s] = future[s]
  <2>1. future' = RenewedRows(r, p, new, pair)
    BY <1>4
  <2>2. ASSUME NEW l \in Copied(r)
        PROVE  future'[pair[l]] = [plan |-> p, status |-> copies[r][l], learner |-> l]
    <3>1. pair[l] \in Slots /\ \E k \in Copied(r) : pair[k] = pair[l]
      BY <1>6
    <3>2. (CHOOSE k \in Copied(r) : pair[k] = pair[l]) = l
      BY <1>6
    <3> QED
      BY <2>1, <3>1, <3>2 DEF RenewedRows
  <2>3. ASSUME NEW s \in Slots, \A l \in Copied(r) : pair[l] # s
        PROVE  future'[s] = FreeSlot(p) \/ future'[s] = future[s]
    BY <2>1, <2>3 DEF RenewedRows
  <2> QED
    BY <2>2, <2>3
<1>9. \A l \in Copied(r) : l \in Learners /\ copies[r][l] \in {"assigned", "activated"}
  BY DEF Copied, RenewalInv, RenewalTypeOK
<1>10. ASSUME NEW s \in Slots
       PROVE  \/ \E l \in Copied(r) : /\ pair[l] = s
                                      /\ future'[s].plan = p /\ future'[s].learner = l
                                      /\ future'[s].status \in {"assigned", "activated"}
                                      /\ future'[s] \in FutureRow
              \/ /\ future'[s] = FreeSlot(p) /\ future'[s].plan = p
                 /\ future'[s].status = "unassigned" /\ future'[s].learner = None
                 /\ future'[s] \in FutureRow
              \/ future'[s] = future[s]
  <2>1. CASE \E l \in Copied(r) : pair[l] = s
    <3>1. PICK l \in Copied(r) : pair[l] = s
      BY <2>1
    <3>2. future'[s] = [plan |-> p, status |-> copies[r][l], learner |-> l]
      BY <1>8, <3>1
    <3>3. l \in Learners /\ copies[r][l] \in {"assigned", "activated"}
      BY <1>9
    <3>4. /\ future'[s].plan = p /\ future'[s].learner = l
          /\ future'[s].status \in {"assigned", "activated"}
          /\ future'[s] \in FutureRow
      BY <1>7, <3>2, <3>3 DEF FutureRow
    <3> QED
      BY <3>1, <3>4
  <2>2. CASE future'[s] = FreeSlot(p)
    BY <1>7, <2>2 DEF FreeSlot, FutureRow
  <2>3. CASE future'[s] = future[s]
    BY <2>3
  <2> QED
    BY <1>8, <2>1, <2>2, <2>3
<1>11. future' \in [Slots -> FutureRow]
  <2>1. future' = [s \in Slots |-> future'[s]]
    BY <1>4 DEF RenewedRows
  <2>2. \A s \in Slots : future[s] \in FutureRow
    BY DEF RenewalInv, RenewalTypeOK
  <2> QED
    BY <1>10, <2>1, <2>2
<1>12. /\ renewal'.renewed_subscription_plan = p /\ renewal'.processed
       /\ renewal' \in RenewalRow
  BY <1>4, <1>7 DEF RenewalInv, RenewalTypeOK, RenewalRow
<1>13. \A q \in Processors : step'[q] = "idle"
  BY <1>1, AloneAtWork DEF Finished, RenewalInv, RenewalTypeOK
<1>14. auto' \in {auto, {}, {p}}
  <2>1. auto_read[r] = auto
    BY <1>1 DEF RenewalInv, ReadsCurrent
  <2> QED
    BY <1>4, <2>1 DEF AutoAfter
<1>15. RenewalTypeOK'
  <2>1. renewed_to' \in [Learners -> Slots \union {None}]
    BY <1>4, <1>6, <1>7 DEF RenewedLinks
  <2>2. auto' \in SUBSET ({Prior} \union Plans)
    BY <1>7, <1>14 DEF RenewalInv, RenewalTypeOK
  <2>3. /\ step' \in [Processors -> {"idle", "originals", "future", "commit"}]
        /\ plan_read' \in [Processors -> Plans \union {None}]
        /\ auto_read' \in [Processors -> SUBSET ({Prior} \union Plans)]
        /\ copies' \in [Processors -> [Learners -> {"none", "assigned", "activated"}]]
        /\ changed' \in [Processors -> SUBSET Learners]
    BY <1>1 DEF RenewalInv, RenewalTypeOK, Finished, NoCopies
  <2> QED
    BY <1>1, <1>11, <1>12, <2>1, <2>2, <2>3 DEF RenewalInv, RenewalTypeOK
<1>16. RowsSound'
  <2>1. \A s \in Slots : /\ future[s].plan = None <=> future[s] = AbsentSlot
                         /\ future[s].status \in {"absent", "unassigned"}
                               => future[s].learner = None
    BY DEF RenewalInv, RowsSound
  <2>2. ASSUME NEW s \in Slots PROVE future'[s].plan = None <=> future'[s] = AbsentSlot
    BY <1>7, <1>10, <2>1 DEF AbsentSlot
  <2>3. ASSUME NEW s \in Slots
        PROVE  future'[s].status \in {"absent", "unassigned"} => future'[s].learner = None
    BY <1>10, <2>1
  <2> QED
    BY <1>7, <1>12, <2>2, <2>3 DEF RowsSound, AbsentSlot
<1>17. OneAtWork' /\ ReadsCurrent'
  BY <1>13 DEF OneAtWork, ReadsCurrent
<1>18. RenewedOnce'
  BY <1>7, <1>10, <1>12 DEF RenewedOnce
<1>19. NoLearnerTwice'
  <2>1. ASSUME NEW s \in Slots, Holds(s)'
        PROVE  \E l \in Copied(r) : pair[l] = s /\ future'[s].learner = l
    BY <1>7, <1>10, <2>1 DEF Holds
  <2> QED
    BY <2>1 DEF NoLearnerTwice
<1>20. LinksFaithful'
  <2> SUFFICES ASSUME NEW l \in Learners, renewed_to'[l] # None
               PROVE  future'[renewed_to'[l]].learner = l /\ future'[renewed_to'[l]].plan = p
    BY <1>12 DEF LinksFaithful
  <2>1. l \in Copied(r) /\ renewed_to'[l] = pair[l]
    BY <1>4, <1>7 DEF RenewedLinks
  <2>2. future'[pair[l]] = [plan |-> p, status |-> copies[r][l], learner |-> l]
    BY <1>8, <2>1
  <2> QED
    BY <2>1, <2>2
<1>21. AtMostOneAutoApplies'
  BY <1>14 DEF RenewalInv, AtMostOneAutoApplies
<1> QED
  BY <1>15, <1>16, <1>17, <1>18, <1>19, <1>20, <1>21 DEF RenewalInv

LEMMA RollbackInv ==
    ASSUME RenewalInv, NEW r \in Processors, RenewalRollback(r)
    PROVE  RenewalInv'
BY FinishedInv DEF RenewalRollback

-----------------------------------------------------------------------------
\* The other requests: those on the prior plan touch nothing of the invariant,
\* the others wait until no processor works.
LEMMA PriorChangedInv ==
    ASSUME RenewalInv, NEW l \in Learners, PriorActivated(l) \/ PriorRevoked(l)
    PROVE  RenewalInv'
<1>1. /\ UNCHANGED <<renewed_to, future, auto, renewal, step, plan_read, auto_read, copies>>
      /\ original' \in [Learners -> {"assigned", "activated", "revoked"}]
      /\ changed' \in [Processors -> SUBSET Learners]
  <2>1. PICK status \in {"activated", "revoked"} : PriorChanged(l, status)
    BY DEF PriorActivated, PriorRevoked
  <2>2. changed \in [Processors -> SUBSET Learners]
    BY DEF RenewalInv, RenewalTypeOK
  <2>3. \A r \in Processors : changed[r] \union {l} \in SUBSET Learners
    BY <2>2
  <2>4. changed' \in [Processors -> SUBSET Learners]
    BY <2>1, <2>2, <2>3 DEF PriorChanged
  <2> QED
    BY <2>1, <2>4 DEF PriorChanged, RenewalInv, RenewalTypeOK
<1>2. RenewalTypeOK'
  BY <1>1 DEF RenewalInv, RenewalTypeOK
<1>3. OneAtWork' /\ ReadsCurrent'
  BY <1>1 DEF RenewalInv, OneAtWork, ReadsCurrent, LicensesOf
<1>4. RowsSound' /\ RenewedOnce' /\ NoLearnerTwice' /\ LinksFaithful' /\ AtMostOneAutoApplies'
  BY <1>1 DEF RenewalInv, RowsSound, RenewedOnce, NoLearnerTwice, LinksFaithful,
         AtMostOneAutoApplies, Holds
<1> QED
  BY <1>2, <1>3, <1>4 DEF RenewalInv

\* An assignment changes one unassigned license, to which no link leads.
LEMMA FutureAssignedInv ==
    ASSUME RenewalInv, ~Overlap, NEW s \in Slots, NEW l \in Learners, FutureAssigned(s, l)
    PROVE  RenewalInv'
<1> USE RenewalAssumption
<1> DEFINE row == [plan |-> future[s].plan, status |-> "assigned", learner |-> l]
<1>1. /\ Resting /\ future[s].status = "unassigned"
      /\ future' = [future EXCEPT ![s] = row]
      /\ UNCHANGED <<original, renewed_to, auto, renewal, step, readVars>>
      /\ \A t \in LicensesOf(future[s].plan) : Holds(t) => future[t].learner # l
  BY DEF FutureAssigned
<1>2. future \in [Slots -> FutureRow] /\ future[s] \in FutureRow
  BY DEF RenewalInv, RenewalTypeOK, readVars
<1>3. row \in FutureRow
  BY <1>2 DEF FutureRow
<1>4. /\ future'[s] = row
      /\ \A t \in Slots : t # s => future'[t] = future[t]
  BY <1>1, <1>2
<1>5. RenewalTypeOK'
  BY <1>1, <1>2, <1>3 DEF RenewalInv, RenewalTypeOK, readVars
<1>6. future[s].learner = None /\ future[s].plan # None
  BY <1>1 DEF RenewalInv, RowsSound, AbsentSlot
<1>7. RowsSound'
  BY <1>1, <1>4, <1>6 DEF RenewalInv, RowsSound, AbsentSlot
<1>8. OneAtWork' /\ ReadsCurrent'
  BY <1>1 DEF Resting, OneAtWork, ReadsCurrent
<1>9. RenewedOnce' /\ AtMostOneAutoApplies'
  BY <1>1, <1>4 DEF RenewalInv, RenewedOnce, AtMostOneAutoApplies
<1>10. NoLearnerTwice'
  BY <1>1, <1>4 DEF RenewalInv, NoLearnerTwice, Holds, LicensesOf
<1>11. LinksFaithful'
  <2>1. \A k \in Learners : renewed_to[k] # None => renewed_to[k] \in Slots \ {s}
    BY <1>6 DEF RenewalInv, RenewalTypeOK, LinksFaithful
  <2> QED
    BY <1>1, <1>4, <2>1 DEF RenewalInv, LinksFaithful
<1> QED
  BY <1>5, <1>7, <1>8, <1>9, <1>10, <1>11 DEF RenewalInv

\* A revocation keeps the learner of the license, and its successor is free.
LEMMA FutureRevokedInv ==
    ASSUME RenewalInv, ~Overlap, NEW s \in Slots, NEW new \in Slots, FutureRevoked(s, new)
    PROVE  RenewalInv'
<1> USE RenewalAssumption
<1> DEFINE row == [plan |-> future[s].plan, status |-> "revoked", learner |-> future[s].learner]
           free == FreeSlot(future[s].plan)
<1>1. /\ Resting /\ Holds(s) /\ future[new].status = "absent"
      /\ future' = [future EXCEPT ![s] = row, ![new] = free]
      /\ UNCHANGED <<original, renewed_to, auto, renewal, step, readVars>>
  BY DEF FutureRevoked
<1>2. /\ future \in [Slots -> FutureRow] /\ future[s] \in FutureRow
      /\ s # new
  BY <1>1 DEF RenewalInv, RenewalTypeOK, Holds, readVars
<1>3. future[new].learner = None /\ future[s].plan # None
  BY <1>1 DEF RenewalInv, RowsSound, AbsentSlot, Holds
<1>4. row \in FutureRow /\ free \in FutureRow
  BY <1>2 DEF FutureRow, FreeSlot
<1>5. /\ future'[s] = row /\ future'[new] = free
      /\ \A t \in Slots : t # s /\ t # new => future'[t] = future[t]
  BY <1>1, <1>2
<1>6. /\ future'[new].plan = future[s].plan
      /\ future'[new].status = "unassigned" /\ future'[new].learner = None
      /\ future'[s].plan = future[s].plan
      /\ future'[s].status = "revoked" /\ future'[s].learner = future[s].learner
  BY <1>5 DEF FreeSlot
<1>7. RenewalTypeOK'
  BY <1>1, <1>2, <1>4 DEF RenewalInv, RenewalTypeOK, readVars
<1>8. RowsSound'
  <2>1. \A t \in {s, new} : future'[t].plan # None /\ future'[t] # AbsentSlot
    BY <1>3, <1>6 DEF AbsentSlot
  <2>2. \A t \in {s, new} :
          future'[t].status \in {"absent", "unassigned"} => future'[t].learner = None
    BY <1>6
  <2>3. \A t \in Slots \ {s, new} :
          /\ future'[t].plan = None <=> future'[t] = AbsentSlot
          /\ future'[t].status \in {"absent", "unassigned"} => future'[t].learner = None
    BY <1>5 DEF RenewalInv, RowsSound
  <2>4. renewal'.processed => renewal'.renewed_subscription_plan # None
    BY <1>1 DEF RenewalInv, RowsSound
  <2>5. AbsentSlot' = AbsentSlot
    BY DEF AbsentSlot
  <2> HIDE DEF row, free
  <2> QED
    BY <2>1, <2>2, <2>3, <2>4, <2>5 DEF RowsSound
<1>9. OneAtWork' /\ ReadsCurrent'
  BY <1>1 DEF Resting, OneAtWork, ReadsCurrent
<1>10. RenewedOnce' /\ AtMostOneAutoApplies'
  <2>1. \A t \in Slots : future[t].plan \in {None, renewal.renewed_subscription_plan}
    BY DEF RenewalInv, RenewedOnce
  <2>2. \A t \in Slots : future'[t].plan \in {None, renewal.renewed_subscription_plan}
    <3> HIDE DEF row, free
    <3> QED
      BY <1>5, <1>6, <2>1
  <2> QED
    BY <1>1, <2>2 DEF RenewalInv, RenewedOnce, AtMostOneAutoApplies
<1>11. NoLearnerTwice'
  BY <1>5, <1>6 DEF RenewalInv, NoLearnerTwice, Holds
<1>12. LinksFaithful'
  <2>1. \A k \in Learners : renewed_to[k] # None => renewed_to[k] \in Slots \ {new}
    BY <1>3 DEF RenewalInv, RenewalTypeOK, LinksFaithful
  <2>2. ASSUME NEW t \in Slots, t # new
        PROVE  future'[t].learner = future[t].learner /\ future'[t].plan = future[t].plan
    BY <1>5, <2>2
  <2>3. \A k \in Learners : renewed_to[k] # None =>
          /\ future[renewed_to[k]].learner = k
          /\ future[renewed_to[k]].plan = renewal.renewed_subscription_plan
    BY DEF RenewalInv, LinksFaithful
  <2>4. \A k \in Learners : renewed_to[k] # None =>
          /\ future'[renewed_to[k]].learner = k
          /\ future'[renewed_to[k]].plan = renewal.renewed_subscription_plan
    BY <2>1, <2>2, <2>3, Zenon
  <2> QED
    BY <1>1, <2>4 DEF LinksFaithful
<1> QED
  BY <1>7, <1>8, <1>9, <1>10, <1>11, <1>12 DEF RenewalInv

LEMMA AutoSelectedInv ==
    ASSUME RenewalInv, ~Overlap, NEW P \in SUBSET ({Prior} \union Plans), AutoSelected(P)
    PROVE  RenewalInv'
<1>1. /\ Resting /\ auto' = P
      /\ UNCHANGED <<original, renewed_to, future, renewal, step, readVars>>
  BY DEF AutoSelected
<1>2. AtMostOneAutoApplies'
  <2> SUFFICES ASSUME NEW p \in P, NEW q \in P, p # q PROVE FALSE
    BY <1>1 DEF AtMostOneAutoApplies
  <2>1. P \subseteq {Prior, renewal.renewed_subscription_plan} /\ Cardinality(P) <= 1
    BY DEF AutoSelected
  <2>2. P = {p, q}
    BY <2>1
  <2>3. Cardinality({p, q}) = 2
    <3>1. IsFiniteSet({p}) /\ Cardinality({p}) = 1
      BY FS_Singleton
    <3>2. Cardinality({p} \union {q}) = Cardinality({p}) + 1
      BY <3>1, FS_AddElement
    <3>3. {p} \union {q} = {p, q}
      OBVIOUS
    <3> QED
      BY <3>1, <3>2, <3>3
  <2> QED
    BY <2>1, <2>2, <2>3
<1>3. RenewalTypeOK'
  BY <1>1 DEF RenewalInv, RenewalTypeOK, readVars
<1>4. OneAtWork' /\ ReadsCurrent'
  BY <1>1 DEF Resting, OneAtWork, ReadsCurrent
<1>5. RowsSound' /\ RenewedOnce' /\ NoLearnerTwice' /\ LinksFaithful'
  BY <1>1 DEF RenewalInv, RowsSound, RenewedOnce, NoLearnerTwice, LinksFaithful, Holds
<1> QED
  BY <1>2, <1>3, <1>4, <1>5 DEF RenewalInv

\* Every step keeps the invariant.
LEMMA RenewalStepInv ==
    ASSUME RenewalInv, ~Overlap, [RenewalNext]_rvars
    PROVE  RenewalInv'
<1>1. ASSUME NEW r \in Processors,
             \/ RenewalStart(r) \/ ReadOriginals(r) \/ ReadFuture(r)
             \/ RenewalCommit(r) \/ RenewalRollback(r)
      PROVE  RenewalInv'
  BY <1>1, StartInv, ReadOriginalsInv, ReadFutureInv, CommitInv, RollbackInv
<1>2. CASE \E l \in Learners : PriorActivated(l) \/ PriorRevoked(l)
  BY <1>2, PriorChangedInv
<1>3. CASE \E s \in Slots, l \in Learners : FutureAssigned(s, l)
  BY <1>3, FutureAssignedInv
<1>4. CASE \E s, new \in Slots : FutureRevoked(s, new)
  BY <1>4, FutureRevokedInv
<1>5. CASE \E P \in SUBSET ({Prior} \union Plans) : AutoSelected(P)
  BY <1>5, AutoSelectedInv
<1>6. CASE UNCHANGED rvars
  <2>1. RenewalTypeOK' /\ OneAtWork' /\ ReadsCurrent'
    <3>1. RenewalTypeOK'
      BY <1>6 DEF rvars, RenewalInv, RenewalTypeOK
    <3>2. OneAtWork' /\ ReadsCurrent'
      BY <1>6 DEF rvars, RenewalInv, OneAtWork, ReadsCurrent, LicensesOf
    <3> QED
      BY <3>1, <3>2
  <2>2. RowsSound' /\ RenewedOnce' /\ NoLearnerTwice' /\ LinksFaithful' /\ AtMostOneAutoApplies'
    BY <1>6 DEF rvars, RenewalInv, RowsSound, RenewedOnce, NoLearnerTwice, LinksFaithful,
           AtMostOneAutoApplies, Holds
  <2> QED
    BY <2>1, <2>2 DEF RenewalInv
<1> QED
  BY <1>1, <1>2, <1>3, <1>4, <1>5, <1>6 DEF RenewalNext

-----------------------------------------------------------------------------
(***************************************************************************)
(* While nothing overlaps a processor, renew_subscription keeps RenewalInv.*)
(***************************************************************************)
THEOREM RenewalKeepsInv == ASSUME ~Overlap PROVE RenewalSpec => []RenewalInv
<1>1. RenewalInit => RenewalInv
  BY RenewalInitInv
<1>2. RenewalInv /\ [RenewalNext]_rvars => RenewalInv'
  BY RenewalStepInv
<1> QED
  BY <1>1, <1>2, PTL DEF RenewalSpec

(***************************************************************************)
(* A renewal that is processed any number of times, by the command, the    *)
(* endpoint or the admin action, is renewed into one plan.                 *)
(***************************************************************************)
THEOREM RenewedIntoOnePlan == ASSUME ~Overlap PROVE RenewalSpec => []RenewedOnce
<1>1. RenewalInv => RenewedOnce
  BY DEF RenewalInv
<1> QED
  BY <1>1, RenewalKeepsInv, PTL

(***************************************************************************)
(* The copies that bulk_update writes give no learner a second license of  *)
(* the renewed plan.                                                       *)
(***************************************************************************)
THEOREM RenewalGivesOneLicense == ASSUME ~Overlap PROVE RenewalSpec => []NoLearnerTwice
<1>1. RenewalInv => NoLearnerTwice
  BY DEF RenewalInv
<1> QED
  BY <1>1, RenewalKeepsInv, PTL

(***************************************************************************)
(* toggle_auto_apply_licenses leaves at most one plan that auto-applies.   *)
(***************************************************************************)
THEOREM RenewalAutoAppliesOne == ASSUME ~Overlap PROVE RenewalSpec => []AtMostOneAutoApplies
<1>1. RenewalInv => AtMostOneAutoApplies
  BY DEF RenewalInv
<1> QED
  BY <1>1, RenewalKeepsInv, PTL

\* A step on a processed renewal changes neither its plan nor a link, and takes
\* no license from its learner: the transaction finds no license that is held.
LEMMA ReprocessingStep ==
    ASSUME RenewalInv, RenewalNext, renewal.processed
    PROVE  /\ renewal'.renewed_subscription_plan = renewal.renewed_subscription_plan
           /\ \A l \in Learners : renewed_to[l] # None => renewed_to'[l] = renewed_to[l]
           /\ \A s \in Slots : Holds(s) => future'[s].learner = future[s].learner
<1>1. CASE UNCHANGED <<renewed_to, future, renewal>>
  BY <1>1
<1>2. ASSUME NEW r \in Processors, RenewalCommit(r)
      PROVE  /\ renewal'.renewed_subscription_plan = renewal.renewed_subscription_plan
             /\ \A l \in Learners : renewed_to[l] = None
             /\ \A s \in Slots : ~Holds(s)
  <2>1. PICK p \in RenewInto(r) :
          renewal' = [renewal EXCEPT !.renewed_subscription_plan = p, !.processed = TRUE]
    BY <1>2 DEF RenewalCommit
  <2>2. step[r] = "commit"
    BY <1>2 DEF RenewalCommit
  <2>3. /\ renewal.renewed_subscription_plan \in {None, p}
        /\ \A s \in Slots : ~Holds(s)
        /\ \A l \in Learners : renewed_to[l] = None
    BY <2>2, CommitFinds
  <2>4. renewal.renewed_subscription_plan # None /\ renewal \in RenewalRow
    BY DEF RenewalInv, RowsSound, RenewalTypeOK
  <2>5. renewal'.renewed_subscription_plan = p
    BY <2>1, <2>4 DEF RenewalRow
  <2> QED
    BY <2>3, <2>4, <2>5
<1>3. ASSUME NEW s \in Slots, NEW l \in Learners, FutureAssigned(s, l)
      PROVE  /\ UNCHANGED <<renewed_to, renewal>>
             /\ \A t \in Slots : Holds(t) => future'[t] = future[t]
  BY <1>3 DEF FutureAssigned, Holds, RenewalInv, RenewalTypeOK
<1>4. ASSUME NEW s \in Slots, NEW new \in Slots, FutureRevoked(s, new)
      PROVE  /\ UNCHANGED <<renewed_to, renewal>>
             /\ \A t \in Slots : Holds(t) => future'[t].learner = future[t].learner
  BY <1>4 DEF FutureRevoked, FreeSlot, Holds, RenewalInv, RenewalTypeOK
<1>5. \/ \E r \in Processors : RenewalCommit(r)
      \/ \E s \in Slots, l \in Learners : FutureAssigned(s, l)
      \/ \E s, new \in Slots : FutureRevoked(s, new)
      \/ UNCHANGED <<renewed_to, future, renewal>>
  BY DEF RenewalNext, RenewalStart, ReadOriginals, ReadFuture, RenewalRollback,
         PriorActivated, PriorRevoked, PriorChanged, AutoSelected
<1> QED
  BY <1>1, <1>2, <1>3, <1>4, <1>5

(***************************************************************************)
(* Processing a renewal again, which the admin action allows, is harmless: *)
(* the plan and the links stay and no learner loses a license by it.       *)
(***************************************************************************)
THEOREM ReprocessingIsHarmless == ASSUME ~Overlap PROVE RenewalSpec => ReprocessingHarmless
<1>1. RenewalInv /\ [RenewalNext]_rvars =>
        [renewal.processed =>
           /\ renewal'.renewed_subscription_plan = renewal.renewed_subscription_plan
           /\ \A l \in Learners : renewed_to[l] # None => renewed_to'[l] = renewed_to[l]
           /\ \A s \in Slots : Holds(s) => future'[s].learner = future[s].learner]_rvars
  BY ReprocessingStep
<1> QED
  BY <1>1, RenewalKeepsInv, PTL DEF RenewalSpec, ReprocessingHarmless

-----------------------------------------------------------------------------
(***************************************************************************)
(* The number of licenses of the renewed plan.                             *)
(***************************************************************************)
\* A license that does not exist is in no plan.
AbsentUnplanned == \A s \in Slots : future[s].status = "absent" => future[s].plan = None

SizeInv == RenewedSize /\ AbsentUnplanned

Usable(p) == {s \in LicensesOf(p) : future[s].status # "revoked"}

LEMMA CommitSize ==
    ASSUME RenewalInv, AbsentUnplanned, NEW r \in Processors, RenewalCommit(r)
    PROVE  SizeInv'
<1> USE RenewalAssumption
<1>1. step[r] = "commit"
  BY DEF RenewalCommit
<1>2. PICK p \in RenewInto(r) : \E new \in Added(p) :
        \E pair \in Pairings(Copied(r), LicensesOf(p) \union new) :
           /\ future' = RenewedRows(r, p, new, pair)
           /\ renewal' = [renewal EXCEPT !.renewed_subscription_plan = p, !.processed = TRUE]
  BY Zenon DEF RenewalCommit
<1>3. PICK new \in Added(p) : \E pair \in Pairings(Copied(r), LicensesOf(p) \union new) :
           /\ future' = RenewedRows(r, p, new, pair)
           /\ renewal' = [renewal EXCEPT !.renewed_subscription_plan = p, !.processed = TRUE]
  BY <1>2, Zenon
<1>4. PICK pair \in Pairings(Copied(r), LicensesOf(p) \union new) :
           /\ future' = RenewedRows(r, p, new, pair)
           /\ renewal' = [renewal EXCEPT !.renewed_subscription_plan = p, !.processed = TRUE]
  BY <1>3, Zenon
<1>5. p \in Plans /\ p # None /\ \A s \in Slots : future[s].plan \in {None, p} /\ ~Holds(s)
  BY <1>1, CommitFinds
<1>6. /\ renewal \in RenewalRow /\ renewal.number_of_licenses \in Nat
      /\ renewal'.renewed_subscription_plan = p
      /\ renewal'.number_of_licenses = renewal.number_of_licenses
  BY <1>4 DEF RenewalInv, RenewalTypeOK, RenewalRow
<1> DEFINE L == LicensesOf(p)
<1>7. L \subseteq Slots /\ new \subseteq Slots /\ L \intersect new = {}
  BY <1>5 DEF Added, LicensesOf
<1>8. IsFiniteSet(L) /\ IsFiniteSet(new) /\ Cardinality(L) \in Nat /\ Cardinality(new) \in Nat
  BY <1>7, FS_Subset, FS_CardinalityType
<1>9. /\ \A s \in L : future[s].status = "unassigned"
      /\ Cardinality(L) <= renewal.number_of_licenses
  <2>1. plan_read[r] = renewal.renewed_subscription_plan
    BY <1>1 DEF RenewalInv, ReadsCurrent
  <2>2. CASE plan_read[r] = None
    <3>1. L = {}
      BY <2>2 DEF RenewInto
    <3> QED
      BY <1>6, <3>1, FS_EmptySet
  <2>3. CASE plan_read[r] # None
    <3>1. p = plan_read[r]
      BY <2>3 DEF RenewInto
    <3> QED
      BY <1>1, <2>3, <3>1 DEF RenewalInv, ReadsCurrent
  <2> QED
    BY <2>2, <2>3
<1>10. NumLicenses(p) = Cardinality(L)
  <2>1. {s \in LicensesOf(p) : future[s].status # "revoked"} = L
    BY <1>9
  <2> QED
    BY <2>1 DEF NumLicenses
<1>11. Cardinality(L) + Cardinality(new) = renewal.number_of_licenses
  <2>1. CASE NumLicenses(p) + Cardinality(new) = renewal.number_of_licenses
    BY <1>10, <2>1
  <2>2. CASE NumLicenses(p) > renewal.number_of_licenses
    BY <1>6, <1>8, <1>9, <1>10, <2>2
  <2> QED
    BY <2>1, <2>2 DEF Added
<1>12. Cardinality(L \union new) = renewal.number_of_licenses
  <2> HIDE DEF L
  <2>1. Cardinality(L \intersect new) = 0
    BY <1>7, FS_EmptySet
  <2>2. Cardinality(L \union new) = Cardinality(L) + Cardinality(new) - Cardinality(L \intersect new)
    BY <1>8, FS_Union
  <2> QED
    BY <1>8, <1>11, <2>1, <2>2
<1>13. ASSUME NEW s \in Slots
       PROVE  /\ s \in L \union new => future'[s].plan = p /\ future'[s].status # "revoked"
              /\ future'[s].plan = p => s \in L \union new
              /\ future'[s].status = "absent" => future'[s] = future[s]
  <2>1. CASE \E l \in Copied(r) : pair[l] = s
    <3>1. s \in L \union new
      BY <2>1 DEF Pairings
    <3> DEFINE k == CHOOSE l \in Copied(r) : pair[l] = s
    <3>2. k \in Copied(r)
      BY <2>1
    <3>3. future'[s] = [plan |-> p, status |-> copies[r][k], learner |-> k]
      BY <1>4, <2>1 DEF RenewedRows
    <3>4. copies[r][k] \in {"assigned", "activated"}
      <4> HIDE DEF k
      <4> QED
        BY <3>2 DEF Copied, RenewalInv, RenewalTypeOK
    <3> HIDE DEF k, L
    <3> QED
      BY <3>1, <3>3, <3>4
  <2>2. CASE ~(\E l \in Copied(r) : pair[l] = s) /\ s \in new
    <3>1. future'[s] = FreeSlot(p)
      BY <1>4, <2>2 DEF RenewedRows
    <3> QED
      BY <2>2, <3>1 DEF FreeSlot
  <2>3. CASE ~(\E l \in Copied(r) : pair[l] = s) /\ s \notin new
    <3>1. future'[s] = future[s]
      BY <1>4, <2>3 DEF RenewedRows
    <3>2. s \in L <=> future[s].plan = p
      BY DEF LicensesOf
    <3> QED
      BY <1>9, <2>3, <3>1, <3>2
  <2> QED
    BY <2>1, <2>2, <2>3
<1>14. Usable(p)' = L \union new
  <2> HIDE DEF L
  <2> QED
    BY <1>7, <1>13 DEF Usable, LicensesOf
<1>15. NumLicenses(p)' = Cardinality(L \union new)
  BY <1>14 DEF NumLicenses, Usable
<1>16. RenewedSize'
  BY <1>6, <1>12, <1>15 DEF RenewedSize
<1>17. AbsentUnplanned'
  <2>1. \A s \in Slots : future'[s].status = "absent" => future'[s] = future[s]
    BY <1>13
  <2> QED
    BY <2>1 DEF AbsentUnplanned
<1> QED
  BY <1>16, <1>17 DEF SizeInv

\* The successor of a revoked license replaces it in the count.
LEMMA RevokedSize ==
    ASSUME RenewalInv, SizeInv, NEW s \in Slots, NEW new \in Slots, FutureRevoked(s, new)
    PROVE  SizeInv'
<1> USE RenewalAssumption
<1> DEFINE p == renewal.renewed_subscription_plan
<1>1. /\ Holds(s) /\ future[new].status = "absent" /\ renewal' = renewal
      /\ future' = [future EXCEPT
                      ![s] = [plan |-> future[s].plan, status |-> "revoked", learner |-> future[s].learner],
                      ![new] = FreeSlot(future[s].plan)]
  BY DEF FutureRevoked
<1>2. future \in [Slots -> FutureRow] /\ s # new
  BY <1>1 DEF RenewalInv, RenewalTypeOK, Holds
<1>3. future[s].plan = p /\ p # None /\ future[new].plan = None
  <2>1. future[s].plan # None
    BY <1>1 DEF RenewalInv, RowsSound, AbsentSlot, Holds
  <2>2. future[s].plan \in {None, p}
    BY DEF RenewalInv, RenewedOnce
  <2> QED
    BY <1>1, <2>1, <2>2 DEF SizeInv, AbsentUnplanned
<1>4. /\ future'[s].plan = p /\ future'[s].status = "revoked"
      /\ future'[new].plan = p /\ future'[new].status = "unassigned"
      /\ \A t \in Slots : t # s /\ t # new => future'[t] = future[t]
  BY <1>1, <1>2, <1>3 DEF FreeSlot
<1>5. AbsentUnplanned'
  BY <1>4 DEF SizeInv, AbsentUnplanned
<1> DEFINE U == Usable(p)
<1>6. s \in U /\ new \notin U /\ U \subseteq Slots
  BY <1>1, <1>3 DEF Usable, LicensesOf, Holds
<1>7. Usable(p)' = (U \ {s}) \union {new}
  <2>1. \A t \in Slots : future'[t].plan = p /\ future'[t].status # "revoked" <=>
                         t = new \/ (t # s /\ t \in U)
    BY <1>2, <1>4 DEF Usable, LicensesOf
  <2>2. \A t : t \in Usable(p)' <=> t \in Slots /\ future'[t].plan = p /\ future'[t].status # "revoked"
    BY <1>1 DEF Usable, LicensesOf
  <2> HIDE DEF U
  <2> QED
    BY <1>6, <2>1, <2>2
<1>8. Cardinality((U \ {s}) \union {new}) = Cardinality(U)
  <2>1. IsFiniteSet(U) /\ Cardinality(U) \in Nat
    BY <1>6, FS_Subset, FS_CardinalityType
  <2> HIDE DEF U
  <2>2. IsFiniteSet(U \ {s}) /\ Cardinality(U \ {s}) = Cardinality(U) - 1
    BY <1>6, <2>1, FS_RemoveElement
  <2>3. Cardinality((U \ {s}) \union {new}) = Cardinality(U \ {s}) + 1
    BY <1>6, <2>2, FS_AddElement
  <2> QED
    BY <2>1, <2>2, <2>3
<1>9. NumLicenses(p)' = Cardinality(Usable(p)') /\ NumLicenses(p) = Cardinality(U)
  BY DEF NumLicenses, Usable
<1>10. RenewedSize'
  BY <1>1, <1>7, <1>8, <1>9 DEF SizeInv, RenewedSize
<1> QED
  BY <1>5, <1>10 DEF SizeInv

LEMMA AssignedSize ==
    ASSUME RenewalInv, SizeInv, NEW s \in Slots, NEW l \in Learners, FutureAssigned(s, l)
    PROVE  SizeInv'
<1>1. /\ future[s].status = "unassigned" /\ renewal' = renewal /\ future \in [Slots -> FutureRow]
      /\ future' = [future EXCEPT ![s] = [plan |-> future[s].plan, status |-> "assigned", learner |-> l]]
  BY DEF FutureAssigned, RenewalInv, RenewalTypeOK
<1>2. \A t \in Slots : /\ future'[t].plan = future[t].plan
                       /\ future'[t].status = "revoked" <=> future[t].status = "revoked"
                       /\ future'[t].status = "absent" => future[t].status = "absent"
  BY <1>1
<1>3. \A p : Usable(p)' = Usable(p)
  BY <1>2 DEF Usable, LicensesOf
<1>4. \A p : NumLicenses(p)' = NumLicenses(p)
  BY <1>3 DEF NumLicenses, Usable
<1> QED
  BY <1>1, <1>2, <1>4 DEF SizeInv, RenewedSize, AbsentUnplanned

LEMMA SizeStep ==
    ASSUME RenewalInv, SizeInv, [RenewalNext]_rvars
    PROVE  SizeInv'
<1>1. CASE UNCHANGED <<future, renewal>>
  BY <1>1 DEF SizeInv, RenewedSize, AbsentUnplanned, NumLicenses, LicensesOf
<1>2. \/ \E r \in Processors : RenewalCommit(r)
      \/ \E s \in Slots, l \in Learners : FutureAssigned(s, l)
      \/ \E s, new \in Slots : FutureRevoked(s, new)
      \/ UNCHANGED <<future, renewal>>
  BY DEF RenewalNext, RenewalStart, ReadOriginals, ReadFuture, RenewalRollback,
         PriorActivated, PriorRevoked, PriorChanged, AutoSelected, rvars
<1> QED
  BY <1>1, <1>2, CommitSize, RevokedSize, AssignedSize DEF SizeInv

LEMMA SizeStart == RenewalInit => SizeInv
<1> SUFFICES ASSUME RenewalInit PROVE SizeInv
  OBVIOUS
<1>1. RenewedSize
  BY DEF RenewalInit, RenewedSize
<1>2. \A s \in Slots : future[s] = AbsentSlot \/ \E p : future[s] = FreeSlot(p)
  BY DEF RenewalInit
<1>3. AbsentSlot.plan = None /\ \A p : FreeSlot(p).status = "unassigned"
  BY DEF AbsentSlot, FreeSlot
<1>4. AbsentUnplanned
  BY <1>2, <1>3 DEF AbsentUnplanned
<1> QED
  BY <1>1, <1>4 DEF SizeInv

(***************************************************************************)
(* However often a renewal is processed, and whatever is assigned and      *)
(* revoked in between, the renewed plan has number_of_licenses licenses.   *)
(***************************************************************************)
THEOREM RenewedPlansHaveTheirSize == ASSUME ~Overlap PROVE RenewalSpec => []RenewedSize
<1>1. RenewalInit => SizeInv
  BY SizeStart
<1>2. RenewalInv /\ SizeInv /\ [RenewalNext]_rvars => SizeInv'
  BY SizeStep
<1>3. SizeInv => RenewedSize
  BY DEF SizeInv
<1> QED
  BY <1>1, <1>2, <1>3, RenewalKeepsInv, PTL DEF RenewalSpec

-----------------------------------------------------------------------------
(***************************************************************************)
(* The learners who are carried over.                                      *)
(***************************************************************************)

\* Of a license that did not change since, a processor has the status to copy.
CopiesCurrent ==
    \A r \in Processors : step[r] \in {"future", "commit"} =>
       \A l \in Learners \ changed[r] :
          copies[r][l] = IF original[l] \in renewal.license_types_to_copy THEN original[l]
                         ELSE "none"

LEMMA CopiesStep ==
    ASSUME RenewalInv, CopiesCurrent, [RenewalNext]_rvars
    PROVE  CopiesCurrent'
<1>1. ASSUME NEW r \in Processors, Finished(r), original' = original,
             renewal'.license_types_to_copy = renewal.license_types_to_copy
      PROVE  CopiesCurrent'
  <2>1. \A q \in Processors :
           /\ step'[q] # "idle" => step'[q] = step[q]
           /\ q # r => copies'[q] = copies[q] /\ changed'[q] = changed[q]
    BY <1>1 DEF Finished, RenewalInv, RenewalTypeOK
  <2>2. step'[r] = "idle"
    BY <1>1 DEF Finished, RenewalInv, RenewalTypeOK
  <2> QED
    BY <1>1, <2>1, <2>2 DEF CopiesCurrent
<1>2. ASSUME UNCHANGED <<original, renewal, step, copies, changed>>
      PROVE  CopiesCurrent'
  BY <1>2 DEF CopiesCurrent
<1>3. ASSUME NEW r \in Processors, RenewalStart(r)
      PROVE  CopiesCurrent'
  <2>1. /\ step' = [step EXCEPT ![r] = "originals"]
        /\ UNCHANGED <<original, renewal, copies, changed>>
    BY <1>3 DEF RenewalStart
  <2> QED
    BY <2>1 DEF CopiesCurrent, RenewalInv, RenewalTypeOK
<1>4. ASSUME NEW r \in Processors, ReadOriginals(r)
      PROVE  CopiesCurrent'
  <2>1. CASE Finished(r)
    BY <1>1, <1>4, <2>1 DEF ReadOriginals
  <2>2. CASE /\ copies' = [copies EXCEPT ![r] =
                   [l \in Learners |-> IF l \in OriginalLicensesToCopy THEN original[l] ELSE "none"]]
             /\ step' = [step EXCEPT ![r] = "future"]
             /\ changed' = changed
    <3>1. \A l \in Learners :
             copies'[r][l] = IF original[l] \in renewal.license_types_to_copy THEN original[l]
                             ELSE "none"
      BY <2>2 DEF OriginalLicensesToCopy, RenewalInv, RenewalTypeOK
    <3>2. \A q \in Processors : q # r => copies'[q] = copies[q] /\ step'[q] = step[q]
      BY <2>2 DEF RenewalInv, RenewalTypeOK
    <3>3. UNCHANGED <<original, renewal>>
      BY <1>4 DEF ReadOriginals
    <3> QED
      BY <2>2, <3>1, <3>2, <3>3 DEF CopiesCurrent
  <2> QED
    BY <1>4, <2>1, <2>2 DEF ReadOriginals
<1>5. ASSUME NEW r \in Processors, ReadFuture(r)
      PROVE  CopiesCurrent'
  <2>1. UNCHANGED <<original, renewal>> /\ step[r] = "future"
    BY <1>5 DEF ReadFuture
  <2>2. CASE Finished(r)
    BY <1>1, <2>1, <2>2
  <2>3. CASE step' = [step EXCEPT ![r] = "commit"] /\ UNCHANGED readVars
    BY <2>1, <2>3 DEF CopiesCurrent, readVars, RenewalInv, RenewalTypeOK
  <2> QED
    BY <1>5, <2>2, <2>3 DEF ReadFuture
<1>6. ASSUME NEW r \in Processors, RenewalCommit(r) \/ RenewalRollback(r)
      PROVE  CopiesCurrent'
  <2>1. Finished(r) /\ original' = original
    BY <1>6 DEF RenewalCommit, RenewalRollback
  <2>2. renewal'.license_types_to_copy = renewal.license_types_to_copy
    <3>1. \/ renewal' = renewal
          \/ \E p \in RenewInto(r) :
               renewal' = [renewal EXCEPT !.renewed_subscription_plan = p, !.processed = TRUE]
      BY <1>6 DEF RenewalCommit, RenewalRollback
    <3>2. renewal \in RenewalRow
      BY DEF RenewalInv, RenewalTypeOK
    <3>3. \A p : [renewal EXCEPT !.renewed_subscription_plan = p, !.processed = TRUE].license_types_to_copy
                  = renewal.license_types_to_copy
      BY <3>2 DEF RenewalRow
    <3> QED
      BY <3>1, <3>3
  <2> QED
    BY <1>1, <2>1, <2>2
<1>7. ASSUME NEW l \in Learners, PriorActivated(l) \/ PriorRevoked(l)
      PROVE  CopiesCurrent'
  <2>1. PICK status : PriorChanged(l, status)
    BY <1>7 DEF PriorActivated, PriorRevoked
  <2>2. \A k \in Learners : k # l => original'[k] = original[k]
    BY <2>1 DEF PriorChanged, RenewalInv, RenewalTypeOK
  <2>3. \A r \in Processors : step[r] \in {"future", "commit"} => changed'[r] = changed[r] \union {l}
    BY <2>1 DEF PriorChanged
  <2>4. UNCHANGED <<step, copies, renewal>>
    BY <2>1 DEF PriorChanged
  <2> QED
    BY <2>2, <2>3, <2>4 DEF CopiesCurrent
<1>8. CASE \/ \E s \in Slots, l \in Learners : FutureAssigned(s, l)
           \/ \E s, new \in Slots : FutureRevoked(s, new)
           \/ \E P \in SUBSET ({Prior} \union Plans) : AutoSelected(P)
           \/ UNCHANGED rvars
  BY <1>2, <1>8 DEF FutureAssigned, FutureRevoked, AutoSelected, readVars, rvars
<1> QED
  BY <1>3, <1>4, <1>5, <1>6, <1>7, <1>8 DEF RenewalNext

LEMMA CarriedOver ==
    ASSUME RenewalInv, CopiesCurrent, RenewalNext, ~renewal.processed, renewal'.processed
    PROVE  \E r \in Processors : step[r] = "commit" /\ \A l \in Learners \ changed[r] :
              IF original[l] \in renewal.license_types_to_copy
              THEN renewed_to'[l] # None /\ future'[renewed_to'[l]].status = original[l]
              ELSE renewed_to'[l] = None
<1>1. PICK r \in Processors : RenewalCommit(r)
  <2>1. renewal' # renewal
    OBVIOUS
  <2> QED
    BY <2>1 DEF RenewalNext, RenewalStart, ReadOriginals, ReadFuture, RenewalRollback,
                PriorActivated, PriorRevoked, PriorChanged, FutureAssigned, FutureRevoked,
                AutoSelected
<1>2. PICK p \in RenewInto(r) : \E new \in Added(p) :
        \E pair \in Pairings(Copied(r), LicensesOf(p) \union new) :
           renewed_to' = RenewedLinks(r, pair) /\ future' = RenewedRows(r, p, new, pair)
  BY <1>1, Zenon DEF RenewalCommit
<1>3. PICK new \in Added(p) :
        \E pair \in Pairings(Copied(r), LicensesOf(p) \union new) :
           renewed_to' = RenewedLinks(r, pair) /\ future' = RenewedRows(r, p, new, pair)
  BY <1>2, Zenon
<1>4. PICK pair \in Pairings(Copied(r), LicensesOf(p) \union new) :
           renewed_to' = RenewedLinks(r, pair) /\ future' = RenewedRows(r, p, new, pair)
  BY <1>3, Zenon
<1>5. \A l \in Copied(r) : pair[l] \in Slots /\ pair[l] # None
  BY RenewalAssumption DEF Pairings, Added, LicensesOf
<1>6. step[r] = "commit" /\ \A l \in Learners : renewed_to[l] = None
  BY <1>1, CommitFinds DEF RenewalCommit
<1>7. \A l \in Copied(r) : future'[pair[l]].status = copies[r][l]
  <2> SUFFICES ASSUME NEW l \in Copied(r) PROVE future'[pair[l]].status = copies[r][l]
    OBVIOUS
  <2> DEFINE m == CHOOSE k \in Copied(r) : pair[k] = pair[l]
  <2>1. m \in Copied(r) /\ pair[m] = pair[l]
    OBVIOUS
  <2>2. m = l
    BY <2>1 DEF Pairings
  <2>3. future'[pair[l]] = [plan |-> p, status |-> copies[r][m], learner |-> m]
    BY <1>4, <1>5 DEF RenewedRows
  <2> HIDE DEF m
  <2> QED
    BY <2>2, <2>3
<1>8. \A l \in Learners : original[l] # "none"
  BY DEF RenewalInv, RenewalTypeOK
<1>9. ASSUME NEW l \in Learners \ changed[r]
      PROVE  IF original[l] \in renewal.license_types_to_copy
             THEN renewed_to'[l] # None /\ future'[renewed_to'[l]].status = original[l]
             ELSE renewed_to'[l] = None
  <2>1. copies[r][l] = IF original[l] \in renewal.license_types_to_copy THEN original[l] ELSE "none"
    BY <1>6 DEF CopiesCurrent
  <2>2. CASE original[l] \in renewal.license_types_to_copy
    <3>1. l \in Copied(r)
      BY <1>8, <2>1, <2>2 DEF Copied
    <3> QED
      BY <1>4, <1>5, <1>7, <2>1, <2>2, <3>1 DEF RenewedLinks
  <2>3. CASE original[l] \notin renewal.license_types_to_copy
    BY <1>4, <1>6, <2>1, <2>3 DEF RenewedLinks, Copied
  <2> QED
    BY <2>2, <2>3
<1> QED
  BY <1>6, <1>9

(***************************************************************************)
(* Whatever happens to the prior plan while a renewal is processed, the    *)
(* right learners are carried over, with the right status, but for those   *)
(* whose own license changed since it was read.                            *)
(***************************************************************************)
THEOREM LearnersAreCarriedOver == ASSUME ~Overlap PROVE RenewalSpec => CarriedOverExactly
<1>1. RenewalInit => CopiesCurrent
  BY DEF RenewalInit, CopiesCurrent
<1>2. RenewalInv /\ CopiesCurrent /\ [RenewalNext]_rvars => CopiesCurrent'
  BY CopiesStep
<1>3. RenewalInv /\ CopiesCurrent /\ [RenewalNext]_rvars =>
        [~renewal.processed /\ renewal'.processed =>
           \E r \in Processors : step[r] = "commit" /\ \A l \in Learners \ changed[r] :
              IF original[l] \in renewal.license_types_to_copy
              THEN renewed_to'[l] # None /\ future'[renewed_to'[l]].status = original[l]
              ELSE renewed_to'[l] = None]_rvars
  BY CarriedOver
<1> QED
  BY <1>1, <1>2, <1>3, RenewalKeepsInv, PTL DEF RenewalSpec, CarriedOverExactly
=============================================================================
