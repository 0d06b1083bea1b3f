------------------------ MODULE AdministrationProofs ------------------------
(***************************************************************************)
(* Proofs about the administration of plans: transfers of licenses, auto-  *)
(* scaling, renewals, catalogs, subsidies and lists, for any number of     *)
(* plans, licenses, users, requests and jobs.                              *)
(***************************************************************************)
EXTENDS Administration, FiniteSetTheorems, WellFoundedInduction, TLAPS

-----------------------------------------------------------------------------
(***************************************************************************)
(* Numbers: the first and the last of a set of them.                       *)
(***************************************************************************)
LessThan == {p \in Nat \X Nat : p[1] < p[2]}

LEMMA LeastNumber ==
    ASSUME NEW S \in SUBSET Nat, S # {}
    PROVE  \E k \in S : \A j \in S : k <= j
<1>1. IsWellFoundedOn(LessThan, Nat)
  BY NatLessThanWellFounded DEF OpToRel, LessThan
<1>2. PICK k \in S : \A j \in S : <<j, k>> \notin LessThan
  BY <1>1, WFMin
<1>3. \A j \in S : ~(j < k)
  BY <1>2 DEF LessThan
<1> QED
  BY <1>3

LEMMA GreatestNumber ==
    ASSUME NEW S \in SUBSET Nat, IsFiniteSet(S), S # {}
    PROVE  \E k \in S : \A j \in S : j <= k
<1> DEFINE Above(k) == {j \in S : k < j}
           Counts == {Cardinality(Above(k)) : k \in S}
<1>1. \A k \in S : IsFiniteSet(Above(k)) /\ Cardinality(Above(k)) \in Nat
  BY FS_Subset, FS_CardinalityType
<1>2. PICK n \in Counts : \A m \in Counts : n <= m
  <2>1. Counts \in SUBSET Nat /\ Counts # {}
    BY <1>1
  <2> HIDE DEF Counts
  <2> QED
    BY <2>1, LeastNumber
<1>3. PICK k \in S : n = Cardinality(Above(k))
  BY <1>2
<1>4. SUFFICES ASSUME NEW j \in S, k < j PROVE FALSE
  OBVIOUS
<1>5. Above(j) \in SUBSET Above(k) /\ j \in Above(k) /\ j \notin Above(j)
  <2>1. j \in Nat /\ k \in Nat /\ \A x \in S : x \in Nat
    OBVIOUS
  <2>2. \A x \in S : j < x => k < x
    BY <1>4, <2>1
  <2>3. ~(j < j)
    BY <2>1
  <2> QED
    BY <1>4, <2>2, <2>3
<1>6. Cardinality(Above(j)) <= Cardinality(Above(k)) /\ Cardinality(Above(k)) # Cardinality(Above(j))
  <2>1. IsFiniteSet(Above(k))
    BY <1>1
  <2> HIDE DEF Above
  <2> QED
    BY <1>5, <2>1, FS_Subset
<1>7. Cardinality(Above(k)) <= Cardinality(Above(j))
  BY <1>2, <1>3
<1> QED
  BY <1>1, <1>6, <1>7

-----------------------------------------------------------------------------
(***************************************************************************)
-----------------------------------------------------------------------------
(***************************************************************************)
(* Auto-scaling.                                                           *)
(***************************************************************************)
ScalingInv ==
    /\ size \in [ScaledPlans -> Nat] /\ taken \in [ScaledPlans -> Nat]
    /\ usable \in SUBSET ScaledPlans
    /\ scaler.pc = "add" => /\ scaler.plan \in ScaledPlans /\ scaler.counted \in Nat
                            /\ scaler.add \in Int /\ scaler.add <= MaxScaled - scaler.counted

LEMMA ScalingStart == ScalingInit => ScalingInv
  BY DEF ScalingInit, ScalingInv, ScalerIdle

LEMMA CurrentPlanIsOne ==
    ASSUME ScalingInv, usable # {}
    PROVE  CurrentPlan \in usable
<1>1. usable \in SUBSET Nat /\ IsFiniteSet(usable)
  BY ScalingAssumption, FS_Subset DEF ScalingInv
<1>2. \E p \in usable : \A q \in usable : q <= p
  BY <1>1, GreatestNumber
<1> QED
  BY <1>2 DEF CurrentPlan

LEMMA AdditionLimited ==
    ASSUME NEW p \in ScaledPlans, size \in [ScaledPlans -> Nat]
    PROVE  Addition(p) \in Int /\ Addition(p) <= MaxScaled - size[p]
<1>1. size[p] \in Nat /\ MaxScaled \in Nat /\ Increment \in Nat
  BY ScalingAssumption DEF Percentages
<1>2. (size[p] * Increment) \div 100 \in Int
  <2>1. size[p] * Increment \in Nat
    BY <1>1
  <2> QED
    BY <2>1
<1>3. \A a, b \in Int : Lesser(a, b) \in Int /\ Lesser(a, b) <= b
  BY DEF Lesser
<1> DEFINE more == (size[p] * Increment) \div 100
           room == MaxScaled - size[p]
<1>4. more \in Int /\ room \in Int /\ Addition(p) = Lesser(more, room)
  BY <1>1, <1>2 DEF Addition
<1> HIDE DEF more
<1>5. Lesser(more, room) \in Int /\ Lesser(more, room) <= room
  BY <1>3, <1>4
<1> QED
  BY <1>4, <1>5

LEMMA ScalingStep ==
    ASSUME ScalingInv, [ScalingNext]_scalingVars
    PROVE  ScalingInv'
<1>1. ASSUME NEW p \in ScaledPlans, NEW n \in 0..MaxPlanSize, SeatsTaken(p, n) \/ Resized(p, n)
      PROVE  ScalingInv'
  <2>1. n \in Nat
    BY ScalingAssumption
  <2>2. size' = size \/ size' = [size EXCEPT ![p] = n]
    BY <1>1 DEF SeatsTaken, Resized
  <2> QED
    BY <1>1, <2>1, <2>2 DEF SeatsTaken, Resized, ScalingInv
<1>2. ASSUME NEW p \in ScaledPlans, UsableChanges(p)
      PROVE  ScalingInv'
  BY <1>2 DEF UsableChanges, ScalingInv
<1>3. CASE ScalerChoose
  <2>1. CurrentPlan \in usable /\ CurrentPlan \in ScaledPlans
    BY <1>3, CurrentPlanIsOne DEF ScalerChoose, ScalingInv
  <2>2. Addition(CurrentPlan) \in Int /\ Addition(CurrentPlan) <= MaxScaled - size[CurrentPlan]
    BY <2>1, AdditionLimited DEF ScalingInv
  <2>3. scaler' = [pc |-> "add", plan |-> CurrentPlan, counted |-> size[CurrentPlan], add |-> Addition(CurrentPlan)]
        /\ UNCHANGED <<size, taken, usable>>
    BY <1>3 DEF ScalerChoose
  <2>4. size[CurrentPlan] \in Nat
    BY <2>1 DEF ScalingInv
  <2> QED
    BY <2>1, <2>2, <2>3, <2>4 DEF ScalingInv
<1>4. CASE ScalerAdd
  <2>1. size[scaler.plan] + (IF scaler.add > 0 THEN scaler.add ELSE 0) \in Nat
    BY <1>4 DEF ScalerAdd, ScalingInv
  <2> QED
    BY <1>4, <2>1 DEF ScalerAdd, ScalingInv, ScalerIdle
<1>5. CASE UNCHANGED scalingVars
  BY <1>5 DEF scalingVars, ScalingInv
<1> QED
  BY <1>1, <1>2, <1>3, <1>4, <1>5 DEF ScalingNext

(***************************************************************************)
(* The command never takes a plan above the limit that still has the       *)
(* licenses it counted, for any percentages and sizes.                     *)
(***************************************************************************)
LEMMA ScalingSafe == ScalingInit /\ [][ScalingNext]_scalingVars => HardLimitKept
<1> DEFINE Kept_ == scaler.pc = "add" /\ scaler'.pc = "idle" =>
         \A p \in ScaledPlans : size'[p] > size[p] /\ size[p] = scaler.counted =>
            size'[p] <= MaxScaled
<1>1. ScalingInv /\ [ScalingNext]_scalingVars => ScalingInv'
  BY ScalingStep
<1>2. ScalingInv /\ [ScalingNext]_scalingVars => [Kept_]_scalingVars
  <2> SUFFICES ASSUME ScalingInv, ScalingNext, scaler.pc = "add", scaler'.pc = "idle",
                      NEW p \in ScaledPlans, size'[p] > size[p], size[p] = scaler.counted
               PROVE  size'[p] <= MaxScaled
    OBVIOUS
  <2>1. ScalerAdd
    BY DEF ScalingNext, SeatsTaken, Resized, UsableChanges, ScalerChoose
  <2>2. size[p] \in Nat /\ scaler.add \in Int /\ scaler.add <= MaxScaled - size[p] /\ MaxScaled \in Nat
    BY ScalingAssumption DEF ScalingInv
  <2>3. size'[p] = size[p] \/ size'[p] = size[p] + scaler.add \/ size'[p] = size[p] + 0
    BY <2>1 DEF ScalerAdd, ScalingInv
  <2> QED
    BY <2>2, <2>3
<1> QED
  BY <1>1, <1>2, ScalingStart, PTL DEF HardLimitKept

-----------------------------------------------------------------------------
(***************************************************************************)
(* Transfer jobs.                                                          *)
(***************************************************************************)
Report == BOOLEAN \X SUBSET Movables

TransferRow == [exists : {TRUE}, dry : BOOLEAN, all : BOOLEAN, uuids : SUBSET Movables,
                completed : BOOLEAN, results : SUBSET Report]

Prediction == [all : BOOLEAN, uuids : SUBSET Movables, found : SUBSET Movables]

RunRow == [pc : {"idle", "move", "save"}, job : TJobs, row : TransferRow \union {NoTransfer},
           found : SUBSET Movables]

\* What an admin's process() knows of its job.
RunSound(r) ==
    /\ r.pc # "idle" => r.row \in TransferRow /\ tjob[r.job] \in TransferRow
    /\ OneAtATime /\ r.pc # "idle" => ~tjob[r.job].completed /\ r.row.results = tjob[r.job].results

\* The licenses that the results of real runs name.
Reported(j) == UNION {r[2] : r \in {x \in tjob[j].results : x[1] = FALSE}}

\* The licenses that a run has moved and has not yet reported.
Moving(j) == UNION {IF run[a].pc = "save" /\ run[a].job = j /\ ~run[a].row.dry THEN run[a].found ELSE {} : a \in Admins}

TransferInv ==
    /\ home \in [Movables -> {1, 2}] /\ deaths \in Nat
    /\ tjob \in [TJobs -> TransferRow \union {NoTransfer}]
    /\ movedBy \in [TJobs -> SUBSET Movables]
    /\ predicted \in [TJobs -> Prediction]
    /\ run \in [Admins -> RunRow] /\ \A a \in Admins : RunSound(run[a])
    /\ \A j \in TJobs : predicted[j].found = LicensesToTransfer(j, predicted[j])
    /\ \A j \in TJobs : ~tjob[j].exists => movedBy[j] = {}
    /\ deaths = 0 /\ OneAtATime =>
         \A j \in TJobs : tjob[j].exists => movedBy[j] \subseteq Reported(j) \union Moving(j)

LEMMA TransferStart == TransferInit => TransferInv
<1> SUFFICES ASSUME TransferInit PROVE TransferInv
  OBVIOUS
<1>1. /\ home \in [Movables -> {1, 2}] /\ deaths \in Nat
      /\ tjob \in [TJobs -> TransferRow \union {NoTransfer}]
      /\ movedBy \in [TJobs -> SUBSET Movables]
  BY DEF TransferInit
<1>2. Unknown \in Prediction /\ Unknown.all = FALSE /\ Unknown.uuids = {} /\ Unknown.found = {}
  BY DEF Unknown, Prediction
<1>3. \A j \in TJobs : predicted[j] = Unknown
  BY DEF TransferInit
<1>4. predicted \in [TJobs -> Prediction]
  BY <1>2, <1>3 DEF TransferInit
<1>5. \A j \in TJobs : predicted[j].found = LicensesToTransfer(j, predicted[j])
  BY <1>2, <1>3 DEF LicensesToTransfer
<1>6. RunIdle \in RunRow /\ RunIdle.pc = "idle"
  BY DEF RunIdle, RunRow, TJobs
<1>8. run \in [Admins -> RunRow] /\ \A a \in Admins : RunSound(run[a])
  BY <1>6 DEF TransferInit, RunSound
<1>7. \A j \in TJobs : movedBy[j] = {} /\ ~tjob[j].exists
  BY DEF TransferInit, NoTransfer
<1> QED
  BY <1>1, <1>4, <1>5, <1>7, <1>8 DEF TransferInv

\* The only admin there is.
LEMMA TheAdmin ==
    ASSUME OneAtATime, NEW a \in Admins, NEW b \in Admins
    PROVE  a = b
<1>1. IsFiniteSet(Admins) /\ Cardinality(Admins) = 1
  BY TransferAssumption DEF OneAtATime
<1>2. PICK x : Admins = {x}
  BY <1>1, FS_Singleton
<1> QED
  BY <1>2

LEMMA FormKeeps ==
    ASSUME TransferInv, NEW j \in TJobs, NEW dry \in BOOLEAN, NEW all \in BOOLEAN,
           NEW uuids \in SUBSET Movables, SaveTransferForm(j, dry, all, uuids)
    PROVE  TransferInv'
<1> DEFINE row == [exists |-> TRUE, dry |-> dry, all |-> all, uuids |-> uuids,
          completed |-> IF tjob[j].exists THEN tjob[j].completed ELSE FALSE,
          results |-> IF tjob[j].exists THEN tjob[j].results ELSE {}]
<1>1. /\ tjob' = [tjob EXCEPT ![j] = row]
      /\ tjob[j].exists => ~tjob[j].completed
      /\ UNCHANGED <<home, lstatus, run, movedBy, predicted, deaths>>
  BY DEF SaveTransferForm
<1>2. row \in TransferRow /\ (tjob[j].exists => tjob[j] \in TransferRow)
      /\ (tjob[j] \in TransferRow => tjob[j].exists)
  <2>1. tjob[j] \in TransferRow \/ tjob[j] = NoTransfer
    BY DEF TransferInv
  <2>2. NoTransfer.exists = FALSE
    BY DEF NoTransfer
  <2>3. \A r \in TransferRow : r.exists = TRUE /\ r.completed \in BOOLEAN /\ r.results \in SUBSET Report
    BY DEF TransferRow
  <2>4. \A c \in BOOLEAN, x \in SUBSET Report :
          [exists |-> TRUE, dry |-> dry, all |-> all, uuids |-> uuids, completed |-> c, results |-> x] \in TransferRow
    BY DEF TransferRow
  <2>5. /\ (IF tjob[j].exists THEN tjob[j].completed ELSE FALSE) \in BOOLEAN
        /\ (IF tjob[j].exists THEN tjob[j].results ELSE {}) \in SUBSET Report
    BY <2>1, <2>2, <2>3
  <2> QED
    BY <2>1, <2>2, <2>3, <2>4, <2>5
<1>3. ~row.completed /\ row.exists /\ (tjob[j].exists => row.results = tjob[j].results)
  <2>1. row.completed = (IF tjob[j].exists THEN tjob[j].completed ELSE FALSE)
    OBVIOUS
  <2>2. row.results = (IF tjob[j].exists THEN tjob[j].results ELSE {})
    OBVIOUS
  <2>3. row.exists = TRUE
    OBVIOUS
  <2> HIDE DEF row
  <2>4. CASE tjob[j].exists
    <3>1. row.completed = tjob[j].completed /\ row.results = tjob[j].results
      BY <2>1, <2>2, <2>4
    <3> QED
      BY <1>1, <2>3, <2>4, <3>1
  <2>5. CASE ~tjob[j].exists
    <3>1. row.completed = FALSE
      BY <2>1, <2>5
    <3> QED
      BY <2>3, <2>5, <3>1
  <2> QED
    BY <2>4, <2>5
<1> HIDE DEF row
<1>4. tjob' \in [TJobs -> TransferRow \union {NoTransfer}] /\ tjob'[j] = row
      /\ \A i \in TJobs : i # j => tjob'[i] = tjob[i]
  <2>1. tjob \in [TJobs -> TransferRow \union {NoTransfer}]
    BY DEF TransferInv
  <2>2. row \in TransferRow \union {NoTransfer} /\ tjob' = [tjob EXCEPT ![j] = row]
    BY <1>1, <1>2
  <2> QED
    BY <2>1, <2>2
<1>5. ASSUME NEW a \in Admins
      PROVE  RunSound(run[a])'
  BY <1>1, <1>2, <1>3, <1>4 DEF TransferInv, RunSound
<1>6. \A i \in TJobs : predicted'[i].found = LicensesToTransfer(i, predicted[i])'
  BY <1>1 DEF TransferInv, LicensesToTransfer
<1>7. ASSUME deaths = 0, OneAtATime, NEW i \in TJobs, tjob'[i].exists
      PROVE  movedBy'[i] \subseteq Reported(i)' \union Moving(i)'
  <2>1. Moving(i)' = Moving(i)
    BY <1>1 DEF Moving
  <2>2. CASE tjob[i].exists
    <3>1. tjob'[i].results = tjob[i].results
      BY <1>3, <1>4, <2>2
    <3> QED
      BY <1>1, <1>7, <2>1, <2>2, <3>1 DEF TransferInv, Reported
  <2>3. CASE ~tjob[i].exists
    BY <1>1, <2>3 DEF TransferInv
  <2> QED
    BY <2>2, <2>3
<1> QED
  BY <1>1, <1>3, <1>4, <1>5, <1>6, <1>7 DEF TransferInv

LEMMA LicenseChangeKeeps ==
    ASSUME TransferInv, NEW l \in Movables, TransferableChanges(l)
    PROVE  TransferInv'
<1>1. predicted' = [j \in TJobs |-> Unknown] /\ UNCHANGED <<home, tjob, run, movedBy, deaths>>
  BY DEF TransferableChanges, Forgotten
<1>2. Unknown \in Prediction /\ Unknown.all = FALSE /\ Unknown.uuids = {} /\ Unknown.found = {}
  BY DEF Unknown, Prediction
<1>3. \A j \in TJobs : predicted'[j].found = LicensesToTransfer(j, predicted[j])'
  BY <1>1, <1>2 DEF LicensesToTransfer
<1> QED
  BY <1>1, <1>2, <1>3 DEF TransferInv, RunSound, Reported, Moving

LEMMA TransferReadKeeps ==
    ASSUME TransferInv, NEW a \in Admins, NEW j \in TJobs, TransferRead(a, j)
    PROVE  TransferInv'
<1> DEFINE r == [pc |-> "move", job |-> j, row |-> tjob[j], found |-> {}]
<1>1. /\ run[a].pc = "idle" /\ tjob[j].exists /\ ~tjob[j].completed
      /\ run' = [run EXCEPT ![a] = r]
      /\ UNCHANGED <<home, lstatus, tjob, movedBy, predicted, edits, deaths>>
  BY DEF TransferRead
<1>2. tjob[j] \in TransferRow
  BY <1>1 DEF TransferInv, NoTransfer
<1>3. r \in RunRow /\ r.pc = "move" /\ r.job = j /\ r.row = tjob[j] /\ r.found = {}
  BY <1>2 DEF RunRow
<1> HIDE DEF r
<1>4. run' \in [Admins -> RunRow] /\ run'[a] = r /\ \A b \in Admins : b # a => run'[b] = run[b]
  BY <1>1, <1>3 DEF TransferInv
<1>5. \A b \in Admins : RunSound(run[b])'
  BY <1>1, <1>2, <1>3, <1>4 DEF TransferInv, RunSound
<1>6. \A i \in TJobs : predicted'[i].found = LicensesToTransfer(i, predicted[i])'
  BY <1>1 DEF TransferInv, LicensesToTransfer
<1>7. \A i \in TJobs : Moving(i)' = Moving(i) /\ Reported(i)' = Reported(i)
  <2>1. \A b \in Admins : run'[b].pc = "save" \/ run[b].pc = "save" => run'[b] = run[b]
    BY <1>1, <1>3, <1>4
  <2> QED
    BY <1>1, <2>1 DEF Moving, Reported
<1> QED
  BY <1>1, <1>4, <1>5, <1>6, <1>7 DEF TransferInv

LEMMA TransferCrashKeeps ==
    ASSUME TransferInv, NEW a \in Admins, TransferCrash(a)
    PROVE  TransferInv'
<1>1. /\ deaths' = deaths + 1 /\ run' = [run EXCEPT ![a] = RunIdle]
      /\ UNCHANGED <<home, lstatus, tjob, movedBy, predicted, edits>>
  BY DEF TransferCrash
<1>2. RunIdle \in RunRow /\ RunIdle.pc = "idle"
  BY DEF RunIdle, RunRow, TJobs
<1>3. run' \in [Admins -> RunRow] /\ run'[a] = RunIdle /\ \A b \in Admins : b # a => run'[b] = run[b]
  BY <1>1, <1>2 DEF TransferInv
<1>4. \A b \in Admins : RunSound(run[b])'
  BY <1>1, <1>2, <1>3 DEF TransferInv, RunSound
<1>5. \A i \in TJobs : predicted'[i].found = LicensesToTransfer(i, predicted[i])'
  BY <1>1 DEF TransferInv, LicensesToTransfer
<1>6. deaths' \in Nat /\ deaths' # 0
  BY <1>1 DEF TransferInv
<1> QED
  BY <1>1, <1>3, <1>4, <1>5, <1>6 DEF TransferInv


LEMMA RunMoves ==
    ASSUME TransferInv, NEW a \in Admins, NEW found \in SUBSET Movables, run[a].pc = "move",
           run' = [run EXCEPT ![a].pc = "save", ![a].found = found]
    PROVE  /\ run' \in [Admins -> RunRow] /\ \A b \in Admins : b # a => run'[b] = run[b]
           /\ run'[a].pc = "save" /\ run'[a].found = found
           /\ run'[a].job = run[a].job /\ run'[a].row = run[a].row
<1>1. \A r \in RunRow : LET s == [r EXCEPT !.pc = "save", !.found = found]
                        IN  /\ s \in RunRow /\ s.pc = "save" /\ s.found = found
                            /\ s.job = r.job /\ s.row = r.row
  BY DEF RunRow
<1> DEFINE moved == [run[a] EXCEPT !.pc = "save", !.found = found]
<1>2. run' = [run EXCEPT ![a] = moved] /\ run \in [Admins -> RunRow]
  BY DEF TransferInv
<1>3. /\ moved \in RunRow /\ moved.pc = "save" /\ moved.found = found
      /\ moved.job = run[a].job /\ moved.row = run[a].row
  BY <1>1, <1>2
<1> HIDE DEF moved
<1> QED
  BY <1>2, <1>3

LEMMA TransferMoveKeeps ==
    ASSUME TransferInv, NEW a \in Admins, TransferMove(a)
    PROVE  TransferInv'
<1> DEFINE j == run[a].job
           row == run[a].row
           found == LicensesToTransfer(j, row)
<1>1. /\ run[a].pc = "move"
      /\ run' = [run EXCEPT ![a].pc = "save", ![a].found = found]
      /\ home' = [l \in Movables |-> IF l \in found /\ ~row.dry THEN NewPlan(j) ELSE home[l]]
      /\ movedBy' = [movedBy EXCEPT ![j] = IF row.dry THEN movedBy[j] ELSE movedBy[j] \union found]
      /\ predicted' = IF row.dry THEN [predicted EXCEPT ![j] = [all |-> row.all, uuids |-> row.uuids, found |-> found]]
                      ELSE [i \in TJobs |-> Unknown]
      /\ UNCHANGED <<lstatus, tjob, edits, deaths>>
  BY DEF TransferMove
<1>2. /\ found \in SUBSET Movables /\ j \in TJobs /\ row \in TransferRow
      /\ tjob[j] \in TransferRow /\ row.dry \in BOOLEAN /\ tjob[j].exists = TRUE
  BY <1>1 DEF TransferInv, RunSound, RunRow, LicensesToTransfer, TransferRow
<1>3. /\ run' \in [Admins -> RunRow] /\ \A b \in Admins : b # a => run'[b] = run[b]
      /\ run'[a].pc = "save" /\ run'[a].found = found
      /\ run'[a].job = j /\ run'[a].row = row
  BY <1>1, <1>2, RunMoves
<1>4. \A b \in Admins : RunSound(run[b])'
  BY <1>1, <1>3 DEF TransferInv, RunSound
<1>5. home' \in [Movables -> {1, 2}] /\ (row.dry => home' = home)
  BY <1>1, <1>2 DEF TransferInv, NewPlan, OldPlan
<1>6. movedBy' \in [TJobs -> SUBSET Movables]
      /\ \A i \in TJobs : movedBy'[i] \subseteq movedBy[i] \union (IF i = j /\ ~row.dry THEN found ELSE {})
  BY <1>1, <1>2 DEF TransferInv
<1>7. predicted' \in [TJobs -> Prediction]
      /\ \A i \in TJobs : predicted'[i].found = LicensesToTransfer(i, predicted[i])'
  <2>1. CASE row.dry
    <3> DEFINE p == [all |-> row.all, uuids |-> row.uuids, found |-> found]
    <3>1. p \in Prediction /\ p.all = row.all /\ p.uuids = row.uuids /\ p.found = found
      BY <1>2 DEF Prediction, TransferRow
    <3>2. found = LicensesToTransfer(j, p)
      BY <3>1 DEF LicensesToTransfer
    <3> HIDE DEF p
    <3>3. predicted' = [predicted EXCEPT ![j] = p] /\ predicted \in [TJobs -> Prediction]
      BY <1>1, <2>1 DEF TransferInv, p
    <3>4. \A i \in TJobs : predicted'[i].found = LicensesToTransfer(i, predicted'[i])
      BY <1>2, <3>1, <3>2, <3>3 DEF TransferInv
    <3> QED
      BY <1>1, <1>5, <2>1, <3>1, <3>3, <3>4 DEF LicensesToTransfer
  <2>2. CASE ~row.dry
    <3>1. Unknown \in Prediction /\ Unknown.all = FALSE /\ Unknown.uuids = {} /\ Unknown.found = {}
      BY DEF Unknown, Prediction
    <3> QED
      BY <1>1, <2>2, <3>1 DEF LicensesToTransfer
  <2> QED
    BY <2>1, <2>2
<1>8. \A i \in TJobs : ~tjob'[i].exists => movedBy'[i] = {}
  BY <1>1, <1>2 DEF TransferInv
<1>9. ASSUME deaths = 0, OneAtATime, NEW i \in TJobs, tjob[i].exists
      PROVE  movedBy'[i] \subseteq Reported(i)' \union Moving(i)'
  <2>1. movedBy[i] \subseteq Reported(i) \union Moving(i) /\ Reported(i)' = Reported(i)
    BY <1>1, <1>9 DEF TransferInv, Reported
  <2>2. \A b \in Admins : b = a
    BY <1>9, TheAdmin
  <2>3. Moving(i) = {}
    BY <1>1, <2>2 DEF Moving
  <2>4. i = j /\ ~row.dry => found \subseteq Moving(i)'
    BY <1>3 DEF Moving
  <2> QED
    BY <1>6, <2>1, <2>3, <2>4
<1> HIDE DEF found, j, row
<1> QED
  BY <1>1, <1>3, <1>4, <1>5, <1>6, <1>7, <1>8, <1>9 DEF TransferInv

LEMMA TransferSaveKeeps ==
    ASSUME TransferInv, NEW a \in Admins, TransferSave(a)
    PROVE  TransferInv'
<1> DEFINE j == run[a].job
           row == run[a].row
           found == run[a].found
           saved == [row EXCEPT !.completed = ~row.dry, !.results = row.results \union {<<row.dry, found>>}]
<1>1. /\ run[a].pc = "save"
      /\ tjob' = [tjob EXCEPT ![j] = saved]
      /\ run' = [run EXCEPT ![a] = RunIdle]
      /\ UNCHANGED <<home, lstatus, movedBy, predicted, edits, deaths>>
  BY DEF TransferSave
<1>2. j \in TJobs /\ row \in TransferRow /\ tjob[j] \in TransferRow /\ found \in SUBSET Movables
  BY <1>1 DEF TransferInv, RunSound, RunRow
<1>3. row.dry \in BOOLEAN /\ row.results \in SUBSET Report /\ tjob[j].exists = TRUE
  BY <1>2 DEF TransferRow
<1>4. /\ saved \in TransferRow /\ saved.results = row.results \union {<<row.dry, found>>}
      /\ saved.exists = TRUE
  <2>1. \A r \in TransferRow : \A c \in BOOLEAN, x \in SUBSET Report :
          LET s == [r EXCEPT !.completed = c, !.results = x]
          IN  s \in TransferRow /\ s.results = x /\ s.exists = TRUE
    BY DEF TransferRow
  <2>2. \A x \in SUBSET Report :
          LET s == [row EXCEPT !.completed = TRUE, !.results = x]
          IN  s \in TransferRow /\ s.results = x /\ s.exists = TRUE
    BY <1>2, <2>1
  <2>3. \A x \in SUBSET Report :
          LET s == [row EXCEPT !.completed = FALSE, !.results = x]
          IN  s \in TransferRow /\ s.results = x /\ s.exists = TRUE
    BY <1>2, <2>1
  <2>4. \A x \in SUBSET Report :
          LET s == [row EXCEPT !.completed = ~row.dry, !.results = x]
          IN  s \in TransferRow /\ s.results = x /\ s.exists = TRUE
    <3>1. CASE row.dry = TRUE
      <4>1. (~row.dry) = FALSE
        BY <3>1
      <4> QED
        BY <2>3, <4>1
    <3>2. CASE row.dry = FALSE
      <4>1. (~row.dry) = TRUE
        BY <3>2
      <4> QED
        BY <2>2, <4>1
    <3> QED
      BY <1>3, <3>1, <3>2
  <2>5. <<row.dry, found>> \in Report
    BY <1>2, <1>3 DEF Report
  <2>6. row.results \union {<<row.dry, found>>} \in SUBSET Report /\ (~row.dry) \in BOOLEAN
    BY <1>3, <2>5
  <2> QED
    BY <2>4, <2>6, Zenon
<1>5. RunIdle \in RunRow /\ RunIdle.pc = "idle"
  BY DEF RunIdle, RunRow, TJobs
<1>6. run' \in [Admins -> RunRow] /\ run'[a] = RunIdle /\ \A b \in Admins : b # a => run'[b] = run[b]
  BY <1>1, <1>5 DEF TransferInv
<1> HIDE DEF saved
<1>7. tjob' \in [TJobs -> TransferRow \union {NoTransfer}] /\ tjob'[j] = saved
      /\ \A i \in TJobs : i # j => tjob'[i] = tjob[i]
  <2>1. tjob \in [TJobs -> TransferRow \union {NoTransfer}]
    BY DEF TransferInv
  <2> HIDE DEF j
  <2> QED
    BY <1>1, <1>2, <1>4, <2>1
<1>8. \A b \in Admins : RunSound(run[b])'
  <2> SUFFICES ASSUME NEW b \in Admins PROVE RunSound(run[b])'
    OBVIOUS
  <2>1. CASE b = a
    BY <1>5, <1>6, <2>1 DEF RunSound
  <2>2. CASE b # a
    <3>1. ~OneAtATime /\ run'[b] = run[b] /\ RunSound(run[b])
      BY <1>6, <2>2, TheAdmin DEF TransferInv
    <3> QED
      BY <1>2, <1>4, <1>7, <3>1 DEF RunSound, TransferInv, RunRow
  <2> QED
    BY <2>1, <2>2
<1>9. \A i \in TJobs : predicted'[i].found = LicensesToTransfer(i, predicted[i])'
  BY <1>1 DEF TransferInv, LicensesToTransfer
<1>10. \A i \in TJobs : ~tjob'[i].exists => movedBy'[i] = {}
  BY <1>1, <1>4, <1>7 DEF TransferInv
<1>11. ASSUME deaths = 0, OneAtATime, NEW i \in TJobs, tjob'[i].exists
       PROVE  movedBy'[i] \subseteq Reported(i)' \union Moving(i)'
  <2>1. \A b \in Admins : b = a
    BY <1>11, TheAdmin
  <2>2. movedBy[i] \subseteq Reported(i) \union Moving(i)
    BY <1>3, <1>7, <1>11 DEF TransferInv
  <2>3. CASE i = j
    <3>1. row.results = tjob[j].results
      BY <1>1, <1>11 DEF TransferInv, RunSound
    <3>2. Reported(i) \subseteq Reported(i)'
      BY <1>4, <1>7, <2>3, <3>1 DEF Reported
    <3>3. Moving(i) = IF row.dry THEN {} ELSE found
      BY <1>1, <2>1, <2>3 DEF Moving
    <3>4. ~row.dry => found \subseteq Reported(i)'
      <4>1. SUFFICES ASSUME ~row.dry PROVE found \subseteq Reported(i)'
        OBVIOUS
      <4>2. <<FALSE, found>> \in tjob'[i].results
        BY <1>3, <1>4, <1>7, <2>3, <4>1
      <4>3. <<FALSE, found>>[1] = FALSE /\ <<FALSE, found>>[2] = found
        OBVIOUS
      <4> HIDE DEF found
      <4> QED
        BY <4>2, <4>3 DEF Reported
    <3> QED
      BY <1>1, <2>2, <3>2, <3>3, <3>4
  <2>4. CASE i # j
    <3>1. Moving(i) = {}
      BY <2>1, <2>4 DEF Moving
    <3>2. Reported(i)' = Reported(i)
      BY <1>7, <2>4 DEF Reported
    <3> QED
      BY <1>1, <2>2, <3>1, <3>2
  <2> QED
    BY <2>3, <2>4
<1> HIDE DEF j, row, found
<1> QED
  BY <1>1, <1>6, <1>7, <1>8, <1>9, <1>10, <1>11 DEF TransferInv


LEMMA TransferStep ==
    ASSUME TransferInv, [TransferNext]_transferVars
    PROVE  TransferInv'
<1>1. CASE UNCHANGED transferVars
  <2>1. UNCHANGED <<home, lstatus, tjob, run, movedBy, predicted, edits, deaths>>
    BY <1>1 DEF transferVars
  <2> QED
    BY <2>1 DEF TransferInv, RunSound, LicensesToTransfer, Reported, Moving
<1> QED
  BY <1>1, FormKeeps, LicenseChangeKeeps, TransferReadKeeps, TransferMoveKeeps, TransferSaveKeeps,
     TransferCrashKeeps DEF TransferNext

(***************************************************************************)
(* While no worker dies and admins run jobs one at a time, every license   *)
(* that a job has moved is in the results of its real runs.                *)
(***************************************************************************)
LEMMA TransfersReported == TransferInit /\ [][TransferNext]_transferVars => []MovesReported
<1>1. TransferInv /\ [TransferNext]_transferVars => TransferInv'
  BY TransferStep
<1>2. TransferInv => MovesReported
  <2> SUFFICES ASSUME TransferInv, deaths = 0, OneAtATime, NEW j \in TJobs, tjob[j].exists,
                      \A a \in Admins : run[a].pc # "save"
               PROVE  movedBy[j] \subseteq Reported(j)
    BY DEF MovesReported, Reported
  <2>1. Moving(j) = {}
    BY DEF Moving
  <2> QED
    BY <2>1 DEF TransferInv
<1> QED
  BY <1>1, <1>2, TransferStart, PTL

(***************************************************************************)
(* A completed job moves nothing when admins run jobs one at a time; a     *)
(* real run finds what the dry run before it has found, as long as neither *)
(* the licenses nor the selection change, for any number of admins.        *)
(***************************************************************************)
LEMMA TransfersSafe == TransferInit /\ [][TransferNext]_transferVars => TransfersFinal
<1> DEFINE Final == OneAtATime =>
         \A j \in TJobs : tjob[j].exists /\ tjob[j].completed =>
            \A l \in Movables : home[l] = OldPlan(j) => home'[l] = OldPlan(j)
           Predicts == \A a \in Admins :
         LET dryRun == predicted[run[a].job]
         IN  run[a].pc = "move" /\ run'[a].pc = "save" /\ ~run[a].row.dry
               /\ dryRun.all = run[a].row.all /\ dryRun.uuids = run[a].row.uuids =>
                  run'[a].found = dryRun.found
<1>1. TransferInv /\ [TransferNext]_transferVars => TransferInv'
  BY TransferStep
<1>2. TransferInv /\ [TransferNext]_transferVars => [Final]_transferVars
  <2> SUFFICES ASSUME TransferInv, TransferNext, OneAtATime, NEW j \in TJobs,
                      tjob[j].exists, tjob[j].completed, NEW l \in Movables, home[l] = OldPlan(j)
               PROVE  home'[l] = OldPlan(j)
    OBVIOUS
  <2>1. ASSUME NEW a \in Admins, TransferMove(a)
        PROVE  home'[l] = OldPlan(j)
    <3>1. run[a].pc = "move" /\ run[a].job \in TJobs /\ run[a].job # j
      BY <2>1 DEF TransferMove, TransferInv, RunSound, RunRow
    <3>2. OldPlan(run[a].job) # OldPlan(j)
      BY <3>1 DEF OldPlan, TJobs
    <3>3. l \notin LicensesToTransfer(run[a].job, run[a].row)
      BY <3>2 DEF LicensesToTransfer
    <3> QED
      BY <2>1, <3>3 DEF TransferMove
  <2>2. ~(\E a \in Admins : TransferMove(a)) => home' = home
    BY DEF TransferNext, SaveTransferForm, TransferableChanges, TransferRead, TransferSave, TransferCrash
  <2> QED
    BY <2>1, <2>2
<1>3. TransferInv /\ [TransferNext]_transferVars => [Predicts]_transferVars
  <2> SUFFICES ASSUME TransferInv, TransferNext, NEW a \in Admins,
                      run[a].pc = "move", run'[a].pc = "save", ~run[a].row.dry,
                      predicted[run[a].job].all = run[a].row.all,
                      predicted[run[a].job].uuids = run[a].row.uuids
               PROVE  run'[a].found = predicted[run[a].job].found
    OBVIOUS
  <2>1. ASSUME NEW b \in Admins, TransferMove(b)
        PROVE  b = a
    <3>1. LicensesToTransfer(run[b].job, run[b].row) \in SUBSET Movables
      BY DEF LicensesToTransfer
    <3> QED
      BY <2>1, <3>1, RunMoves DEF TransferMove
  <2>2. ~(\E b \in Admins : TransferMove(b)) => run'[a].pc # "save"
    <3>1. RunIdle.pc = "idle"
      BY DEF RunIdle
    <3>2. ASSUME NEW b \in Admins, TransferSave(b) \/ TransferCrash(b)
          PROVE  run'[a].pc # "save"
      BY <3>1, <3>2 DEF TransferSave, TransferCrash, TransferInv
    <3>3. ASSUME NEW b \in Admins, NEW j \in TJobs, TransferRead(b, j)
          PROVE  run'[a].pc # "save"
      BY <3>3 DEF TransferRead, TransferInv
    <3> QED
      BY <3>2, <3>3 DEF TransferNext, SaveTransferForm, TransferableChanges
  <2>3. TransferMove(a)
    BY <2>1, <2>2
  <2>4. run'[a].found = LicensesToTransfer(run[a].job, run[a].row)
    <3>1. LicensesToTransfer(run[a].job, run[a].row) \in SUBSET Movables
      BY DEF LicensesToTransfer
    <3> QED
      BY <2>3, <3>1, RunMoves DEF TransferMove
  <2>5. run[a].job \in TJobs
    BY DEF TransferInv, RunRow
  <2> QED
    BY <2>4, <2>5 DEF TransferInv, LicensesToTransfer
<1> QED
  BY <1>1, <1>2, <1>3, TransferStart, PTL DEF TransfersFinal, CompletedJobIsFinal, DryRunPredicts

-----------------------------------------------------------------------------
(***************************************************************************)
(* Renewals: their dates, and the chains they form.                        *)
(***************************************************************************)
PlanOrNone == RPlans \union {NoPlan}

RenewalRow == [prior : PlanOrNone, renewed : PlanOrNone, effective : Nat, expires : Nat,
               processed : BOOLEAN]

\* A row that is, or may yet be, in the table: its dates are ordered, and its plans exist.
RowSound(r) ==
    /\ r \in RenewalRow
    /\ r.effective <= r.expires /\ r.expires > 0
    /\ r.prior \in Known /\ r.renewed \in Known \union {NoPlan}

RenewalAdminInv ==
    /\ planDates \in [RPlans -> [start : Nat, expires : Nat]]
    /\ \A p \in Known : planDates[p].expires > 0
    /\ DOMAIN renewals = RIds
    /\ \A i \in RIds : renewals[i] = NoRenewal \/ RowSound(renewals[i])
    /\ \A i \in RIds : Exists(i) => UniquePlans(i, renewals[i])
    /\ DOMAIN rreq = Workers
    /\ \A w \in Workers : \/ rreq[w].pc = "idle"
                          \/ rreq[w].pc = "insert" /\ RowSound(rreq[w].row)
                          \/ rreq[w].pc = "update" /\ RowSound(rreq[w].row) /\ rreq[w].id \in RIds

LEMMA NoRenewalRow == /\ NoRenewal \in RenewalRow /\ NoRenewal.prior = NoPlan /\ NoRenewal.renewed = NoPlan
                      /\ NoRenewal.effective = 0 /\ NoRenewal.expires = 0
BY DEF NoRenewal, RenewalRow, PlanOrNone

LEMMA SomePlan == NoPlan \notin Known /\ Known \in SUBSET RPlans
BY RenewalAdminAssumption DEF Known

LEMMA RenewalAdminStart == RenewalAdminInit => RenewalAdminInv
<1> SUFFICES ASSUME RenewalAdminInit PROVE RenewalAdminInv
  OBVIOUS
<1>1. /\ [start |-> 0, expires |-> 1] \in [start : Nat, expires : Nat]
      /\ NoDates \in [start : Nat, expires : Nat]
  BY DEF NoDates
<1>2. planDates \in [RPlans -> [start : Nat, expires : Nat]]
  BY <1>1 DEF RenewalAdminInit
<1>3. \A p \in RPlans : planDates[p] = [start |-> 0, expires |-> 1] \/ planDates[p] = NoDates
  BY DEF RenewalAdminInit
<1>4. \A p \in Known : planDates[p].expires > 0
  BY <1>3 DEF Known
<1>5. \A i \in RIds : renewals[i] = NoRenewal /\ ~Exists(i)
  BY NoRenewalRow DEF RenewalAdminInit, Exists
<1> QED
  BY <1>2, <1>4, <1>5 DEF RenewalAdminInit, RenewalAdminInv, RIdle

\* What is read of a renewal that exists.
LEMMA ExistingRow ==
    ASSUME RenewalAdminInv, NEW i \in RIds, Exists(i)
    PROVE  RowSound(renewals[i])
BY NoRenewalRow DEF RenewalAdminInv, Exists

\* Plans come and never go.
LEMMA RowsStaySound ==
    ASSUME Known \subseteq Known', NEW j \in RIds, RowSound(renewals[j]), renewals'[j] = renewals[j]
    PROVE  RowSound(renewals[j])'
BY DEF RowSound

LEMMA RequestsStaySound ==
    ASSUME RenewalAdminInv, Known \subseteq Known', UNCHANGED rreq
    PROVE  \A w \in Workers : \/ rreq'[w].pc = "idle"
                              \/ rreq'[w].pc = "insert" /\ RowSound(rreq[w].row)'
                              \/ rreq'[w].pc = "update" /\ RowSound(rreq[w].row)' /\ rreq'[w].id \in RIds
<1> SUFFICES ASSUME NEW w \in Workers
             PROVE  \/ rreq'[w].pc = "idle"
                    \/ rreq'[w].pc = "insert" /\ RowSound(rreq[w].row)'
                    \/ rreq'[w].pc = "update" /\ RowSound(rreq[w].row)' /\ rreq'[w].id \in RIds
  OBVIOUS
<1>1. ASSUME RowSound(rreq[w].row)
      PROVE  RowSound(rreq[w].row)'
  BY <1>1 DEF RowSound
<1>2. \/ rreq[w].pc = "idle"
      \/ rreq[w].pc = "insert" /\ RowSound(rreq[w].row)
      \/ rreq[w].pc = "update" /\ RowSound(rreq[w].row) /\ rreq[w].id \in RIds
  BY DEF RenewalAdminInv
<1> QED
  BY <1>1, <1>2

\* A row that passed its checks is written.
LEMMA WriteKeeps ==
    ASSUME RenewalAdminInv, NEW i \in RIds, NEW row, RowSound(row), UniquePlans(i, row),
           renewals' = [renewals EXCEPT ![i] = row], UNCHANGED planDates
    PROVE  /\ DOMAIN renewals' = RIds
           /\ \A j \in RIds : renewals'[j] = NoRenewal \/ RowSound(renewals[j])'
           /\ \A j \in RIds : Exists(j)' => UniquePlans(j, renewals[j])'
<1>1. DOMAIN renewals' = RIds /\ renewals'[i] = row /\ \A j \in RIds : j # i => renewals'[j] = renewals[j]
  BY DEF RenewalAdminInv
<1>2. Known' = Known
  BY DEF Known
<1>3. \A j \in RIds : renewals'[j] = NoRenewal \/ RowSound(renewals[j])'
  BY <1>1, <1>2 DEF RenewalAdminInv, RowSound
<1>4. ASSUME NEW j \in RIds, Exists(j)'
      PROVE  UniquePlans(j, renewals[j])'
  <2>1. CASE j = i
    BY <1>1, <1>4, <2>1 DEF UniquePlans, Exists
  <2>2. CASE j # i
    BY <1>1, <1>4, <2>2 DEF UniquePlans, Exists, RenewalAdminInv
  <2> QED
    BY <2>1, <2>2
<1> QED
  BY <1>1, <1>3, <1>4

LEMMA NothingWritten ==
    ASSUME RenewalAdminInv, UNCHANGED <<renewals, planDates>>
    PROVE  /\ DOMAIN renewals' = RIds
           /\ \A j \in RIds : renewals'[j] = NoRenewal \/ RowSound(renewals[j])'
           /\ \A j \in RIds : Exists(j)' => UniquePlans(j, renewals[j])'
<1>1. Known' = Known
  BY DEF Known
<1> QED
  BY <1>1 DEF RenewalAdminInv, RowSound, UniquePlans, Exists

LEMMA CreateCheckKeeps ==
    ASSUME RenewalAdminInv, NEW w \in Workers, NEW p \in Known, NEW q \in Known \union {NoPlan},
           NEW d \in Dates, NEW e \in Dates, CreateCheck(w, p, q, d, e)
    PROVE  RenewalAdminInv'
<1> DEFINE row == [prior |-> p, renewed |-> q, effective |-> d, expires |-> e, processed |-> FALSE]
           r == [pc |-> "insert", id |-> 0, row |-> row]
<1>1. /\ rreq' = [rreq EXCEPT ![w] = r] /\ ValidDates(row) /\ UNCHANGED <<planDates, renewals>>
  BY DEF CreateCheck
<1>2. d \in Nat /\ e \in Nat
  BY RenewalAdminAssumption DEF Dates
<1>3. row \in RenewalRow /\ row.effective = d /\ row.expires = e /\ row.prior = p /\ row.renewed = q
  BY <1>2, SomePlan DEF RenewalRow, PlanOrNone
<1>4. d < e
  BY <1>1, <1>3 DEF ValidDates
<1> HIDE DEF row
<1>5. RowSound(row)
  BY <1>2, <1>3, <1>4 DEF RowSound
<1>6. r.pc = "insert" /\ r.row = row
  OBVIOUS
<1> HIDE DEF r
<1>7. DOMAIN rreq' = Workers /\ rreq'[w] = r /\ \A v \in Workers : v # w => rreq'[v] = rreq[v]
  BY <1>1 DEF RenewalAdminInv
<1>8. Known' = Known
  BY <1>1 DEF Known
<1> QED
  BY <1>1, <1>5, <1>6, <1>7, <1>8 DEF RenewalAdminInv, RowSound, UniquePlans, Exists

LEMMA WorkerIdle ==
    ASSUME RenewalAdminInv, NEW w \in Workers, rreq' = [rreq EXCEPT ![w] = RIdle], UNCHANGED planDates
    PROVE  /\ DOMAIN rreq' = Workers
           /\ \A v \in Workers : \/ rreq'[v].pc = "idle"
                                 \/ rreq'[v].pc = "insert" /\ RowSound(rreq[v].row)'
                                 \/ rreq'[v].pc = "update" /\ RowSound(rreq[v].row)' /\ rreq'[v].id \in RIds
<1>1. RIdle.pc = "idle"
  BY DEF RIdle
<1>2. DOMAIN rreq' = Workers /\ rreq'[w] = RIdle /\ \A v \in Workers : v # w => rreq'[v] = rreq[v]
  BY DEF RenewalAdminInv
<1>3. Known' = Known
  BY DEF Known
<1> QED
  BY <1>1, <1>2, <1>3 DEF RenewalAdminInv, RowSound

LEMMA CreateInsertKeeps ==
    ASSUME RenewalAdminInv, NEW w \in Workers, CreateInsert(w)
    PROVE  RenewalAdminInv'
<1> DEFINE row == rreq[w].row
<1>1. PICK i \in RIds : renewals' = IF UniquePlans(i, row) THEN [renewals EXCEPT ![i] = row] ELSE renewals
  BY DEF CreateInsert
<1>2. rreq[w].pc = "insert" /\ rreq' = [rreq EXCEPT ![w] = RIdle] /\ UNCHANGED planDates
  BY DEF CreateInsert
<1>3. RowSound(row)
  BY <1>2 DEF RenewalAdminInv
<1> HIDE DEF row
<1>4. Known' = Known
  BY <1>2 DEF Known
<1>5. CASE UniquePlans(i, row)
  <2>1. renewals' = [renewals EXCEPT ![i] = row]
    BY <1>1, <1>5
  <2> QED
    BY <1>2, <1>3, <1>4, <1>5, <2>1, WriteKeeps, WorkerIdle DEF RenewalAdminInv
<1>6. CASE ~UniquePlans(i, row)
  <2>1. renewals' = renewals
    BY <1>1, <1>6
  <2> QED
    BY <1>2, <1>4, <2>1, WorkerIdle, NothingWritten DEF RenewalAdminInv
<1> QED
  BY <1>5, <1>6

LEMMA UpdateReadKeeps ==
    ASSUME RenewalAdminInv, NEW w \in Workers, NEW i \in RIds, UpdateRead(w, i)
    PROVE  RenewalAdminInv'
<1> DEFINE r == [pc |-> "update", id |-> i, row |-> renewals[i]]
<1>1. rreq' = [rreq EXCEPT ![w] = r] /\ Exists(i) /\ UNCHANGED <<planDates, renewals>>
  BY DEF UpdateRead
<1>2. r.pc = "update" /\ r.row = renewals[i] /\ r.id = i /\ RowSound(renewals[i])
  BY <1>1, ExistingRow
<1> HIDE DEF r
<1>3. DOMAIN rreq' = Workers /\ rreq'[w] = r /\ \A v \in Workers : v # w => rreq'[v] = rreq[v]
  BY <1>1 DEF RenewalAdminInv
<1>4. Known' = Known
  BY <1>1 DEF Known
<1> QED
  BY <1>1, <1>2, <1>3, <1>4 DEF RenewalAdminInv, RowSound, UniquePlans, Exists

LEMMA UpdateSaveKeeps ==
    ASSUME RenewalAdminInv, NEW w \in Workers, NEW q \in Known \union {NoPlan}, NEW d \in Dates,
           NEW e \in Dates, UpdateSave(w, q, d, e)
    PROVE  RenewalAdminInv'
<1> DEFINE i == rreq[w].id
           old == rreq[w].row
           row == [old EXCEPT !.renewed = q, !.effective = d, !.expires = e]
<1>1. /\ rreq[w].pc = "update" /\ ValidDates(row)
      /\ renewals' = IF UniquePlans(i, row) THEN [renewals EXCEPT ![i] = row] ELSE renewals
      /\ rreq' = [rreq EXCEPT ![w] = RIdle] /\ UNCHANGED planDates
  BY DEF UpdateSave
<1>2. RowSound(old) /\ i \in RIds /\ d \in Nat /\ e \in Nat /\ q \in PlanOrNone
  BY <1>1, RenewalAdminAssumption, SomePlan DEF RenewalAdminInv, Dates, PlanOrNone
<1>3. row \in RenewalRow /\ row.effective = d /\ row.expires = e /\ row.prior = old.prior /\ row.renewed = q
  <2>1. \A r \in RenewalRow : LET s == [r EXCEPT !.renewed = q, !.effective = d, !.expires = e]
                              IN  /\ s \in RenewalRow /\ s.effective = d /\ s.expires = e
                                  /\ s.prior = r.prior /\ s.renewed = q
    BY <1>2 DEF RenewalRow
  <2> QED
    BY <1>2, <2>1 DEF RowSound
<1> HIDE DEF row
<1>4. d < e
  BY <1>1, <1>3 DEF ValidDates
<1>5. RowSound(row)
  BY <1>2, <1>3, <1>4 DEF RowSound
<1> HIDE DEF i, old
<1>6. Known' = Known
  BY <1>1 DEF Known
<1>7. CASE UniquePlans(i, row)
  <2>1. renewals' = [renewals EXCEPT ![i] = row]
    BY <1>1, <1>7
  <2> QED
    BY <1>1, <1>2, <1>5, <1>6, <1>7, <2>1, WriteKeeps, WorkerIdle DEF RenewalAdminInv
<1>8. CASE ~UniquePlans(i, row)
  <2>1. renewals' = renewals
    BY <1>1, <1>8
  <2> QED
    BY <1>1, <1>6, <2>1, WorkerIdle, NothingWritten DEF RenewalAdminInv
<1> QED
  BY <1>7, <1>8

LEMMA RenewalFormKeeps ==
    ASSUME RenewalAdminInv, NEW i \in RIds, NEW p \in Known, NEW q \in Known \union {NoPlan},
           NEW d \in Dates, NEW e \in Dates,
           SaveRenewalForm(i, [prior |-> p, renewed |-> q, effective |-> d, expires |-> e, processed |-> FALSE])
    PROVE  RenewalAdminInv'
<1> DEFINE row == [prior |-> p, renewed |-> q, effective |-> d, expires |-> e, processed |-> FALSE]
<1>1. /\ row.expires >= row.effective /\ row.effective >= planDates[row.prior].expires
      /\ UniquePlans(i, row) /\ renewals' = [renewals EXCEPT ![i] = row]
      /\ UNCHANGED <<planDates, rreq>>
  BY DEF SaveRenewalForm
<1>2. d \in Nat /\ e \in Nat
  BY RenewalAdminAssumption DEF Dates
<1>3. row \in RenewalRow /\ row.effective = d /\ row.expires = e /\ row.prior = p /\ row.renewed = q
  BY <1>2, SomePlan DEF RenewalRow, PlanOrNone
<1> HIDE DEF row
<1>4. planDates[p].expires > 0 /\ planDates[p].expires \in Nat
  BY SomePlan DEF RenewalAdminInv
<1>5. RowSound(row)
  BY <1>1, <1>2, <1>3, <1>4 DEF RowSound
<1>6. Known' = Known
  BY <1>1 DEF Known
<1>7. /\ DOMAIN renewals' = RIds
      /\ \A j \in RIds : renewals'[j] = NoRenewal \/ RowSound(renewals[j])'
      /\ \A j \in RIds : Exists(j)' => UniquePlans(j, renewals[j])'
  BY <1>1, <1>5, WriteKeeps
<1> QED
  BY <1>1, <1>6, <1>7 DEF RenewalAdminInv, RowSound

LEMMA DestroyKeeps ==
    ASSUME RenewalAdminInv, NEW i \in RIds, DestroyRenewal(i)
    PROVE  RenewalAdminInv'
<1>1. renewals' = [renewals EXCEPT ![i] = NoRenewal] /\ UNCHANGED <<planDates, rreq>>
  BY DEF DestroyRenewal
<1>2. DOMAIN renewals' = RIds /\ renewals'[i] = NoRenewal /\ \A j \in RIds : j # i => renewals'[j] = renewals[j]
  BY <1>1 DEF RenewalAdminInv
<1>3. Known' = Known
  BY <1>1 DEF Known
<1>4. \A j \in RIds : Exists(j)' => UniquePlans(j, renewals[j])'
  BY <1>2, NoRenewalRow DEF RenewalAdminInv, Exists, UniquePlans
<1> QED
  BY <1>1, <1>2, <1>3, <1>4 DEF RenewalAdminInv, RowSound

LEMMA ProcessedKeeps ==
    ASSUME RenewalAdminInv, NEW i \in RIds, RenewalProcessed(i)
    PROVE  RenewalAdminInv'
<1> DEFINE old == renewals[i]
<1>1. RowSound(old) /\ rreq' = rreq
  BY ExistingRow DEF RenewalProcessed
<1>2. CASE old.renewed # NoPlan
  <2> DEFINE row == [old EXCEPT !.processed = TRUE]
  <2>1. renewals' = [renewals EXCEPT ![i] = row] /\ UNCHANGED planDates /\ Exists(i)
    BY <1>2 DEF RenewalProcessed, RenewalAdminInv
  <2>2. row \in RenewalRow /\ row.effective = old.effective /\ row.expires = old.expires
        /\ row.prior = old.prior /\ row.renewed = old.renewed
    <3>1. \A r \in RenewalRow : LET s == [r EXCEPT !.processed = TRUE]
                                IN  /\ s \in RenewalRow /\ s.effective = r.effective /\ s.expires = r.expires
                                    /\ s.prior = r.prior /\ s.renewed = r.renewed
      BY DEF RenewalRow
    <3> QED
      BY <1>1, <3>1 DEF RowSound
  <2> HIDE DEF row
  <2>3. RowSound(row) /\ UniquePlans(i, row)
    BY <1>1, <2>1, <2>2 DEF RowSound, RenewalAdminInv, UniquePlans
  <2>4. /\ DOMAIN renewals' = RIds
        /\ \A j \in RIds : renewals'[j] = NoRenewal \/ RowSound(renewals[j])'
        /\ \A j \in RIds : Exists(j)' => UniquePlans(j, renewals[j])'
    BY <2>1, <2>3, WriteKeeps
  <2>5. Known' = Known
    BY <2>1 DEF Known
  <2> QED
    BY <1>1, <2>1, <2>4, <2>5 DEF RenewalAdminInv, RowSound
<1>3. CASE old.renewed = NoPlan
  <2>1. PICK q \in RPlans \ Known :
          /\ renewals' = [renewals EXCEPT ![i].renewed = q, ![i].processed = TRUE]
          /\ planDates' = [planDates EXCEPT ![q] = [start |-> old.effective, expires |-> old.expires]]
    BY <1>3 DEF RenewalProcessed
  <2> DEFINE row == [old EXCEPT !.renewed = q, !.processed = TRUE]
             dates == [start |-> old.effective, expires |-> old.expires]
  <2>2. row \in RenewalRow /\ row.effective = old.effective /\ row.expires = old.expires
        /\ row.prior = old.prior /\ row.renewed = q
    <3>1. \A r \in RenewalRow : LET s == [r EXCEPT !.renewed = q, !.processed = TRUE]
                                IN  /\ s \in RenewalRow /\ s.effective = r.effective /\ s.expires = r.expires
                                    /\ s.prior = r.prior /\ s.renewed = q
      BY DEF RenewalRow, PlanOrNone
    <3> QED
      BY <1>1, <3>1 DEF RowSound
  <2>3. DOMAIN renewals' = RIds /\ renewals'[i] = row /\ \A j \in RIds : j # i => renewals'[j] = renewals[j]
    BY <2>1 DEF RenewalAdminInv
  <2>4. dates \in [start : Nat, expires : Nat] /\ dates.expires = old.expires /\ old.expires > 0
    BY <1>1 DEF RowSound, RenewalRow
  <2>5. dates # NoDates
    BY <2>4 DEF NoDates
  <2> HIDE DEF row, dates
  <2>6. /\ planDates' \in [RPlans -> [start : Nat, expires : Nat]] /\ planDates'[q] = dates
        /\ \A p \in RPlans : p # q => planDates'[p] = planDates[p]
    BY <2>1, <2>4 DEF RenewalAdminInv, dates
  <2>7. Known' = Known \union {q}
    BY <2>5, <2>6 DEF Known
  <2>8. /\ row \in RenewalRow /\ row.effective <= row.expires /\ row.expires > 0
        /\ row.prior \in Known' /\ row.renewed \in Known' \union {NoPlan}
    BY <1>1, <2>2, <2>7 DEF RowSound
  <2>9. Known \subseteq Known'
    BY <2>7
  <2>10. ASSUME NEW j \in RIds
         PROVE  renewals'[j] = NoRenewal \/ RowSound(renewals[j])'
    <3>1. CASE j = i
      BY <2>3, <2>8, <3>1 DEF RowSound
    <3>2. CASE j # i
      BY <2>3, <2>9, <3>2, RowsStaySound DEF RenewalAdminInv
    <3> QED
      BY <3>1, <3>2
  <2>11. \A p \in Known' : planDates'[p].expires > 0
    BY <2>4, <2>6, <2>7, SomePlan DEF RenewalAdminInv
  <2>12. \A j \in RIds : renewals[j].renewed # q
    <3>1. q # NoPlan
      BY RenewalAdminAssumption
    <3> QED
      BY <3>1, NoRenewalRow DEF RenewalAdminInv, RowSound
  <2>13. Exists(i) /\ q # NoPlan
    BY RenewalAdminAssumption DEF RenewalProcessed
  <2>14. ASSUME NEW j \in RIds, Exists(j)'
         PROVE  UniquePlans(j, renewals[j])'
    <3>1. Exists(j)
      BY <2>2, <2>3, <2>13, <2>14 DEF Exists
    <3>2. UniquePlans(j, renewals[j]) /\ UniquePlans(i, renewals[i])
      BY <2>13, <3>1 DEF RenewalAdminInv
    <3>3. CASE j = i
      BY <2>2, <2>3, <2>12, <2>13, <3>2, <3>3 DEF UniquePlans, Exists
    <3>4. CASE j # i
      BY <2>2, <2>3, <2>12, <2>13, <3>2, <3>4 DEF UniquePlans, Exists
    <3> QED
      BY <3>3, <3>4
  <2>15. \A w \in Workers :
            \/ rreq'[w].pc = "idle"
            \/ rreq'[w].pc = "insert" /\ RowSound(rreq[w].row)'
            \/ rreq'[w].pc = "update" /\ RowSound(rreq[w].row)' /\ rreq'[w].id \in RIds
    <3>1. UNCHANGED rreq
      BY DEF RenewalProcessed
    <3> HIDE DEF old
    <3> QED
      BY <2>9, <3>1, RequestsStaySound
  <2> QED
    BY <1>1, <2>3, <2>6, <2>10, <2>11, <2>14, <2>15 DEF RenewalAdminInv
<1> QED
  BY <1>2, <1>3

LEMMA RenewalAdminStep ==
    ASSUME RenewalAdminInv, [RenewalAdminNext]_renewalAdminVars
    PROVE  RenewalAdminInv'
<1>1. CASE UNCHANGED renewalAdminVars
  <2>1. UNCHANGED <<planDates, renewals, rreq>>
    BY <1>1 DEF renewalAdminVars
  <2> QED
    BY <2>1 DEF RenewalAdminInv, RowSound, Known, UniquePlans, Exists
<1> QED
  BY <1>1, CreateCheckKeeps, CreateInsertKeeps, UpdateReadKeeps, UpdateSaveKeeps, RenewalFormKeeps,
     DestroyKeeps, ProcessedKeeps DEF RenewalAdminNext

\* Ids of renewals, and 0 for none; from a renewal to the next one, and to the one before.
IdOrNone == RIds \union {0}

RenewalAfter(i) ==
    IF i = 0 \/ renewals[i].renewed = NoPlan THEN 0 ELSE RenewalFrom(renewals[i].renewed)
RenewalBefore(i) == IF i = 0 THEN 0 ELSE RenewalInto(renewals[i].prior)

LEMMA StepCount == Steps = 0..(Cardinality(RIds) + 1) /\ Cardinality(RIds) \in Nat /\ 0 \in Steps
BY RenewalAdminAssumption, FS_CardinalityType DEF Steps

\* The renewal from a plan, and the one into a plan, are the only ones.
LEMMA FromIsOne ==
    ASSUME NEW p \in RPlans
    PROVE  /\ RenewalFrom(p) \in IdOrNone
           /\ RenewalFrom(p) # 0 => RenewalFrom(p) \in RIds /\ renewals[RenewalFrom(p)].prior = p
BY RenewalAdminAssumption DEF RenewalFrom, IdOrNone

LEMMA IntoIsOne ==
    ASSUME RenewalAdminInv, NEW q \in RPlans
    PROVE  /\ RenewalInto(q) \in IdOrNone
           /\ \A i \in RIds : renewals[i].renewed = q => RenewalInto(q) = i
           /\ (\A i \in RIds : renewals[i].renewed # q) => RenewalInto(q) = 0
<1>1. q # NoPlan
  BY RenewalAdminAssumption
<1>2. \A i, j \in RIds : renewals[i].renewed = q /\ renewals[j].renewed = q => i = j
  <2> SUFFICES ASSUME NEW i \in RIds, NEW j \in RIds, renewals[i].renewed = q, renewals[j].renewed = q, i # j
               PROVE  FALSE
    OBVIOUS
  <2>1. renewals[i] # NoRenewal /\ renewals[j] # NoRenewal
    BY <1>1, NoRenewalRow
  <2>2. RowSound(renewals[i]) /\ RowSound(renewals[j])
    BY <2>1 DEF RenewalAdminInv
  <2>3. Exists(i) /\ Exists(j)
    BY <2>2, SomePlan DEF RowSound, Exists
  <2> QED
    BY <1>1, <2>3 DEF RenewalAdminInv, UniquePlans
<1> QED
  BY <1>2 DEF RenewalInto, IdOrNone

\* What follows a renewal, and what comes before it.
LEMMA RenewalPlans ==
    ASSUME RenewalAdminInv, NEW i \in RIds, renewals[i].renewed # NoPlan \/ renewals[i].prior # NoPlan
    PROVE  renewals[i].prior \in RPlans /\ renewals[i].renewed \in RPlans \union {NoPlan}
<1>1. renewals[i] # NoRenewal
  BY NoRenewalRow
<1> QED
  BY <1>1, SomePlan DEF RenewalAdminInv, RowSound

LEMMA AfterIsOne ==
    ASSUME RenewalAdminInv, NEW i \in IdOrNone
    PROVE  /\ RenewalAfter(i) \in IdOrNone
           /\ RenewalAfter(i) # 0 =>
                /\ i \in RIds /\ RenewalAfter(i) \in RIds
                /\ renewals[i].renewed \in RPlans
                /\ renewals[RenewalAfter(i)].prior = renewals[i].renewed
<1>1. CASE i = 0 \/ renewals[i].renewed = NoPlan
  BY <1>1 DEF RenewalAfter, IdOrNone
<1>2. CASE ~(i = 0 \/ renewals[i].renewed = NoPlan)
  <2>1. i \in RIds /\ renewals[i].renewed \in RPlans
    BY <1>2, RenewalPlans DEF IdOrNone
  <2> QED
    BY <1>2, <2>1, FromIsOne DEF RenewalAfter
<1> QED
  BY <1>1, <1>2

(***************************************************************************)
(* A walk that is defined step by step exists.                             *)
(***************************************************************************)
LEMMA WalkExists ==
    ASSUME NEW x \in IdOrNone, NEW F \in [IdOrNone -> IdOrNone], NEW N \in Nat
    PROVE  \E f \in [0..N -> IdOrNone] : f[0] = x /\ \A n \in 1..N : f[n] = F[f[n - 1]]
<1> DEFINE Walks(n) == \E f \in [0..n -> IdOrNone] : f[0] = x /\ \A m \in 1..n : f[m] = F[f[m - 1]]
           Bad == {n \in Nat : ~Walks(n)}
<1> SUFFICES ASSUME Bad # {} PROVE FALSE
  OBVIOUS
<1>1. PICK k \in Bad : \A j \in Bad : k <= j
  <2>1. Bad \in SUBSET Nat
    OBVIOUS
  <2> HIDE DEF Bad
  <2> QED
    BY <2>1, LeastNumber
<1>2. CASE k = 0
  <2> DEFINE f == [n \in 0..0 |-> x]
  <2>1. f \in [0..0 -> IdOrNone] /\ f[0] = x /\ \A n \in 1..0 : f[n] = F[f[n - 1]]
    OBVIOUS
  <2>2. Walks(0)
    BY <2>1
  <2> QED
    BY <1>1, <1>2, <2>2
<1>3. CASE k > 0
  <2>1. k \in Nat /\ k - 1 \in Nat /\ k - 1 \notin Bad
    BY <1>1, <1>3
  <2>2. PICK f \in [0..(k - 1) -> IdOrNone] : f[0] = x /\ \A m \in 1..(k - 1) : f[m] = F[f[m - 1]]
    BY <2>1
  <2> DEFINE g == [n \in 0..k |-> IF n = k THEN F[f[k - 1]] ELSE f[n]]
  <2>3. \A n \in 0..k : n # k => n \in 0..(k - 1)
    BY <2>1
  <2>4. k - 1 \in 0..(k - 1) /\ f[k - 1] \in IdOrNone /\ F[f[k - 1]] \in IdOrNone
    BY <2>1, <1>3
  <2>5. g \in [0..k -> IdOrNone]
    BY <2>2, <2>3, <2>4
  <2>6. g[0] = x /\ \A m \in 1..(k - 1) : g[m] = f[m] /\ g[m - 1] = f[m - 1]
    BY <1>3, <2>1, <2>2
  <2>7. g[k] = F[g[k - 1]]
    BY <1>3, <2>1
  <2> HIDE DEF g
  <2>8. ASSUME NEW m \in 1..k
        PROVE  g[m] = F[g[m - 1]]
    <3>1. m = k \/ m \in 1..(k - 1)
      BY <2>1
    <3> QED
      BY <2>2, <2>6, <2>7, <3>1
  <2>9. Walks(k)
    BY <2>5, <2>6, <2>8
  <2> QED
    BY <1>1, <2>9
<1> QED
  BY <1>1, <1>2, <1>3

LEMMA FutureUnfolds ==
    ASSUME RenewalAdminInv, NEW p \in RPlans
    PROVE  /\ FutureRenewals(p) \in [Steps -> IdOrNone]
           /\ FutureRenewals(p)[0] = RenewalFrom(p)
           /\ \A n \in Steps \ {0} : FutureRenewals(p)[n] = RenewalAfter(FutureRenewals(p)[n - 1])
<1> DEFINE Body(w) == [n \in Steps |-> IF n = 0 THEN RenewalFrom(p)
                                       ELSE IF w[n - 1] = 0 \/ renewals[w[n - 1]].renewed = NoPlan THEN 0
                                       ELSE RenewalFrom(renewals[w[n - 1]].renewed)]
<1>1. FutureRenewals(p) = CHOOSE w : w = Body(w)
  BY DEF FutureRenewals
<1>2. \E w : w = Body(w) /\ w \in [Steps -> IdOrNone]
  <2> DEFINE N == Cardinality(RIds) + 1
             F == [i \in IdOrNone |-> RenewalAfter(i)]
  <2>1. RenewalFrom(p) \in IdOrNone /\ F \in [IdOrNone -> IdOrNone] /\ N \in Nat /\ Steps = 0..N
    BY AfterIsOne, FromIsOne, StepCount
  <2> HIDE DEF N, F, Body
  <2>7. \A x \in IdOrNone : \E w \in [0..N -> IdOrNone] : w[0] = x /\ \A n \in 1..N : w[n] = F[w[n - 1]]
    BY <2>1, WalkExists
  <2>2. PICK w \in [0..N -> IdOrNone] : w[0] = RenewalFrom(p) /\ \A n \in 1..N : w[n] = F[w[n - 1]]
    BY <2>1, <2>7
  <2>3. \A n \in 0..N : n # 0 => n \in 1..N /\ n - 1 \in 0..N
    BY <2>1
  <2>4. \A n \in Steps : n # 0 => w[n] = RenewalAfter(w[n - 1])
    BY <2>1, <2>2, <2>3 DEF F
  <2>5. \A n \in Steps : w[n] = Body(w)[n]
    BY <2>2, <2>4 DEF RenewalAfter, Body
  <2>6. w = Body(w)
    BY <2>1, <2>2, <2>5 DEF Body
  <2> QED
    BY <2>1, <2>2, <2>6
<1> DEFINE v == FutureRenewals(p)
<1>3. v = Body(v)
  <2> HIDE DEF Body
  <2> QED
    BY <1>1, <1>2
<1> HIDE DEF v
<1>4. /\ DOMAIN v = Steps /\ v[0] = RenewalFrom(p)
      /\ \A n \in Steps \ {0} : v[n] = RenewalAfter(v[n - 1])
  BY <1>3, StepCount DEF RenewalAfter
<1>5. v = [n \in Steps |-> v[n]]
  BY <1>3
<1>6. \A n \in Steps : v[n] \in IdOrNone
  <2> DEFINE Bad == {n \in Steps : v[n] \notin IdOrNone}
  <2> SUFFICES ASSUME Bad # {} PROVE FALSE
    OBVIOUS
  <2>1. Bad \in SUBSET Nat
    BY StepCount
  <2> HIDE DEF Bad
  <2>2. PICK k \in Bad : \A j \in Bad : k <= j
    BY <2>1, LeastNumber
  <2>3. k \in Steps /\ v[k] \notin IdOrNone /\ k \in Nat
    BY <2>1, <2>2 DEF Bad
  <2>4. k # 0
    BY <1>4, <2>3, FromIsOne
  <2>5. k - 1 \in Steps /\ ~(k <= k - 1)
    BY <2>3, <2>4, StepCount
  <2>6. v[k - 1] \in IdOrNone
    BY <2>2, <2>5 DEF Bad
  <2> QED
    BY <1>4, <2>3, <2>4, <2>6, AfterIsOne
<1> QED
  BY <1>4, <1>5, <1>6 DEF v

LEMMA BeforeIsOne ==
    /\ \A q : RenewalInto(q) \in IdOrNone
    /\ \A i \in IdOrNone : RenewalBefore(i) \in IdOrNone
BY DEF RenewalBefore, RenewalInto, IdOrNone

LEMMA PriorUnfolds ==
    ASSUME NEW p \in RPlans
    PROVE  /\ PriorRenewals(p) \in [Steps -> IdOrNone]
           /\ PriorRenewals(p)[0] = RenewalInto(p)
           /\ \A n \in Steps \ {0} : PriorRenewals(p)[n] = RenewalBefore(PriorRenewals(p)[n - 1])
<1> DEFINE Body(w) == [n \in Steps |-> IF n = 0 THEN RenewalInto(p)
                                       ELSE IF w[n - 1] = 0 THEN 0
                                       ELSE RenewalInto(renewals[w[n - 1]].prior)]
<1>1. PriorRenewals(p) = CHOOSE w : w = Body(w)
  BY DEF PriorRenewals
<1>2. \E w : w = Body(w) /\ w \in [Steps -> IdOrNone]
  <2> DEFINE N == Cardinality(RIds) + 1
             F == [i \in IdOrNone |-> RenewalBefore(i)]
  <2>1. RenewalInto(p) \in IdOrNone /\ F \in [IdOrNone -> IdOrNone] /\ N \in Nat /\ Steps = 0..N
    BY BeforeIsOne, StepCount
  <2> HIDE DEF N, F, Body
  <2>7. \A x \in IdOrNone : \E w \in [0..N -> IdOrNone] : w[0] = x /\ \A n \in 1..N : w[n] = F[w[n - 1]]
    BY <2>1, WalkExists
  <2>2. PICK w \in [0..N -> IdOrNone] : w[0] = RenewalInto(p) /\ \A n \in 1..N : w[n] = F[w[n - 1]]
    BY <2>1, <2>7
  <2>3. \A n \in 0..N : n # 0 => n \in 1..N /\ n - 1 \in 0..N
    BY <2>1
  <2>4. \A n \in Steps : n # 0 => w[n] = RenewalBefore(w[n - 1])
    BY <2>1, <2>2, <2>3 DEF F
  <2>5. \A n \in Steps : w[n] = Body(w)[n]
    BY <2>2, <2>4 DEF RenewalBefore, Body
  <2>6. w = Body(w)
    BY <2>1, <2>2, <2>5 DEF Body
  <2> QED
    BY <2>1, <2>2, <2>6
<1> DEFINE v == PriorRenewals(p)
<1>3. v = Body(v)
  <2> HIDE DEF Body
  <2> QED
    BY <1>1, <1>2
<1> HIDE DEF v
<1>4. /\ DOMAIN v = Steps /\ v[0] = RenewalInto(p)
      /\ \A n \in Steps \ {0} : v[n] = RenewalBefore(v[n - 1])
  BY <1>3, StepCount DEF RenewalBefore
<1>5. v = [n \in Steps |-> v[n]]
  BY <1>3
<1>6. \A n \in Steps : v[n] \in IdOrNone
  <2> DEFINE Bad == {n \in Steps : v[n] \notin IdOrNone}
  <2> SUFFICES ASSUME Bad # {} PROVE FALSE
    OBVIOUS
  <2>1. Bad \in SUBSET Nat
    BY StepCount
  <2> HIDE DEF Bad
  <2>2. PICK k \in Bad : \A j \in Bad : k <= j
    BY <2>1, LeastNumber
  <2>3. k \in Steps /\ v[k] \notin IdOrNone /\ k \in Nat
    BY <2>1, <2>2 DEF Bad
  <2>4. k # 0
    BY <1>4, <2>3, BeforeIsOne
  <2>5. k - 1 \in Steps /\ ~(k <= k - 1)
    BY <2>3, <2>4, StepCount
  <2>6. v[k - 1] \in IdOrNone
    BY <2>2, <2>5 DEF Bad
  <2> QED
    BY <1>4, <2>3, <2>4, <2>6, BeforeIsOne
<1> QED
  BY <1>4, <1>5, <1>6 DEF v

\* A walk from a plan that no renewal leads to passes no renewal twice.
LEMMA WalkNeverReturns ==
    ASSUME RenewalAdminInv, NEW p \in RPlans, RenewalInto(p) = 0,
           NEW w \in [Steps -> IdOrNone], w[0] = RenewalFrom(p),
           \A n \in Steps \ {0} : w[n] = RenewalAfter(w[n - 1])
    PROVE  \A i, j \in Steps : i < j /\ w[i] # 0 => w[i] # w[j]
<1> DEFINE Back == {i \in Steps : w[i] # 0 /\ \E j \in Steps : i < j /\ w[i] = w[j]}
<1> SUFFICES ASSUME Back # {} PROVE FALSE
  OBVIOUS
<1>1. Back \in SUBSET Nat
  BY StepCount
<1> HIDE DEF Back
<1>2. PICK i \in Back : \A k \in Back : i <= k
  BY <1>1, LeastNumber
<1>3. i \in Steps /\ i \in Nat /\ w[i] # 0
  BY <1>1, <1>2 DEF Back
<1>4. PICK j \in Steps : i < j /\ w[i] = w[j]
  BY <1>2 DEF Back
<1>5. j \in Nat /\ j # 0 /\ j - 1 \in Steps /\ j \in Steps \ {0} /\ w[j - 1] \in IdOrNone
  BY <1>3, <1>4, StepCount
<1>6. w[j] = RenewalAfter(w[j - 1]) /\ w[j] # 0
  BY <1>3, <1>4, <1>5
<1>7. /\ w[j - 1] \in RIds /\ w[j] \in RIds
      /\ renewals[w[j - 1]].renewed \in RPlans /\ renewals[w[j]].prior = renewals[w[j - 1]].renewed
  BY <1>5, <1>6, AfterIsOne
<1>8. CASE i = 0
  <2>1. renewals[w[i]].prior = p
    BY <1>3, <1>8, FromIsOne
  <2>2. RenewalInto(p) = w[j - 1]
    BY <1>4, <1>7, <2>1, IntoIsOne
  <2>3. w[j - 1] # 0
    BY <1>7, RenewalAdminAssumption
  <2> QED
    BY <2>2, <2>3
<1>9. CASE i # 0
  <2>1. i - 1 \in Steps /\ i \in Steps \ {0} /\ i - 1 \in Nat /\ w[i - 1] \in IdOrNone
    BY <1>3, <1>9, StepCount
  <2>2. w[i] = RenewalAfter(w[i - 1])
    BY <2>1
  <2>3. /\ w[i - 1] \in RIds /\ renewals[w[i - 1]].renewed \in RPlans
        /\ renewals[w[i]].prior = renewals[w[i - 1]].renewed
    BY <1>3, <2>1, <2>2, AfterIsOne
  <2>4. w[i - 1] = w[j - 1]
    <3>1. renewals[w[i - 1]].renewed = renewals[w[j - 1]].renewed
      BY <1>4, <1>7, <2>3
    <3>2. RenewalInto(renewals[w[j - 1]].renewed) = w[j - 1]
      BY <1>7, IntoIsOne
    <3>3. RenewalInto(renewals[w[i - 1]].renewed) = w[i - 1]
      BY <2>3, IntoIsOne
    <3> QED
      BY <3>1, <3>2, <3>3
  <2>5. w[i - 1] # 0 /\ i - 1 < j - 1
    BY <1>3, <1>4, <1>5, <2>1, <2>3, RenewalAdminAssumption
  <2>6. i - 1 \in Back
    BY <1>5, <2>1, <2>4, <2>5 DEF Back
  <2> QED
    BY <1>2, <1>3, <2>6
<1> QED
  BY <1>8, <1>9

\* There are fewer renewals than steps, and after the end there is nothing.
LEMMA WalkEnds ==
    ASSUME NEW w \in [Steps -> IdOrNone], \A i, j \in Steps : i < j /\ w[i] # 0 => w[i] # w[j]
    PROVE  \E n \in Steps : w[n] = 0
<1> SUFFICES ASSUME \A n \in Steps : w[n] # 0 PROVE FALSE
  OBVIOUS
<1> DEFINE N == Cardinality(RIds)
<1>1. Steps = 0..(N + 1) /\ N \in Nat
  BY StepCount
<1>2. IsFiniteSet(Steps) /\ Cardinality(Steps) = N + 2
  BY <1>1, FS_Interval
<1>3. IsFiniteSet(RIds) /\ w \in [Steps -> RIds] /\ Cardinality(RIds) < Cardinality(Steps)
  BY <1>1, <1>2, RenewalAdminAssumption DEF IdOrNone
<1>4. \E x, y \in Steps : x # y /\ w[x] = w[y]
  <2> HIDE DEF N
  <2> QED
    BY <1>2, <1>3, FS_PigeonHole
<1>5. \A x, y \in Steps : x < y \/ y < x \/ x = y
  BY <1>1
<1> QED
  BY <1>4, <1>5

LEMMA NothingAfterTheEnd ==
    ASSUME NEW w \in [Steps -> IdOrNone], \A n \in Steps \ {0} : w[n - 1] = 0 => w[n] = 0
    PROVE  \A m, n \in Steps : m <= n /\ w[m] = 0 => w[n] = 0
<1> SUFFICES ASSUME NEW m \in Steps, w[m] = 0
             PROVE  \A n \in Steps : m <= n => w[n] = 0
  OBVIOUS
<1> DEFINE Bad == {n \in Steps : m <= n /\ w[n] # 0}
<1> SUFFICES ASSUME Bad # {} PROVE FALSE
  OBVIOUS
<1>1. Bad \in SUBSET Nat
  BY StepCount
<1> HIDE DEF Bad
<1>2. PICK k \in Bad : \A n \in Bad : k <= n
  BY <1>1, LeastNumber
<1>3. k \in Steps /\ k \in Nat /\ m <= k /\ w[k] # 0 /\ m \in Nat
  BY <1>1, <1>2, StepCount DEF Bad
<1>4. k # m /\ k - 1 \in Steps /\ k # 0 /\ m <= k - 1 /\ ~(k <= k - 1)
  BY <1>3, StepCount
<1>5. w[k - 1] = 0
  BY <1>2, <1>4 DEF Bad
<1> QED
  BY <1>3, <1>4, <1>5

\* The way back from a plan on the walk.
LEMMA WayBack ==
    ASSUME RenewalAdminInv, NEW p \in RPlans, RenewalInto(p) = 0,
           NEW w \in [Steps -> IdOrNone], w[0] = RenewalFrom(p),
           \A n \in Steps \ {0} : w[n] = RenewalAfter(w[n - 1]),
           NEW n \in Steps, w[n] # 0, renewals[w[n]].renewed # NoPlan,
           NEW v \in [Steps -> IdOrNone], v[0] = RenewalInto(renewals[w[n]].renewed),
           \A k \in Steps \ {0} : v[k] = RenewalBefore(v[k - 1])
    PROVE  \A k \in Steps : v[k] = IF k <= n THEN w[n - k] ELSE 0
<1> DEFINE Bad == {k \in Steps : v[k] # IF k <= n THEN w[n - k] ELSE 0}
<1> SUFFICES ASSUME Bad # {} PROVE FALSE
  OBVIOUS
<1>1. Bad \in SUBSET Nat
  BY StepCount
<1> HIDE DEF Bad
<1>2. PICK k \in Bad : \A j \in Bad : k <= j
  BY <1>1, LeastNumber
<1>3. k \in Steps /\ k \in Nat /\ n \in Nat /\ v[k] # IF k <= n THEN w[n - k] ELSE 0
  BY <1>1, <1>2, StepCount DEF Bad
<1>4. \A m \in Steps : w[m] # 0 => w[m] \in RIds
  BY DEF IdOrNone
<1>5. k # 0
  <2>1. renewals[w[n]].renewed \in RPlans
    BY <1>4, RenewalPlans
  <2>2. v[0] = w[n]
    BY <1>4, <2>1, IntoIsOne
  <2> QED
    BY <1>3, <2>2
<1>6. k - 1 \in Steps /\ k \in Steps \ {0} /\ ~(k <= k - 1) /\ k - 1 \in Nat
  BY <1>3, <1>5, StepCount
<1>7. v[k - 1] = IF k - 1 <= n THEN w[n - (k - 1)] ELSE 0
  BY <1>2, <1>6 DEF Bad
<1>8. v[k] = RenewalBefore(v[k - 1])
  BY <1>6
<1>9. CASE k <= n
  <2>1. v[k - 1] = w[n - (k - 1)] /\ n - (k - 1) \in Steps \ {0} /\ n - k \in Steps
        /\ (n - (k - 1)) - 1 = n - k
    BY <1>3, <1>6, <1>7, <1>9, StepCount
  <2>2. w[n - (k - 1)] = RenewalAfter(w[n - k])
    BY <2>1
  <2>3. w[n - (k - 1)] # 0
    <3>1. \A m \in Steps \ {0} : w[m - 1] = 0 => w[m] = 0
      BY DEF RenewalAfter
    <3>2. \A m, o \in Steps : m <= o /\ w[m] = 0 => w[o] = 0
      BY <3>1, NothingAfterTheEnd
    <3>3. n - (k - 1) <= n
      BY <1>3, <1>6
    <3> QED
      BY <2>1, <3>2, <3>3
  <2>4. /\ w[n - k] \in RIds /\ renewals[w[n - k]].renewed \in RPlans
        /\ renewals[w[n - (k - 1)]].prior = renewals[w[n - k]].renewed
    BY <2>1, <2>2, <2>3, AfterIsOne
  <2>5. RenewalInto(renewals[w[n - k]].renewed) = w[n - k]
    BY <2>4, IntoIsOne
  <2>6. v[k] = w[n - k]
    BY <1>8, <2>1, <2>3, <2>4, <2>5 DEF RenewalBefore
  <2> QED
    BY <1>3, <1>9, <2>6
<1>10. CASE k = n + 1
  <2>1. v[k - 1] = w[0]
    BY <1>3, <1>7, <1>10
  <2>2. RenewalBefore(w[0]) = 0
    BY FromIsOne DEF RenewalBefore
  <2> QED
    BY <1>3, <1>8, <1>10, <2>1, <2>2
<1>11. CASE k > n + 1
  <2>1. v[k - 1] = 0
    BY <1>3, <1>7, <1>11
  <2> QED
    BY <1>3, <1>8, <1>11, <2>1 DEF RenewalBefore
<1> QED
  BY <1>3, <1>9, <1>10, <1>11


LEMMA ChainsDoEnd ==
    ASSUME RenewalAdminInv
    PROVE  ChainsEnd
<1> SUFFICES ASSUME NEW p \in Known, RenewalInto(p) = 0
             PROVE  /\ \E n \in Steps : FutureRenewals(p)[n] = 0
                    /\ \A n \in Steps : FutureRenewals(p)[n] # 0 /\ renewals[FutureRenewals(p)[n]].renewed # NoPlan =>
                          Ids(PriorRenewals(renewals[FutureRenewals(p)[n]].renewed)) = {FutureRenewals(p)[m] : m \in 0..n}
  BY DEF ChainsEnd
<1> DEFINE w == FutureRenewals(p)
<1>1. /\ p \in RPlans /\ w \in [Steps -> IdOrNone] /\ w[0] = RenewalFrom(p)
      /\ \A n \in Steps \ {0} : w[n] = RenewalAfter(w[n - 1])
  BY SomePlan, FutureUnfolds
<1> HIDE DEF w
<1>2. \A i, j \in Steps : i < j /\ w[i] # 0 => w[i] # w[j]
  BY <1>1, WalkNeverReturns
<1>3. \E n \in Steps : w[n] = 0
  BY <1>1, <1>2, WalkEnds
<1>4. ASSUME NEW n \in Steps, w[n] # 0, renewals[w[n]].renewed # NoPlan
      PROVE  Ids(PriorRenewals(renewals[w[n]].renewed)) = {w[m] : m \in 0..n}
  <2> DEFINE v == PriorRenewals(renewals[w[n]].renewed)
  <2>1. renewals[w[n]].renewed \in RPlans
    BY <1>1, <1>4, RenewalPlans DEF IdOrNone
  <2>2. /\ v \in [Steps -> IdOrNone] /\ v[0] = RenewalInto(renewals[w[n]].renewed)
        /\ \A k \in Steps \ {0} : v[k] = RenewalBefore(v[k - 1])
    BY <2>1, PriorUnfolds
  <2> HIDE DEF v
  <2>3. \A k \in Steps : v[k] = IF k <= n THEN w[n - k] ELSE 0
    BY <1>1, <1>4, <2>2, WayBack
  <2>4. \A m \in 0..n : w[m] # 0 /\ n - m \in Steps /\ n - (n - m) = m /\ n - m <= n
    <3>1. \A m \in Steps \ {0} : w[m - 1] = 0 => w[m] = 0
      BY <1>1 DEF RenewalAfter
    <3>2. \A m, o \in Steps : m <= o /\ w[m] = 0 => w[o] = 0
      BY <1>1, <3>1, NothingAfterTheEnd
    <3>3. \A m \in 0..n : m \in Steps /\ m <= n /\ n - m \in Steps /\ n - (n - m) = m /\ n - m <= n
      BY StepCount
    <3> QED
      BY <1>4, <3>2, <3>3
  <2>5. \A k \in Steps : k <= n => n - k \in 0..n
    BY StepCount
  <2> QED
    BY <2>3, <2>4, <2>5 DEF Ids, v
<1> QED
  BY <1>3, <1>4 DEF w

LEMMA LastOneCounts ==
    ASSUME RenewalAdminInv
    PROVE  LastRenewalCounts
<1> SUFFICES ASSUME NEW p \in Known,
                    {n \in Steps : FutureRenewals(p)[n] # 0} # Steps,
                    \A n \in Steps : FutureRenewals(p)[n] # 0 /\ n > 0 =>
                       renewals[FutureRenewals(p)[n - 1]].expires <= renewals[FutureRenewals(p)[n]].effective,
                    NEW n \in Steps, FutureRenewals(p)[n] # 0,
                    n + 1 \notin {m \in Steps : FutureRenewals(p)[m] # 0}
             PROVE  ExpirationIncludingRenewals(p) = renewals[FutureRenewals(p)[n]].expires
  BY DEF LastRenewalCounts
<1> DEFINE w == FutureRenewals(p)
           ends == {renewals[i].expires : i \in Ids(w)}
<1>1. /\ w \in [Steps -> IdOrNone] /\ w[0] = RenewalFrom(p)
      /\ \A m \in Steps \ {0} : w[m] = RenewalAfter(w[m - 1])
  BY SomePlan, FutureUnfolds
<1>2. /\ \A m \in Steps : w[m] # 0 /\ m > 0 => renewals[w[m - 1]].expires <= renewals[w[m]].effective
      /\ w[n] # 0 /\ n + 1 \notin {m \in Steps : w[m] # 0} /\ \E m \in Steps : w[m] = 0
  OBVIOUS
<1>3. ExpirationIncludingRenewals(p) = IF ends = {} THEN planDates[p].expires
                                       ELSE CHOOSE d \in ends : \A e \in ends : e <= d
  BY DEF ExpirationIncludingRenewals
<1> HIDE DEF w
<1>4. \A m, o \in Steps : m <= o /\ w[m] = 0 => w[o] = 0
  <2>1. \A m \in Steps \ {0} : w[m - 1] = 0 => w[m] = 0
    BY <1>1 DEF RenewalAfter
  <2> QED
    BY <1>1, <2>1, NothingAfterTheEnd
<1>5. n \in Nat /\ \A m \in Steps : m \in Nat /\ (w[m] # 0 => m <= n)
  <2>1. PICK z \in Steps : w[z] = 0
    BY <1>2
  <2>2. n < z
    BY <1>2, <1>4, <2>1, StepCount
  <2>3. n + 1 \in Steps
    BY <2>2, StepCount
  <2>4. w[n + 1] = 0
    BY <1>2, <2>3
  <2>5. \A m \in Steps : m \in Nat /\ (m <= n \/ n + 1 <= m)
    BY StepCount
  <2> QED
    BY <1>4, <2>3, <2>4, <2>5, StepCount
<1>6. \A m \in Steps : w[m] # 0 => /\ w[m] \in RIds /\ renewals[w[m]].expires \in Nat
                                   /\ renewals[w[m]].effective \in Nat
                                   /\ renewals[w[m]].effective <= renewals[w[m]].expires
  <2>1. \A i \in RIds : renewals[i].expires \in Nat /\ renewals[i].effective \in Nat
                        /\ renewals[i].effective <= renewals[i].expires
    BY NoRenewalRow DEF RenewalAdminInv, RowSound, RenewalRow
  <2> QED
    BY <1>1, <2>1 DEF IdOrNone
<1>7. \A m \in Steps : w[m] # 0 => renewals[w[m]].expires <= renewals[w[n]].expires
  <2> DEFINE Late == {k \in Nat : k <= n /\ ~(renewals[w[n - k]].expires <= renewals[w[n]].expires)}
  <2>1. Late = {}
    <3> SUFFICES ASSUME Late # {} PROVE FALSE
      OBVIOUS
    <3>1. Late \in SUBSET Nat
      OBVIOUS
    <3> HIDE DEF Late
    <3>2. PICK k \in Late : \A j \in Late : k <= j
      BY <3>1, LeastNumber
    <3>3. k \in Nat /\ k <= n /\ ~(renewals[w[n - k]].expires <= renewals[w[n]].expires)
      BY <3>2 DEF Late
    <3>4. k # 0
      BY <1>2, <1>5, <1>6, <3>3
    <3>5. k - 1 \in Nat /\ k - 1 <= n /\ ~(k <= k - 1) /\ n - (k - 1) \in Steps /\ n - k \in Steps
          /\ n - (k - 1) > 0 /\ (n - (k - 1)) - 1 = n - k /\ n - (k - 1) <= n /\ n - k <= n
      BY <1>5, <3>3, <3>4, StepCount
    <3>6. renewals[w[n - (k - 1)]].expires <= renewals[w[n]].expires
      BY <3>2, <3>5 DEF Late
    <3>7. w[n - (k - 1)] # 0 /\ w[n - k] # 0
      BY <1>2, <1>4, <3>5
    <3>8. renewals[w[n - k]].expires <= renewals[w[n - (k - 1)]].effective
      BY <1>2, <3>5, <3>7
    <3> QED
      BY <1>2, <1>6, <3>3, <3>5, <3>6, <3>7, <3>8
  <2>2. \A m \in Steps : w[m] # 0 => n - m \in Nat /\ n - m <= n /\ n - (n - m) = m
    BY <1>5
  <2> QED
    BY <2>1, <2>2
<1>8. \A i \in Ids(w) : \E m \in Steps : i = w[m] /\ w[m] # 0
  BY DEF Ids
<1>9. w[n] \in Ids(w)
  BY <1>2 DEF Ids
<1> DEFINE last == renewals[w[n]].expires
<1>10. last \in ends /\ \A e \in ends : e \in Nat /\ e <= last
  BY <1>6, <1>7, <1>8, <1>9
<1> HIDE DEF ends, last
<1>11. (CHOOSE d \in ends : \A e \in ends : e <= d) = last
  <2> DEFINE c == CHOOSE d \in ends : \A e \in ends : e <= d
  <2>1. c \in ends /\ \A e \in ends : e <= c
    BY <1>10
  <2> HIDE DEF c
  <2>2. c <= last /\ last <= c /\ c \in Nat /\ last \in Nat
    BY <1>10, <2>1
  <2> QED
    BY <2>2 DEF c
<1> QED
  BY <1>3, <1>10, <1>11 DEF w, last

(***************************************************************************)
(* For any number of plans, renewals and overlapping requests: renewals    *)
(* form chains that neither merge nor branch and that end, and their dates *)
(* are in order.                                                           *)
(***************************************************************************)
LEMMA RenewalAdminSafe == RenewalAdminInit /\ [][RenewalAdminNext]_renewalAdminVars => []RenewalsSound
<1>1. RenewalAdminInv /\ [RenewalAdminNext]_renewalAdminVars => RenewalAdminInv'
  BY RenewalAdminStep
<1>2. RenewalAdminInv => RenewalsSound
  <2> SUFFICES ASSUME RenewalAdminInv PROVE RenewalsSound
    OBVIOUS
  <2>1. RenewalDatesOrdered
    BY ExistingRow DEF RenewalDatesOrdered, RowSound
  <2> QED
    BY <2>1, ChainsDoEnd, LastOneCounts DEF RenewalsSound
<1> QED
  BY <1>1, <1>2, RenewalAdminStart, PTL

-----------------------------------------------------------------------------
(****************************************************************************)
(* The catalogs of plans stay with the customer.                           *)
(****************************************************************************)
\* A catalog that may get into a plan.
Admitted == OwnCatalogs \union unchecked \union {NoCatalog}

\* The default may be another customer's only after a PATCH, and so may what a request
\* that was validated, or that fell back on the default, has yet to save.
CatalogInv ==
    /\ unchecked \subseteq OtherCatalogs
    /\ planCatalog \in [PPlans -> Admitted]
    /\ defaultCatalog \in Admitted
    /\ preq \in [Editors -> [pc : {"idle", "insert", "update"}, plan : PPlans \union {0},
                            catalog : Admitted]]
    /\ \A w \in Editors : preq[w].pc # "idle" => preq[w].plan \in PPlans

LEMMA CatalogInit == PlanAdminInit => CatalogInv
  BY DEF PlanAdminInit, CatalogInv, Admitted, PIdle

\* A request whose catalog is admitted is served.
LEMMA ServeKeeps ==
    ASSUME CatalogInv, NEW w \in Editors, NEW p \in PPlans, NEW c \in Admitted,
           NEW pc \in {"insert", "update"}, Serve(w, pc, p, c)
    PROVE  CatalogInv'
  BY DEF CatalogInv, Admitted, Serve

\* What takes the place of a catalog that a request leaves out is admitted.
LEMMA FallbackAdmitted ==
    ASSUME NEW c \in Catalogs \union {NoCatalog}, NEW d \in Admitted,
           c # NoCatalog => ValidCatalog(c)
    PROVE  Or(c, d) \in Admitted
  BY DEF Or, ValidCatalog, Admitted

LEMMA CatalogStep ==
    ASSUME CatalogInv, [PlanAdminNext]_planAdminVars
    PROVE  CatalogInv'
<1>1. ASSUME NEW c \in Catalogs \union {NoCatalog}, PatchAgreement(c)
      PROVE  CatalogInv'
  <2>1. unchecked \subseteq unchecked' /\ unchecked' \subseteq OtherCatalogs
    BY <1>1 DEF PatchAgreement, CatalogInv
  <2>2. c \in Admitted'
    BY <1>1 DEF PatchAgreement, Admitted, Catalogs
  <2>3. Admitted \subseteq Admitted'
    BY <2>1 DEF Admitted
  <2> QED
    BY <1>1, <2>1, <2>2, <2>3 DEF PatchAgreement, CatalogInv
<1>2. ASSUME NEW c \in Catalogs \union {NoCatalog}, SaveAgreementForm(c)
      PROVE  CatalogInv'
  BY <1>2 DEF SaveAgreementForm, ValidCatalog, CatalogInv, Admitted
<1>3. ASSUME NEW w \in Editors, NEW p \in PPlans, NEW c \in Catalogs \union {NoCatalog},
             CreatePlan(w, p, c) \/ PatchPlan(w, p, c) \/ SavePlanForm(w, p, c)
      PROVE  CatalogInv'
  <2>1. CASE CreatePlan(w, p, c)
    <3>1. Or(c, defaultCatalog) \in Admitted
      BY <2>1 DEF CreatePlan, ValidCatalog, Admitted
    <3> QED
      BY <2>1, <3>1, ServeKeeps DEF CreatePlan
  <2>2. CASE PatchPlan(w, p, c)
    <3>1. Or(c, planCatalog[p]) \in Admitted
      BY <2>2, FallbackAdmitted DEF PatchPlan, CatalogInv
    <3> QED
      BY <2>2, <3>1, ServeKeeps DEF PatchPlan
  <2>3. CASE SavePlanForm(w, p, c)
    <3>1. Or(c, defaultCatalog) \in Admitted
      BY <2>3, FallbackAdmitted DEF SavePlanForm, CatalogInv
    <3> QED
      BY <2>3, <3>1, ServeKeeps DEF SavePlanForm
  <2> QED
    BY <1>3, <2>1, <2>2, <2>3
<1>4. ASSUME NEW w \in Editors, SavePlan(w)
      PROVE  CatalogInv'
  <2>1. preq[w].plan \in PPlans /\ preq[w].catalog \in Admitted
    BY <1>4 DEF SavePlan, CatalogInv
  <2>2. Admitted' = Admitted
    BY <1>4 DEF SavePlan, Admitted
  <2>3. planCatalog' \in [PPlans -> Admitted]
    BY <1>4, <2>1 DEF SavePlan, CatalogInv
  <2> QED
    BY <1>4, <2>2, <2>3 DEF SavePlan, CatalogInv, PIdle, Admitted
<1>5. ASSUME NEW p \in PPlans, NEW q \in PPlans, RenewedCatalog(p, q)
      PROVE  CatalogInv'
  BY <1>5 DEF RenewedCatalog, CatalogInv, Admitted
<1>6. CASE UNCHANGED planAdminVars
  BY <1>6 DEF planAdminVars, CatalogInv, Admitted
<1> QED
  BY <1>1, <1>2, <1>3, <1>4, <1>5, <1>6 DEF PlanAdminNext

LEMMA CatalogInvSuffices == CatalogInv => CatalogOfCustomer
<1> SUFFICES ASSUME CatalogInv, NEW p \in PPlans, planCatalog[p] \in OtherCatalogs
             PROVE  planCatalog[p] \in unchecked
  BY DEF CatalogOfCustomer
<1>1. planCatalog[p] \in Admitted
  BY DEF CatalogInv
<1> QED
  BY <1>1, PlanAdminAssumption DEF Admitted

-----------------------------------------------------------------------------
(***************************************************************************)
(* Subsidies: what the cache and the requests know of plans and catalogs.  *)
(***************************************************************************)
CatalogsRead == {<<>>} \union [PPlans -> Catalogs \union {NoCatalog}]

SubsidyRequest == [pc : {"idle", "look", "store"}, left : SUBSET PPlans, all : SUBSET PPlans,
                   catalog : CatalogsRead, value : BOOLEAN]

\* A plan had a catalog, and the catalog held the course or did not, after a time t.
HadSince(p, k, t) == hadAt[p][k] >= t + 1
HeldSince(b, k, t) == heldAt[b][k] >= t + 1

\* A request has passed over plans that need not pay, and knows the catalogs of the others.
SubsidyRequestSound(r) ==
    /\ r \in SubsidyRequest
    /\ r.pc # "idle" =>
         /\ r.left # {} /\ r.left \subseteq r.all
         /\ \A p \in r.left : r.catalog[p] \in Catalogs /\ HadSince(p, r.catalog[p], clock)
         /\ \A p \in r.all \ r.left : Recently(p, FALSE)
    /\ r.pc = "store" => HeldSince(r.value, r.catalog[Furthest(r.left)], clock)

Answered == SubsidyCovers /\ FurthestOffered

HistoryTyped ==
    /\ clock \in Nat
    /\ hadAt \in [PPlans -> [Catalogs -> Nat]]
    /\ heldAt \in [BOOLEAN -> [Catalogs -> Nat]]

\* The history knows the present.
PresentKnown ==
    /\ \A p \in PPlans : planCatalog[p] \in Catalogs => HadSince(p, planCatalog[p], clock)
    /\ \A k \in Catalogs : /\ k \in holders => HeldSince(TRUE, k, clock)
                           /\ k \notin holders => HeldSince(FALSE, k, clock)

\* What is cached was so when it was stored.
CacheSound ==
    /\ cache \in [PPlans -> [value : BOOLEAN, until : Nat]]
    /\ \A p \in PPlans : cache[p].until > clock =>
         \E k \in Catalogs, t \in Nat :
            /\ t <= clock /\ cache[p].until = t + CacheTimeout
            /\ HadSince(p, k, t) /\ HeldSince(cache[p].value, k, t)

SubsidyInv ==
    /\ CatalogInv /\ HistoryTyped /\ PresentKnown /\ CacheSound
    /\ licensed \in SUBSET PPlans
    /\ DOMAIN sreq = Askers /\ \A a \in Askers : SubsidyRequestSound(sreq[a])
    /\ Answered

LEMMA RecordedHistory ==
    ASSUME HistoryTyped, clock' \in Nat, Recorded
    PROVE  /\ HistoryTyped'
           /\ \A p \in PPlans, k \in Catalogs :
                 hadAt'[p][k] = IF planCatalog'[p] = k THEN clock' + 1 ELSE Kept(hadAt[p][k], clock')
           /\ \A b \in BOOLEAN, k \in Catalogs :
                 heldAt'[b][k] = IF (k \in holders') = b THEN clock' + 1 ELSE Kept(heldAt[b][k], clock')
<1>1. \A h, c \in Nat : Kept(h, c) \in Nat
  BY DEF Kept
<1>2. hadAt' = [p \in PPlans |-> [k \in Catalogs |->
                  IF planCatalog'[p] = k THEN clock' + 1 ELSE Kept(hadAt[p][k], clock')]]
  BY DEF Recorded
<1>3. heldAt' = [b \in BOOLEAN |-> [k \in Catalogs |->
                  IF (k \in holders') = b THEN clock' + 1 ELSE Kept(heldAt[b][k], clock')]]
  BY DEF Recorded
<1> DEFINE HadNext(p, k) == IF planCatalog'[p] = k THEN clock' + 1 ELSE Kept(hadAt[p][k], clock')
           HeldNext(b, k) == IF (k \in holders') = b THEN clock' + 1 ELSE Kept(heldAt[b][k], clock')
<1>4. \A p \in PPlans, k \in Catalogs : HadNext(p, k) \in Nat
  <2>1. \A p \in PPlans, k \in Catalogs : hadAt[p][k] \in Nat
    BY DEF HistoryTyped
  <2>2. clock' + 1 \in Nat
    <3>1. \A now \in Nat : now + 1 \in Nat
      OBVIOUS
    <3> QED
      BY <3>1
  <2>3. \A h \in Nat : Kept(h, clock') \in Nat
    BY <1>1
  <2> QED
    BY <2>1, <2>2, <2>3
<1>5. \A b \in BOOLEAN, k \in Catalogs : HeldNext(b, k) \in Nat
  <2>1. \A b \in BOOLEAN, k \in Catalogs : heldAt[b][k] \in Nat
    BY DEF HistoryTyped
  <2>2. clock' + 1 \in Nat
    <3>1. \A now \in Nat : now + 1 \in Nat
      OBVIOUS
    <3> QED
      BY <3>1
  <2>3. \A h \in Nat : Kept(h, clock') \in Nat
    BY <1>1
  <2> QED
    BY <2>1, <2>2, <2>3
<1>6. hadAt' = [p \in PPlans |-> [k \in Catalogs |-> HadNext(p, k)]]
  BY <1>2
<1>7. heldAt' = [b \in BOOLEAN |-> [k \in Catalogs |-> HeldNext(b, k)]]
  BY <1>3
<1>8. (hadAt \in [PPlans -> [Catalogs -> Nat]])'
  <2> HIDE DEF HadNext
  <2> QED
    BY <1>4, <1>6
<1>9. (heldAt \in [BOOLEAN -> [Catalogs -> Nat]])'
  <2> HIDE DEF HeldNext
  <2> QED
    BY <1>5, <1>7
<1> QED
  BY <1>2, <1>3, <1>8, <1>9 DEF HistoryTyped

\* What is remembered lasts as long as the cache.
LEMMA HistoryLasts ==
    ASSUME HistoryTyped, clock' \in Nat, Recorded, NEW t \in Nat, t <= clock', t + CacheTimeout > clock'
    PROVE  /\ \A p \in PPlans, k \in Catalogs : HadSince(p, k, t) => HadSince(p, k, t)'
           /\ \A b \in BOOLEAN, k \in Catalogs : HeldSince(b, k, t) => HeldSince(b, k, t)'
<1>1. CacheTimeout \in Nat
  BY SubsidyAssumption
<1>2. \A h \in Nat : h >= t + 1 => Kept(h, clock') >= t + 1
  <2>1. \A h, now, timeout \in Nat :
           /\ t + timeout > now /\ h >= t + 1
           => h + timeout > now + 1
    OBVIOUS
  <2> QED
    BY <1>1, <2>1 DEF Kept
<1>3. clock' + 1 >= t + 1
  <2>1. \A now \in Nat : t <= now => now + 1 >= t + 1
    OBVIOUS
  <2> QED
    BY <2>1
<1>4. ASSUME NEW p \in PPlans, NEW k \in Catalogs, HadSince(p, k, t)
      PROVE  HadSince(p, k, t)'
  <2>1. hadAt[p][k] \in Nat
    BY DEF HistoryTyped
  <2> QED
    BY <1>2, <1>3, <1>4, <2>1, RecordedHistory DEF HadSince
<1>5. ASSUME NEW b \in BOOLEAN, NEW k \in Catalogs, HeldSince(b, k, t)
      PROVE  HeldSince(b, k, t)'
  <2>1. heldAt[b][k] \in Nat
    BY DEF HistoryTyped
  <2>2. heldAt'[b][k] = clock' + 1 \/ heldAt'[b][k] = Kept(heldAt[b][k], clock')
    BY RecordedHistory
  <2> QED
    BY <1>2, <1>3, <1>5, <2>1, <2>2 DEF HeldSince
<1> QED
  BY <1>4, <1>5

LEMMA RecentlyLasts ==
    ASSUME HistoryTyped, clock' = clock, Recorded, NEW p \in PPlans, NEW b \in BOOLEAN, Recently(p, b)
    PROVE  Recently(p, b)'
<1>1. clock \in Nat /\ CacheTimeout \in Nat \ {0}
  BY SubsidyAssumption DEF HistoryTyped
<1>2. PICK k \in Catalogs : Kept(hadAt[p][k], clock) > 0 /\ Kept(heldAt[b][k], clock) > 0
  BY DEF Recently
<1>3. \A h \in Nat : Kept(h, clock) > 0 => Kept(Kept(h, clock), clock) > 0
  BY <1>1 DEF Kept
<1>4. Kept(clock + 1, clock) > 0
  BY <1>1 DEF Kept
<1>5. hadAt[p][k] \in Nat /\ heldAt[b][k] \in Nat
  BY DEF HistoryTyped
<1>6. hadAt'[p][k] = clock + 1 \/ hadAt'[p][k] = Kept(hadAt[p][k], clock)
  BY <1>1, RecordedHistory
<1>7. heldAt'[b][k] = clock + 1 \/ heldAt'[b][k] = Kept(heldAt[b][k], clock)
  BY <1>1, RecordedHistory
<1>8. Kept(hadAt'[p][k], clock) > 0
  BY <1>2, <1>3, <1>4, <1>5, <1>6
<1>9. Kept(heldAt'[b][k], clock) > 0
  BY <1>2, <1>3, <1>4, <1>5, <1>7
<1> QED
  BY <1>8, <1>9 DEF Recently

\* What was so after a time within the timeout was so recently.
LEMMA SinceIsRecent ==
    ASSUME HistoryTyped, NEW p \in PPlans, NEW k \in Catalogs, NEW b \in BOOLEAN, NEW t \in Nat,
           t + CacheTimeout > clock, HadSince(p, k, t), HeldSince(b, k, t)
    PROVE  Recently(p, b)
<1>1. clock \in Nat /\ CacheTimeout \in Nat /\ hadAt[p][k] \in Nat /\ heldAt[b][k] \in Nat
  BY SubsidyAssumption DEF HistoryTyped
<1>2. \A h \in Nat : h >= t + 1 => Kept(h, clock) > 0
  BY <1>1 DEF Kept
<1>3. Kept(hadAt[p][k], clock) > 0 /\ Kept(heldAt[b][k], clock) > 0
  BY <1>1, <1>2 DEF HadSince, HeldSince
<1> QED
  BY <1>3 DEF Recently


LEMMA SubsidyStart == SubsidyInit => SubsidyInv
<1> SUFFICES ASSUME SubsidyInit PROVE SubsidyInv
  OBVIOUS
<1>1. CatalogInv
  BY CatalogInit DEF SubsidyInit
<1>2. HistoryTyped
  BY DEF SubsidyInit, HistoryTyped
<1>3. PresentKnown
  <2>1. ASSUME NEW p \in PPlans, planCatalog[p] \in Catalogs
        PROVE  HadSince(p, planCatalog[p], clock)
    <3>1. \A k \in Catalogs : planCatalog[p] = k => hadAt[p][k] = 1
      BY DEF SubsidyInit
    <3>2. hadAt[p][planCatalog[p]] = 1 /\ clock = 0
      BY <2>1, <3>1 DEF SubsidyInit
    <3> QED
      BY <3>2 DEF HadSince
  <2>2. ASSUME NEW k \in Catalogs
        PROVE  k \notin holders /\ HeldSince(FALSE, k, clock)
    <3>1. k \notin holders /\ heldAt[FALSE][k] = 1 /\ clock = 0
      BY DEF SubsidyInit
    <3> QED
      BY <3>1 DEF HeldSince
  <2> QED
    BY <2>1, <2>2 DEF PresentKnown
<1>4. CacheSound
  BY DEF SubsidyInit, CacheSound, Miss
<1>5. ASSUME NEW a \in Askers PROVE SubsidyRequestSound(sreq[a])
  BY DEF SubsidyInit, SubsidyRequestSound, SIdle, SubsidyRequest, CatalogsRead
<1>6. Answered
  BY DEF SubsidyInit, Answered, SubsidyCovers, FurthestOffered, NoAnswer
<1> QED
  BY <1>1, <1>2, <1>3, <1>4, <1>5, <1>6 DEF SubsidyInit, SubsidyInv

LEMMA HistoryGoesOn ==
    ASSUME HistoryTyped, CacheSound, NEW now \in Nat, clock = now, clock' \in {now, now + 1},
           Recorded, cache' = cache
    PROVE  HistoryTyped' /\ PresentKnown' /\ CacheSound'
<1>1. PICK next \in Nat : clock' = next /\ now <= next
  BY DEF HistoryTyped
<1>2. ASSUME NEW p \in PPlans, planCatalog'[p] \in Catalogs
      PROVE  HadSince(p, planCatalog[p], clock)'
  <2>1. hadAt'[p][planCatalog'[p]] = clock' + 1
    BY <1>1, <1>2, RecordedHistory
  <2> QED
    BY <1>1, <2>1 DEF HadSince
<1>3. ASSUME NEW k \in Catalogs
      PROVE  /\ k \in holders' => HeldSince(TRUE, k, clock)'
             /\ k \notin holders' => HeldSince(FALSE, k, clock)'
  <2>1. heldAt'[TRUE][k] = IF (k \in holders') = TRUE THEN clock' + 1 ELSE Kept(heldAt[TRUE][k], clock')
    BY <1>1, RecordedHistory
  <2>2. heldAt'[FALSE][k] = IF (k \in holders') = FALSE THEN clock' + 1 ELSE Kept(heldAt[FALSE][k], clock')
    BY <1>1, RecordedHistory
  <2>3. k \in holders' => heldAt'[TRUE][k] = clock' + 1
    BY <2>1
  <2>4. ASSUME k \notin holders' PROVE heldAt'[FALSE][k] = clock' + 1
    <3>1. (k \in holders') = FALSE
      BY <2>4
    <3> QED
      BY <2>2, <3>1
  <2>5. clock' + 1 >= clock' + 1
    BY <1>1
  <2> QED
    BY <2>3, <2>4, <2>5 DEF HeldSince
<1>4. ASSUME NEW p \in PPlans, cache'[p].until > clock'
      PROVE  (\E k \in Catalogs, t \in Nat :
                 /\ t <= clock /\ cache[p].until = t + CacheTimeout
                 /\ HadSince(p, k, t) /\ HeldSince(cache[p].value, k, t))'
  <2>1. PICK e \in [value : BOOLEAN, until : Nat] : cache[p] = e
    BY DEF CacheSound
  <2>2. e.value \in BOOLEAN /\ e.until \in Nat /\ cache'[p] = e
    BY <2>1
  <2>3. e.until > next /\ e.until > now
    BY <1>1, <1>4, <2>2
  <2>4. PICK k \in Catalogs, t \in Nat : /\ t <= now /\ e.until = t + CacheTimeout
                                         /\ HadSince(p, k, t) /\ HeldSince(e.value, k, t)
    BY <2>1, <2>3 DEF CacheSound
  <2>5. t <= clock' /\ t + CacheTimeout > clock'
    BY <1>1, <2>3, <2>4
  <2>6. HadSince(p, k, t)' /\ HeldSince(e.value, k, t)'
    BY <1>1, <2>2, <2>4, <2>5, HistoryLasts
  <2> QED
    BY <2>2, <2>4, <2>5, <2>6 DEF HeldSince
<1>5. CacheSound'
  BY <1>4 DEF CacheSound
<1>6. PresentKnown'
  BY <1>2, <1>3 DEF PresentKnown
<1>7. HistoryTyped'
  BY <1>1, RecordedHistory
<1> QED
  BY <1>5, <1>6, <1>7

LEMMA FurthestIsFurthest ==
    ASSUME NEW plans \in SUBSET PPlans, plans # {}
    PROVE  Furthest(plans) \in plans /\ \A q \in plans : q <= Furthest(plans)
<1>1. plans \in SUBSET Nat /\ IsFiniteSet(plans)
  BY PlanAdminAssumption, FS_Subset
<1>2. \E p \in plans : \A q \in plans : q <= p
  BY <1>1, GreatestNumber
<1> QED
  BY <1>2 DEF Furthest

\* A request stays sound while the world moves on around it.
LEMMA RequestsStay ==
    ASSUME HistoryTyped, clock' = clock, Recorded, NEW r, SubsidyRequestSound(r)
    PROVE  SubsidyRequestSound(r)'
<1>1. PICK now \in Nat : clock = now /\ clock' = now /\ now + CacheTimeout > now
  BY SubsidyAssumption DEF HistoryTyped
<1>2. \A p \in PPlans, k \in Catalogs : HadSince(p, k, now) => HadSince(p, k, now)'
  BY <1>1, HistoryLasts
<1>3. \A b \in BOOLEAN, k \in Catalogs : HeldSince(b, k, now) => HeldSince(b, k, now)'
  BY <1>1, HistoryLasts
<1>4. r \in SubsidyRequest /\ r.left \subseteq PPlans /\ r.all \subseteq PPlans /\ r.value \in BOOLEAN
  BY DEF SubsidyRequestSound, SubsidyRequest
<1>5. ASSUME NEW p \in r.left, r.pc # "idle"
      PROVE  r.catalog[p] \in Catalogs /\ HadSince(p, r.catalog[p], clock)'
  <2>1. p \in PPlans /\ r.catalog[p] \in Catalogs /\ HadSince(p, r.catalog[p], now)
    BY <1>1, <1>4, <1>5 DEF SubsidyRequestSound
  <2>2. HadSince(p, r.catalog[p], now)'
    BY <1>2, <2>1
  <2> QED
    BY <1>1, <2>1, <2>2 DEF HadSince
<1>6. ASSUME NEW p \in r.all \ r.left, r.pc # "idle"
      PROVE  Recently(p, FALSE)'
  <2>1. p \in PPlans /\ Recently(p, FALSE)
    BY <1>4, <1>6 DEF SubsidyRequestSound
  <2> QED
    BY <1>1, <2>1, RecentlyLasts
<1>7. ASSUME r.pc = "store"
      PROVE  HeldSince(r.value, r.catalog[Furthest(r.left)], clock)'
  <2>1. Furthest(r.left) \in r.left /\ r.catalog[Furthest(r.left)] \in Catalogs
    BY <1>4, <1>7, FurthestIsFurthest DEF SubsidyRequestSound
  <2>2. PICK k \in Catalogs : k = r.catalog[Furthest(r.left)]
    BY <2>1
  <2>3. HeldSince(r.value, k, now)
    BY <1>1, <1>7, <2>2 DEF SubsidyRequestSound
  <2>4. HeldSince(r.value, k, now)'
    BY <1>3, <1>4, <2>3
  <2> QED
    BY <1>1, <2>2, <2>4 DEF HeldSince
<1>8. r.pc # "idle" => r.left # {} /\ r.left \subseteq r.all
  BY DEF SubsidyRequestSound
<1> QED
  BY <1>4, <1>5, <1>6, <1>7, <1>8 DEF SubsidyRequestSound


\* The world changes within a moment, and no request moves.
LEMMA WorldMoves ==
    ASSUME SubsidyInv, CatalogInv', clock' = clock, cache' = cache, sreq' = sreq,
           answer' = NoAnswer, licensed' \in SUBSET PPlans, Recorded
    PROVE  SubsidyInv'
<1>1. HistoryTyped' /\ PresentKnown' /\ CacheSound'
  <2>1. PICK now \in Nat : clock = now
    BY DEF SubsidyInv, HistoryTyped
  <2> QED
    BY <2>1, HistoryGoesOn DEF SubsidyInv
<1>2. ASSUME NEW a \in Askers PROVE SubsidyRequestSound(sreq[a])'
  <2>1. PICK r : sreq[a] = r
    OBVIOUS
  <2>2. SubsidyRequestSound(r)
    BY <2>1 DEF SubsidyInv
  <2>3. SubsidyRequestSound(r)'
    BY <2>2, RequestsStay DEF SubsidyInv
  <2> QED
    BY <2>1, <2>3
<1>3. Answered'
  BY DEF Answered, SubsidyCovers, FurthestOffered, NoAnswer
<1> QED
  BY <1>1, <1>2, <1>3 DEF SubsidyInv

LEMMA SubsidyTicks ==
    ASSUME SubsidyInv, SubsidyTick
    PROVE  SubsidyInv'
<1>1. HistoryTyped' /\ PresentKnown' /\ CacheSound'
  <2>1. PICK now \in Nat : clock = now
    BY DEF SubsidyInv, HistoryTyped
  <2> QED
    BY <2>1, HistoryGoesOn DEF SubsidyInv, SubsidyTick
<1>2. ASSUME NEW a \in Askers PROVE SubsidyRequestSound(sreq[a])'
  <2>1. sreq'[a] = SIdle
    BY DEF SubsidyTick
  <2> QED
    BY <2>1 DEF SubsidyRequestSound, SIdle, SubsidyRequest, CatalogsRead
<1>3. Answered'
  BY DEF SubsidyTick, Answered, SubsidyCovers, FurthestOffered, NoAnswer
<1>4. CatalogInv'
  BY CatalogStep DEF SubsidyInv, SubsidyTick
<1> QED
  BY <1>1, <1>2, <1>3, <1>4 DEF SubsidyInv, SubsidyTick

\* What stays when only requests and the cache move.
LEMMA WorldRests ==
    ASSUME SubsidyInv, SubsidyUnchanged
    PROVE  /\ CatalogInv' /\ HistoryTyped' /\ PresentKnown'
           /\ licensed' \in SUBSET PPlans
           /\ \A p, k, t : HadSince(p, k, t)' = HadSince(p, k, t)
           /\ \A b, k, t : HeldSince(b, k, t)' = HeldSince(b, k, t)
           /\ \A p, b : Recently(p, b)' = Recently(p, b)
           /\ \A r : SubsidyRequestSound(r) => SubsidyRequestSound(r)'
           /\ cache' = cache => CacheSound'
<1>1. clock' = clock /\ hadAt' = hadAt /\ heldAt' = heldAt /\ holders' = holders
      /\ licensed' = licensed /\ planCatalog' = planCatalog
  BY DEF SubsidyUnchanged, planAdminVars
<1>2. CatalogInv'
  BY CatalogStep DEF SubsidyInv, SubsidyUnchanged
<1>3. HistoryTyped'
  BY <1>1 DEF SubsidyInv, HistoryTyped
<1>4. PresentKnown'
  BY <1>1 DEF SubsidyInv, PresentKnown, HadSince, HeldSince
<1>5. /\ \A p, k, t : HadSince(p, k, t)' = HadSince(p, k, t)
      /\ \A b, k, t : HeldSince(b, k, t)' = HeldSince(b, k, t)
      /\ \A p, b : Recently(p, b)' = Recently(p, b)
  BY <1>1 DEF HadSince, HeldSince, Recently
<1>6. \A r : SubsidyRequestSound(r) => SubsidyRequestSound(r)'
  BY <1>1 DEF SubsidyRequestSound, HadSince, HeldSince, Recently
<1>7. cache' = cache => CacheSound'
  BY <1>1 DEF SubsidyInv, CacheSound, HadSince, HeldSince
<1> QED
  BY <1>1, <1>2, <1>3, <1>4, <1>5, <1>6, <1>7 DEF SubsidyInv

\* The answer for one plan is known: the request ends or goes on to the next license.
LEMMA Concluding ==
    ASSUME SubsidyInv, SubsidyUnchanged, NEW a \in Askers, sreq[a].pc # "idle",
           NEW p \in PPlans, p = Furthest(sreq[a].left),
           NEW value \in BOOLEAN, Recently(p, value), Conclude(a, p, value), CacheSound'
    PROVE  SubsidyInv'
<1>1. PICK r \in SubsidyRequest : sreq[a] = r /\ SubsidyRequestSound(r) /\ r.pc # "idle"
  BY DEF SubsidyInv, SubsidyRequestSound
<1>2. /\ r.left \in SUBSET PPlans /\ r.all \in SUBSET PPlans /\ r.left # {} /\ r.left \subseteq r.all
      /\ r.catalog \in CatalogsRead
      /\ \A q \in r.left : r.catalog[q] \in Catalogs /\ HadSince(q, r.catalog[q], clock)
      /\ \A q \in r.all \ r.left : Recently(q, FALSE)
  BY <1>1 DEF SubsidyRequestSound, SubsidyRequest
<1>3. p \in r.left /\ \A q \in r.left : q <= p
  BY <1>1, <1>2, FurthestIsFurthest
<1>4. \A b \in SUBSET PPlans : b \subseteq Nat \ {0}
  BY PlanAdminAssumption
<1> DEFINE rest == r.left \ {p}
<1>5. CASE value = TRUE
  <2>1. sreq' = [sreq EXCEPT ![a] = SIdle] /\ answer' = [plans |-> r.all, plan |-> p]
    BY <1>1, <1>5 DEF Conclude
  <2>2. ASSUME NEW q \in r.all, q > p PROVE Recently(q, FALSE)
    <3>1. q \in Nat /\ p \in Nat
      BY <1>2, <1>4
    <3>2. q \notin r.left
      BY <1>3, <2>2, <3>1
    <3> QED
      BY <1>2, <3>2
  <2>3. Answered'
    BY <1>5, <2>1, <2>2, WorldRests DEF Answered, SubsidyCovers, FurthestOffered
  <2>4. ASSUME NEW b \in Askers PROVE SubsidyRequestSound(sreq[b])'
    <3>1. CASE b = a
      <4>1. sreq'[b] = SIdle
        BY <2>1, <3>1 DEF SubsidyInv
      <4> QED
        BY <4>1 DEF SubsidyRequestSound, SIdle, SubsidyRequest, CatalogsRead
    <3>2. CASE b # a
      <4>1. PICK s : sreq[b] = s /\ sreq'[b] = s
        BY <2>1, <3>2
      <4> QED
        BY <4>1, WorldRests DEF SubsidyInv
    <3> QED
      BY <3>1, <3>2
  <2>5. DOMAIN sreq' = Askers
    BY <2>1 DEF SubsidyInv
  <2> QED
    BY <2>3, <2>4, <2>5, WorldRests DEF SubsidyInv
<1>6. CASE value = FALSE /\ rest = {}
  <2>1. sreq' = [sreq EXCEPT ![a] = SIdle] /\ answer' = [plans |-> r.all, plan |-> 0]
    BY <1>1, <1>6 DEF Conclude
  <2>2. ASSUME NEW q \in r.all PROVE Recently(q, FALSE)
    BY <1>2, <1>6
  <2>3. Answered'
    BY <2>1, <2>2, WorldRests DEF Answered, SubsidyCovers, FurthestOffered
  <2>4. ASSUME NEW b \in Askers PROVE SubsidyRequestSound(sreq[b])'
    <3>1. CASE b = a
      <4>1. sreq'[b] = SIdle
        BY <2>1, <3>1 DEF SubsidyInv
      <4> QED
        BY <4>1 DEF SubsidyRequestSound, SIdle, SubsidyRequest, CatalogsRead
    <3>2. CASE b # a
      <4>1. PICK s : sreq[b] = s /\ sreq'[b] = s
        BY <2>1, <3>2
      <4> QED
        BY <4>1, WorldRests DEF SubsidyInv
    <3> QED
      BY <3>1, <3>2
  <2>5. DOMAIN sreq' = Askers
    BY <2>1 DEF SubsidyInv
  <2> QED
    BY <2>3, <2>4, <2>5, WorldRests DEF SubsidyInv
<1>7. CASE value = FALSE /\ rest # {}
  <2> DEFINE s == [r EXCEPT !.pc = "look", !.left = rest, !.value = FALSE]
  <2>1. sreq' = [sreq EXCEPT ![a] = s] /\ answer' = NoAnswer
    BY <1>1, <1>7 DEF Conclude
  <2>2. /\ s \in SubsidyRequest /\ s.pc = "look" /\ s.left = rest /\ s.value = FALSE
        /\ s.all = r.all /\ s.catalog = r.catalog
    BY <1>2 DEF SubsidyRequest
  <2> HIDE DEF s
  <2>3. SubsidyRequestSound(s)
    BY <1>2, <1>7, <2>2 DEF SubsidyRequestSound
  <2>4. Answered'
    BY <2>1 DEF Answered, SubsidyCovers, FurthestOffered, NoAnswer
  <2>5. ASSUME NEW b \in Askers PROVE SubsidyRequestSound(sreq[b])'
    <3>1. PICK u : sreq'[b] = u /\ SubsidyRequestSound(u)
      BY <2>1, <2>3 DEF SubsidyInv
    <3> QED
      BY <3>1, WorldRests
  <2>6. DOMAIN sreq' = Askers
    BY <2>1 DEF SubsidyInv
  <2> QED
    BY <2>4, <2>5, <2>6, WorldRests DEF SubsidyInv
<1> QED
  BY <1>5, <1>6, <1>7


LEMMA SubsidyAsks ==
    ASSUME SubsidyInv, NEW a \in Askers, SubsidyAsk(a)
    PROVE  SubsidyInv'
<1> DEFINE plans == {p \in licensed : PlanExists(p)}
           r == [pc |-> "look", left |-> plans, all |-> plans, catalog |-> planCatalog,
                 value |-> FALSE]
<1>1. SubsidyUnchanged /\ cache' = cache /\ answer' = NoAnswer /\ plans # {}
      /\ sreq' = [sreq EXCEPT ![a] = r]
  BY DEF SubsidyAsk
<1>2. plans \in SUBSET PPlans
  BY DEF SubsidyInv
<1>3. planCatalog \in [PPlans -> Catalogs \union {NoCatalog}]
  BY DEF SubsidyInv, CatalogInv, Admitted, Catalogs
<1>4. \A p \in plans : planCatalog[p] \in Catalogs
  BY <1>2, <1>3 DEF PlanExists
<1>5. SubsidyRequestSound(r)
  <2>1. \A p \in plans : HadSince(p, planCatalog[p], clock)
    BY <1>2, <1>4 DEF SubsidyInv, PresentKnown
  <2>2. r \in SubsidyRequest
    BY <1>2, <1>3 DEF SubsidyRequest, CatalogsRead
  <2> QED
    BY <1>1, <1>4, <2>1, <2>2 DEF SubsidyRequestSound
<1> HIDE DEF r
<1>6. ASSUME NEW b \in Askers PROVE SubsidyRequestSound(sreq[b])'
  <2>1. PICK u : sreq'[b] = u /\ SubsidyRequestSound(u)
    BY <1>1, <1>5 DEF SubsidyInv
  <2> QED
    BY <1>1, <2>1, WorldRests
<1>7. Answered'
  BY <1>1 DEF Answered, SubsidyCovers, FurthestOffered, NoAnswer
<1>8. DOMAIN sreq' = Askers
  BY <1>1 DEF SubsidyInv
<1> QED
  BY <1>1, <1>6, <1>7, <1>8, WorldRests DEF SubsidyInv

LEMMA SubsidyHits ==
    ASSUME SubsidyInv, NEW a \in Askers, SubsidyCached(a)
    PROVE  SubsidyInv'
<1>1. PICK r \in SubsidyRequest : sreq[a] = r /\ SubsidyRequestSound(r) /\ r.pc = "look"
  BY DEF SubsidyCached, SubsidyInv, SubsidyRequestSound
<1>2. r.left \in SUBSET PPlans /\ r.left # {}
  BY <1>1 DEF SubsidyRequestSound, SubsidyRequest
<1>3. PICK p \in PPlans : p = Furthest(r.left)
  BY <1>2, FurthestIsFurthest
<1>4. PICK e \in [value : BOOLEAN, until : Nat] : cache[p] = e
  BY DEF SubsidyInv, CacheSound
<1>5. e.until > clock /\ e.value \in BOOLEAN
  BY <1>1, <1>3, <1>4 DEF SubsidyCached
<1>6. PICK k \in Catalogs, t \in Nat : /\ e.until = t + CacheTimeout
                                       /\ HadSince(p, k, t) /\ HeldSince(e.value, k, t)
  BY <1>4, <1>5 DEF SubsidyInv, CacheSound
<1>7. Recently(p, e.value)
  BY <1>5, <1>6, SinceIsRecent DEF SubsidyInv
<1>8. SubsidyUnchanged /\ cache' = cache /\ Conclude(a, p, e.value)
  BY <1>1, <1>3, <1>4 DEF SubsidyCached
<1> QED
  BY <1>1, <1>3, <1>5, <1>7, <1>8, Concluding, WorldRests

LEMMA SubsidyCalls ==
    ASSUME SubsidyInv, NEW a \in Askers, SubsidyCall(a) \/ SubsidyFails(a)
    PROVE  SubsidyInv'
<1>1. SubsidyUnchanged /\ cache' = cache /\ answer' = NoAnswer
  BY DEF SubsidyCall, SubsidyFails
<1>2. PICK r \in SubsidyRequest : sreq[a] = r /\ SubsidyRequestSound(r) /\ r.pc = "look"
  BY DEF SubsidyCall, SubsidyFails, SubsidyInv, SubsidyRequestSound
<1>3. r.left \in SUBSET PPlans /\ r.left # {} /\ r.left \subseteq r.all /\ r.value \in BOOLEAN
  BY <1>2 DEF SubsidyRequestSound, SubsidyRequest
<1>4. PICK p \in r.left : p = Furthest(r.left)
  BY <1>3, FurthestIsFurthest
<1>5. PICK k \in Catalogs : k = r.catalog[p]
  BY <1>2 DEF SubsidyRequestSound
<1>6. \E u : SubsidyRequestSound(u) /\ sreq' = [sreq EXCEPT ![a] = u]
  <2>1. CASE SubsidyFails(a)
    <3>1. SubsidyRequestSound(SIdle)
      BY DEF SubsidyRequestSound, SIdle, SubsidyRequest, CatalogsRead
    <3> QED
      BY <2>1, <3>1 DEF SubsidyFails
  <2>2. CASE SubsidyCall(a)
    <3>1. PICK holds \in BOOLEAN : holds = (k \in holders)
      <4>1. CASE k \in holders
        <5>1. TRUE = (k \in holders)
          BY <4>1
        <5> QED
          BY <5>1
      <4>2. CASE k \notin holders
        <5>1. FALSE = (k \in holders)
          BY <4>2
        <5> QED
          BY <5>1
      <4> QED
        BY <4>1, <4>2
    <3> DEFINE u == [r EXCEPT !.pc = "store", !.value = holds]
    <3>2. sreq' = [sreq EXCEPT ![a] = u]
      BY <1>2, <1>4, <1>5, <2>2, <3>1 DEF SubsidyCall
    <3>3. /\ u \in SubsidyRequest /\ u.pc = "store" /\ u.left = r.left /\ u.value = holds
          /\ u.all = r.all /\ u.catalog = r.catalog
      BY DEF SubsidyRequest
    <3>4. HeldSince(holds, k, clock)
      <4>1. CASE k \in holders
        <5>1. holds = TRUE
          BY <3>1, <4>1
        <5> QED
          BY <4>1, <5>1 DEF SubsidyInv, PresentKnown
      <4>2. CASE k \notin holders
        <5>1. holds = FALSE
          BY <3>1, <4>2
        <5> QED
          BY <4>2, <5>1 DEF SubsidyInv, PresentKnown
      <4> QED
        BY <4>1, <4>2
    <3> HIDE DEF u
    <3>5. SubsidyRequestSound(u)
      BY <1>2, <1>3, <1>4, <1>5, <3>3, <3>4 DEF SubsidyRequestSound
    <3> QED
      BY <3>2, <3>5
  <2> QED
    BY <2>1, <2>2
<1>7. ASSUME NEW b \in Askers PROVE SubsidyRequestSound(sreq[b])'
  <2>1. PICK u : sreq'[b] = u /\ SubsidyRequestSound(u)
    BY <1>6 DEF SubsidyInv
  <2> QED
    BY <1>1, <2>1, WorldRests
<1>8. Answered'
  BY <1>1 DEF Answered, SubsidyCovers, FurthestOffered, NoAnswer
<1>9. DOMAIN sreq' = Askers
  BY <1>6 DEF SubsidyInv
<1> QED
  BY <1>1, <1>7, <1>8, <1>9, WorldRests DEF SubsidyInv

LEMMA SubsidyStores ==
    ASSUME SubsidyInv, NEW a \in Askers, SubsidyStore(a)
    PROVE  SubsidyInv'
<1>1. PICK r \in SubsidyRequest : sreq[a] = r /\ SubsidyRequestSound(r) /\ r.pc = "store"
  BY DEF SubsidyStore, SubsidyInv, SubsidyRequestSound
<1>2. r.left \in SUBSET PPlans /\ r.left # {} /\ r.value \in BOOLEAN
  BY <1>1 DEF SubsidyRequestSound, SubsidyRequest
<1>3. PICK p \in PPlans : p = Furthest(r.left) /\ p \in r.left
  BY <1>2, FurthestIsFurthest
<1>4. PICK k \in Catalogs : k = r.catalog[p]
  BY <1>1, <1>3 DEF SubsidyRequestSound
<1>5. HadSince(p, k, clock) /\ HeldSince(r.value, k, clock)
  BY <1>1, <1>3, <1>4 DEF SubsidyRequestSound
<1>6. PICK now \in Nat : clock = now /\ now + CacheTimeout > now /\ now + CacheTimeout \in Nat
  BY SubsidyAssumption DEF SubsidyInv, HistoryTyped
<1>7. Recently(p, r.value)
  BY <1>2, <1>5, <1>6, SinceIsRecent DEF SubsidyInv
<1> DEFINE e == [value |-> r.value, until |-> now + CacheTimeout]
<1>8. SubsidyUnchanged /\ cache' = [cache EXCEPT ![p] = e] /\ Conclude(a, p, r.value)
  BY <1>1, <1>3, <1>6 DEF SubsidyStore
<1>9. e \in [value : BOOLEAN, until : Nat] /\ e.value = r.value /\ e.until = now + CacheTimeout
  BY <1>2, <1>6
<1> HIDE DEF e
<1>10. CacheSound'
  <2>1. cache' \in [PPlans -> [value : BOOLEAN, until : Nat]]
    BY <1>8, <1>9 DEF SubsidyInv, CacheSound
  <2>2. clock' = now
    BY <1>6, <1>8 DEF SubsidyUnchanged
  <2>3. ASSUME NEW q \in PPlans, cache'[q].until > clock'
        PROVE  \E c \in Catalogs, t \in Nat :
                  /\ t <= now /\ cache'[q].until = t + CacheTimeout
                  /\ HadSince(q, c, t) /\ HeldSince(cache'[q].value, c, t)
    <3>1. CASE q = p
      <4>1. cache'[q] = e
        BY <1>8, <3>1 DEF SubsidyInv, CacheSound
      <4>2. now <= now
        BY <1>6
      <4>3. HadSince(q, k, now) /\ HeldSince(cache'[q].value, k, now)
        BY <1>5, <1>6, <1>9, <3>1, <4>1
      <4> QED
        BY <1>6, <1>9, <4>1, <4>2, <4>3
    <3>2. CASE q # p
      <4>1. cache'[q] = cache[q]
        BY <1>8, <3>2 DEF SubsidyInv, CacheSound
      <4> QED
        BY <1>6, <2>2, <2>3, <4>1 DEF SubsidyInv, CacheSound
    <3> QED
      BY <3>1, <3>2
  <2>4. \A q, c, t : /\ HadSince(q, c, t)' = HadSince(q, c, t)
                     /\ HeldSince(cache[q].value, c, t)' = HeldSince(cache'[q].value, c, t)
    BY <1>8 DEF SubsidyUnchanged, HadSince, HeldSince
  <2> QED
    BY <2>1, <2>2, <2>3, <2>4, <1>8, WorldRests DEF CacheSound
<1> QED
  BY <1>1, <1>2, <1>3, <1>7, <1>8, <1>10, Concluding

LEMMA SubsidyStep ==
    ASSUME SubsidyInv, [SubsidyNext]_subsidyVars
    PROVE  SubsidyInv'
<1>1. CASE PlansChange
  <2>1. CatalogInv'
    BY <1>1, CatalogStep DEF SubsidyInv, PlansChange
  <2> QED
    BY <1>1, <2>1, WorldMoves DEF SubsidyInv, PlansChange
<1>2. ASSUME NEW k \in Catalogs, ContentChanges(k) PROVE SubsidyInv'
  <2>1. CatalogInv'
    BY <1>2 DEF SubsidyInv, ContentChanges, CatalogInv, Admitted
  <2> QED
    BY <1>2, <2>1, WorldMoves DEF SubsidyInv, ContentChanges
<1>3. ASSUME NEW p \in PPlans, LicenseChanges(p) PROVE SubsidyInv'
  <2>1. CatalogInv'
    BY <1>3 DEF SubsidyInv, LicenseChanges, CatalogInv, Admitted
  <2>2. licensed' \in SUBSET PPlans
    BY <1>3 DEF SubsidyInv, LicenseChanges
  <2> QED
    BY <1>3, <2>1, <2>2, WorldMoves DEF LicenseChanges
<1>4. CASE SubsidyTick
  BY <1>4, SubsidyTicks
<1>5. ASSUME NEW a \in Askers,
             SubsidyAsk(a) \/ SubsidyCached(a) \/ SubsidyCall(a) \/ SubsidyFails(a) \/ SubsidyStore(a)
      PROVE  SubsidyInv'
  BY <1>5, SubsidyAsks, SubsidyHits, SubsidyCalls, SubsidyStores
<1>6. CASE UNCHANGED subsidyVars
  <2>1. SubsidyUnchanged /\ cache' = cache /\ sreq' = sreq /\ answer' = answer
    BY <1>6 DEF subsidyVars, subsidyOwnVars, SubsidyUnchanged
  <2>2. ASSUME NEW a \in Askers PROVE SubsidyRequestSound(sreq[a])'
    <3>1. PICK u : sreq[a] = u /\ sreq'[a] = u
      BY <2>1
    <3> QED
      BY <3>1, <2>1, WorldRests DEF SubsidyInv
  <2>3. Answered'
    BY <2>1, WorldRests DEF SubsidyInv, Answered, SubsidyCovers, FurthestOffered, NoAnswer
  <2> QED
    BY <2>1, <2>2, <2>3, WorldRests DEF SubsidyInv
<1> QED
  BY <1>1, <1>2, <1>3, <1>4, <1>5, <1>6 DEF SubsidyNext

-----------------------------------------------------------------------------
(****************************************************************************)
(* The e-mail addresses that listing writes into licenses.                 *)
(****************************************************************************)
Row == [status : {"absent", "unassigned", "assigned", "activated", "revoked"},
        email : Addresses \union {0}, owner : Owners \union {NoOwner}]

\* A user had the address that the LMS has for him and, since it is renewed from there,
\* the one in his token.
AddressInv ==
    /\ rows \in [Listed -> Row]
    /\ address \in [Owners -> Addresses] /\ token \in [Owners -> Addresses]
    /\ hadAddress \in [Owners -> SUBSET Addresses]
    /\ \A u \in Owners : {address[u], token[u]} \subseteq hadAddress[u]
    /\ AddressOfOwner

LEMMA AddressInit == ListingInit => AddressInv
  BY ListingAssumption DEF ListingInit, AddressInv, AddressOfOwner, Row, Free, Absent

LEMMA NextRows ==
    /\ (\E l \in Listed : rows[l] = Free) => NextFree \in Listed
    /\ (\E l \in Listed : rows[l] = Absent) => NextRow \in Listed
  BY DEF NextFree, NextRow

\* Changes that hand no license to a user keep the invariant if they keep its types.
LEMMA NobodyGetsOne ==
    ASSUME AddressInv, UNCHANGED <<address, token, hadAddress>>, rows' \in [Listed -> Row],
           \A l \in Listed : \/ rows'[l].owner = NoOwner
                             \/ rows'[l].owner = rows[l].owner /\ rows'[l].email = rows[l].email
    PROVE  AddressInv'
  BY DEF AddressInv, AddressOfOwner

LEMMA AddressStep ==
    ASSUME AddressInv, [ListingNext]_listingVars
    PROVE  AddressInv'
<1>1. ASSUME UNCHANGED <<rows, address, token, hadAddress>>
      PROVE  AddressInv'
  BY <1>1 DEF AddressInv, AddressOfOwner
<1>2. ASSUME NEW e \in Addresses, AssignRow(e)
      PROVE  AddressInv'
  <2>1. rows' \in [Listed -> Row]
    BY <1>2, NextRows DEF AssignRow, AddressInv, Row
  <2> QED
    BY <1>2, <2>1, NextRows, NobodyGetsOne DEF AssignRow, AddressInv
<1>3. ASSUME NEW u \in Owners, NEW l \in Listed, ActivateRow(u, l)
      PROVE  AddressInv'
  <2>1. rows[l] \in Row /\ token[u] \in hadAddress[u]
    BY DEF AddressInv
  <2>2. rows' = [rows EXCEPT ![l] = [rows[l] EXCEPT !.status = "activated", !.owner = u]]
    BY <1>3, <2>1 DEF ActivateRow, AddressInv, Row
  <2>3. rows' \in [Listed -> Row]
    BY <2>1, <2>2 DEF AddressInv, Row
  <2>4. rows'[l].owner = u /\ rows'[l].email = token[u]
    BY <1>3, <2>1, <2>2 DEF ActivateRow, AddressInv, Row
  <2> QED
    BY <1>3, <2>1, <2>2, <2>3, <2>4 DEF ActivateRow, AddressInv, AddressOfOwner
<1>4. ASSUME NEW l \in Listed, RevokeRow(l)
      PROVE  AddressInv'
  <2>1. rows[l] \in Row /\ NextRow \in Listed /\ Free \in Row
    BY <1>4, NextRows DEF AddressInv, RevokeRow, Row, Free
  <2>2. rows' = [rows EXCEPT ![l] = [rows[l] EXCEPT !.status = "revoked"], ![NextRow] = Free]
    BY <1>4, <2>1 DEF RevokeRow, AddressInv, Row
  <2>3. rows' \in [Listed -> Row]
    BY <2>1, <2>2 DEF AddressInv, Row
  <2>4. \A m \in Listed : \/ rows'[m].owner = NoOwner
                          \/ rows'[m].owner = rows[m].owner /\ rows'[m].email = rows[m].email
    BY <2>1, <2>2 DEF AddressInv, Row, Free
  <2> QED
    BY <1>4, <2>3, <2>4, NobodyGetsOne DEF RevokeRow
<1>5. CASE AddRow
  <2>1. rows' \in [Listed -> Row]
    BY <1>5, NextRows DEF AddRow, AddressInv, Row, Free
  <2> QED
    BY <1>5, <2>1, NextRows, NobodyGetsOne DEF AddRow, AddressInv, Free
<1>6. ASSUME NEW u \in Owners, NEW e \in Addresses, NewAddress(u, e)
      PROVE  AddressInv'
  BY <1>6 DEF NewAddress, AddressInv, AddressOfOwner, Row
<1>7. ASSUME NEW u \in Owners, NewToken(u)
      PROVE  AddressInv'
  BY <1>7 DEF NewToken, AddressInv, AddressOfOwner
<1>8. ASSUME NEW u \in Owners, LearnerLists(u)
      PROVE  AddressInv'
  <2>1. token[u] \in Addresses /\ token[u] \in hadAddress[u]
    BY DEF AddressInv
  <2>2. \A l \in Listed : /\ [rows[l] EXCEPT !.email = token[u]] \in Row
                          /\ [rows[l] EXCEPT !.email = token[u]].owner = rows[l].owner
                          /\ [rows[l] EXCEPT !.email = token[u]].email = token[u]
    BY <2>1 DEF AddressInv, Row
  <2>3. rows' \in [Listed -> Row]
    BY <1>8, <2>2 DEF LearnerLists, AddressInv
  <2>4. ASSUME NEW l \in Listed, rows'[l].owner # NoOwner
        PROVE  rows'[l].email \in hadAddress[rows'[l].owner]
    <3>1. CASE l \in Outdated(u)
      BY <1>8, <2>1, <2>2, <3>1 DEF LearnerLists, Outdated
    <3>2. CASE l \notin Outdated(u)
      BY <1>8, <2>4, <3>2 DEF LearnerLists, AddressInv, AddressOfOwner
    <3> QED
      BY <3>1, <3>2
  <2> QED
    BY <1>8, <2>3, <2>4 DEF LearnerLists, AddressInv, AddressOfOwner
<1>9. CASE WalkPage \/ \E filter \in {"usable", "active_only", "none"} : WalkStart(filter)
  BY <1>1, <1>9 DEF WalkPage, WalkStart
<1>10. CASE UNCHANGED listingVars
  BY <1>1, <1>10 DEF listingVars
<1> QED
  BY <1>2, <1>3, <1>4, <1>5, <1>6, <1>7, <1>8, <1>9, <1>10 DEF ListingNext

-----------------------------------------------------------------------------
(***************************************************************************)
(* The walk through the pages of the list.                                 *)
(***************************************************************************)

\* A sequence of a set's elements, each once, has them all, and as many as its length
\* before each.
LEMMA PlacesInOrder ==
    ASSUME NEW S, IsFiniteSet(S), NEW order \in SetToSeqs(S)
    PROVE  /\ order \in [1..Cardinality(S) -> S] /\ Cardinality(S) \in Nat
           /\ Len(order) = Cardinality(S)
           /\ \A i, j \in 1..Cardinality(S) : i # j => order[i] # order[j]
           /\ \A x \in S : \E i \in 1..Cardinality(S) : order[i] = x
           /\ \A i \in 1..Cardinality(S) : Cardinality({order[j] : j \in 1..(i - 1)}) = i - 1
<1> DEFINE n == Cardinality(S)
<1>1. n \in Nat
  BY FS_CardinalityType
<1>2. order \in [1..n -> S] /\ \A i, j \in 1..n : i # j => order[i] # order[j]
  BY DEF SetToSeqs
<1>3. \A x \in S : \E i \in 1..n : order[i] = x
  <2>1. order \in Injection(1..n, S)
    BY <1>2 DEF Injection, IsInjective
  <2>2. Cardinality(1..n) = n
    BY <1>1, FS_Interval
  <2>3. order \in Surjection(1..n, S)
    BY <2>1, <2>2, FS_Injection
  <2> QED
    BY <2>3 DEF Surjection
<1>4. ASSUME NEW i \in 1..n PROVE Cardinality({order[j] : j \in 1..(i - 1)}) = i - 1
  <2> DEFINE first == [j \in 1..(i - 1) |-> order[j]]
             some == {order[j] : j \in 1..(i - 1)}
  <2>1. i - 1 \in Nat /\ \A j \in 1..(i - 1) : j \in 1..n
    BY <1>1
  <2>2. first \in Bijection(1..(i - 1), some)
    BY <1>2, <2>1 DEF Bijection, Injection, Surjection, IsInjective
  <2>3. ExistsBijection(1..(i - 1), some)
    BY <2>2 DEF ExistsBijection
  <2> QED
    BY <2>1, <2>3, FS_CountingElements
<1>5. Len(order) = n
  BY <1>1, <1>2
<1> QED
  BY <1>1, <1>2, <1>3, <1>4, <1>5

\* The holders that the list shows before l.
Ahead(l) == {m \in Held : Before(m, l)}

LEMMA HeldFinite ==
    /\ IsFiniteSet(Held) /\ Cardinality(Held) \in Nat
    /\ \A l : IsFiniteSet(Ahead(l)) /\ Cardinality(Ahead(l)) \in Nat
<1>1. IsFiniteSet(Held)
  BY ListingAssumption, FS_Subset DEF Held
<1>2. ASSUME NEW l PROVE IsFiniteSet(Ahead(l)) /\ Cardinality(Ahead(l)) \in Nat
  <2>1. Ahead(l) \in SUBSET Held
    BY DEF Ahead
  <2>2. IsFiniteSet(Ahead(l))
    BY <1>1, <2>1, FS_Subset
  <2> QED
    BY <2>2, FS_CardinalityType
<1> QED
  BY <1>1, <1>2, FS_CardinalityType

LEMMA BeforeIsStrict ==
    ASSUME rows \in [Listed -> Row], NEW l \in Listed
    PROVE  ~Before(l, l)
<1>1. \A a \in Addresses \union {0} : a \in Nat
  BY ListingAssumption
<1>2. rows[l].email \in Addresses \union {0}
  BY DEF Row
<1>3. Rank(rows[l].status) \in {0, 1}
  BY DEF Rank
<1> QED
  BY <1>1, <1>2, <1>3 DEF Before

\* Without ties, a page shows the holder that has as many ahead as there were pages before.
LEMMA PageShows ==
    ASSUME rows \in [Listed -> Row], ~Tied, NEW order \in Orders, NEW i \in 1..Cardinality(Held)
    PROVE  order[i] \in Held /\ Cardinality(Ahead(order[i])) = i - 1
<1> DEFINE n == Cardinality(Held)
<1>1. IsFiniteSet(Held) /\ order \in SetToSeqs(Held)
  BY HeldFinite DEF Orders
<1>2. order \in [1..n -> Held] /\ n \in Nat
      /\ (\A x \in Held : \E j \in 1..n : order[j] = x)
      /\ (\A j, k \in 1..n : j # k => order[j] # order[k])
      /\ Cardinality({order[j] : j \in 1..(i - 1)}) = i - 1
  BY <1>1, PlacesInOrder
<1>3. \A j, k \in 1..n : j < k => ~Before(order[k], order[j])
  BY <1>2 DEF Orders
<1>4. \A j, k \in 1..n : j < k => Before(order[j], order[k])
  BY <1>2, <1>3 DEF Tied
<1>5. ~Before(order[i], order[i])
  BY <1>2, BeforeIsStrict DEF Held
<1>6. \A j \in 1..n : Before(order[j], order[i]) <=> j \in 1..(i - 1)
  <2>1. \A j \in 1..n : (j < i) \/ j = i \/ (i < j)
    BY <1>2
  <2>2. \A j \in 1..n : j < i <=> j \in 1..(i - 1)
    BY <1>2
  <2>3. i \in 1..n
    OBVIOUS
  <2> HIDE DEF n
  <2> QED
    BY <1>3, <1>4, <1>5, <2>1, <2>2, <2>3
<1>7. Ahead(order[i]) = {order[j] : j \in 1..(i - 1)}
  <2>1. \A j \in 1..(i - 1) : j \in 1..n
    BY <1>2
  <2> HIDE DEF n
  <2> QED
    BY <1>2, <1>6, <2>1 DEF Ahead
<1> QED
  BY <1>2, <1>7

\* Who is not on the page, and has as many ahead as there were pages before, has one more.
LEMMA PagePasses ==
    ASSUME rows \in [Listed -> Row], ~Tied, NEW order \in Orders, NEW page \in Nat \ {0},
           NEW l \in Held, Cardinality(Ahead(l)) = page - 1
    PROVE  page \in 1..Cardinality(Held) /\ order[page] = l
<1>1. IsFiniteSet(Held) /\ order \in SetToSeqs(Held) /\ Cardinality(Held) \in Nat
  BY HeldFinite DEF Orders
<1>2. PICK i \in 1..Cardinality(Held) : order[i] = l
  BY <1>1, PlacesInOrder
<1>3. Cardinality(Ahead(l)) = i - 1
  BY <1>2, PageShows
<1> QED
  BY <1>1, <1>2, <1>3

\* There is always somebody who is not ahead of himself.
LEMMA FewerAhead ==
    ASSUME rows \in [Listed -> Row], NEW l \in Held
    PROVE  Cardinality(Ahead(l)) < Cardinality(Held)
<1>1. Ahead(l) \in SUBSET Held /\ l \notin Ahead(l)
  BY BeforeIsStrict DEF Ahead, Held
<1>2. Cardinality(Ahead(l)) <= Cardinality(Held) /\ Ahead(l) # Held
      /\ (Cardinality(Ahead(l)) = Cardinality(Held) => Ahead(l) = Held)
  BY <1>1, HeldFinite, FS_Subset
<1> QED
  BY <1>2, HeldFinite


Filters == {"usable", "active_only", "none"}

WalkState == [pc : {"idle", "walking", "failed", "done"}, filter : Filters, page : Nat \ {0},
              seen : SUBSET Listed, again : SUBSET Listed, untouched : SUBSET Listed,
              moved : {"none", "forward", "back"}]

\* The walk has not passed by a holder that was left alone, and as long as nothing
\* changes it has shown those that come first.
WalkSound(w) ==
    /\ w.moved # "back" => \A l \in w.untouched \ w.seen : w.page - 1 <= Cardinality(Ahead(l))
    /\ w.moved = "none" => w.again = {} /\ w.seen = {l \in Held : Cardinality(Ahead(l)) < w.page - 1}

WalkInv ==
    /\ rows \in [Listed -> Row]
    /\ walk \in WalkState
    /\ walk.untouched \subseteq Held
    /\ walk.pc = "walking" => WalkSound(walk)
    /\ WalkComplete

LEMMA NoWalkIsFine ==
    NoWalk \in WalkState /\ NoWalk.pc = "idle" /\ NoWalk.untouched = {}
  BY DEF NoWalk, WalkState, Filters

LEMMA WalkInit == ListingInit => WalkInv
<1> SUFFICES ASSUME ListingInit PROVE WalkInv
  OBVIOUS
<1>1. rows \in [Listed -> Row] /\ walk = NoWalk
  BY AddressInit DEF AddressInv, ListingInit
<1> QED
  BY <1>1, NoWalkIsFine DEF WalkInv, WalkComplete

LEMMA WalkStarts ==
    ASSUME WalkInv, NEW filter \in Filters, WalkStart(filter)
    PROVE  WalkInv'
<1> DEFINE w == [pc |-> "walking", filter |-> filter, page |-> 1, seen |-> {}, again |-> {},
                 untouched |-> Held, moved |-> "none"]
<1>1. walk' = w /\ rows' = rows
  BY DEF WalkStart, NoWalk
<1>2. /\ w \in WalkState /\ w.pc = "walking" /\ w.page = 1 /\ w.seen = {} /\ w.again = {}
      /\ w.untouched = Held
  BY DEF WalkState, Held
<1> HIDE DEF w
<1>3. Held' = Held /\ \A l : Cardinality(Ahead(l))' = Cardinality(Ahead(l))
  BY <1>1 DEF Held, Ahead, Before
<1>4. \A l : Cardinality(Ahead(l)) \in Nat
  BY HeldFinite
<1>5. \A n \in Nat : 1 - 1 <= n /\ ~(n < 1 - 1)
  OBVIOUS
<1>6. WalkSound(walk)'
  BY <1>1, <1>2, <1>3, <1>4, <1>5 DEF WalkSound
<1> QED
  BY <1>1, <1>2, <1>3, <1>6 DEF WalkInv, WalkComplete

\* What precedes a row that stays, still does when rows move forward.
LEMMA AheadGrows ==
    ASSUME rows \in [Listed -> Row], (rows \in [Listed -> Row])', NEW l \in Held, rows'[l] = rows[l],
           \A m \in Held : \/ rows'[m] = rows[m]
                           \/ /\ rows'[m].status = "activated"
                              /\ rows'[m].email = rows[m].email
    PROVE  Cardinality(Ahead(l)) <= Cardinality(Ahead(l))' /\ Cardinality(Ahead(l))' \in Nat
<1>1. ASSUME NEW m \in Ahead(l) PROVE m \in Ahead(l)'
  <2>1. m \in Held /\ Before(m, l)
    BY <1>1 DEF Ahead
  <2>2. CASE rows'[m] = rows[m]
    BY <2>1, <2>2 DEF Ahead, Held, Before
  <2>3. CASE rows'[m].status = "activated" /\ rows'[m].email = rows[m].email
    <3>1. Rank(rows'[m].status) = 0 /\ Rank(rows[m].status) \in {0, 1} /\ Rank(rows[l].status) \in {0, 1}
      BY <2>3 DEF Rank
    <3>2. \/ Rank(rows'[m].status) < Rank(rows[l].status)
          \/ Rank(rows'[m].status) = Rank(rows[l].status) /\ rows'[m].email < rows[l].email
      <4>1. \A a, b \in {0, 1} : a = b => 0 < b \/ 0 = b
        OBVIOUS
      <4>2. \A a, b \in {0, 1} : a < b => 0 < b
        OBVIOUS
      <4>3. \/ Rank(rows[m].status) < Rank(rows[l].status)
            \/ Rank(rows[m].status) = Rank(rows[l].status) /\ rows[m].email < rows[l].email
        BY <2>1 DEF Before
      <4> QED
        BY <2>3, <3>1, <4>1, <4>2, <4>3
    <3>3. m \in Held'
      BY <2>1, <2>3 DEF Held
    <3> QED
      BY <3>2, <3>3 DEF Ahead, Before
  <2> QED
    BY <2>1, <2>2, <2>3
<1>2. IsFiniteSet(Ahead(l)')
  <2>1. Ahead(l)' \in SUBSET Listed
    BY DEF Ahead, Held
  <2> QED
    BY <2>1, ListingAssumption, FS_Subset
<1>3. Ahead(l) \in SUBSET (Ahead(l)')
  BY <1>1
<1> QED
  <2>1. PICK now : now = Ahead(l)'
    OBVIOUS
  <2>2. PICK then : then = Ahead(l)
    OBVIOUS
  <2>3. IsFiniteSet(now) /\ then \in SUBSET now
    BY <1>2, <1>3, <2>1, <2>2
  <2>4. Cardinality(then) <= Cardinality(now) /\ Cardinality(now) \in Nat
    BY <2>3, FS_Subset, FS_CardinalityType
  <2> QED
    BY <2>1, <2>2, <2>4

\* Changes of the rows that move them forward, and those that move them back.
LEMMA WalkGoesOn ==
    ASSUME WalkInv, (rows \in [Listed -> Row])', NEW changed \in SUBSET Listed,
           NEW direction \in {"forward", "back"}, RowsMove(changed, direction),
           \A l \in Listed \ changed : l \in Held => l \in Held' /\ rows'[l] = rows[l],
           direction = "forward" =>
             \A m \in Held : \/ rows'[m] = rows[m]
                             \/ /\ rows'[m].status = "activated"
                                /\ rows'[m].email = rows[m].email
    PROVE  WalkInv'
<1>1. CASE walk.pc # "walking"
  <2>1. walk' = NoWalk
    BY <1>1 DEF RowsMove
  <2> QED
    BY <2>1, NoWalkIsFine DEF WalkInv, WalkComplete
<1>2. CASE walk.pc = "walking"
  <2> DEFINE left == walk.untouched \ changed
             moved == IF walk.moved = "back" THEN "back" ELSE direction
             w == [walk EXCEPT !.untouched = left, !.moved = moved]
  <2>1. walk' = w
    BY <1>2 DEF RowsMove
  <2>2. walk \in WalkState /\ left \in SUBSET Listed /\ moved \in {"forward", "back"}
    BY DEF WalkInv, WalkState
  <2>3. moved # "back" => direction = "forward" /\ walk.moved # "back"
    OBVIOUS
  <2> HIDE DEF left, moved
  <2>4. /\ w \in WalkState /\ w.pc = "walking" /\ w.page = walk.page /\ w.seen = walk.seen
        /\ w.untouched = left /\ w.moved = moved
    BY <1>2, <2>2 DEF WalkState
  <2> HIDE DEF w
  <2>5. left \subseteq walk.untouched /\ \A l \in left : l \in Held /\ l \in Held' /\ rows'[l] = rows[l]
    BY DEF WalkInv, left, Held
  <2>6. ASSUME moved # "back", NEW l \in left \ walk.seen
        PROVE  walk.page - 1 <= Cardinality(Ahead(l))'
    <3>1. walk.page - 1 <= Cardinality(Ahead(l))
      BY <1>2, <2>3, <2>5, <2>6 DEF WalkInv, WalkSound
    <3>2. Cardinality(Ahead(l)) <= Cardinality(Ahead(l))' /\ Cardinality(Ahead(l))' \in Nat
      BY <2>3, <2>5, <2>6, AheadGrows DEF WalkInv
    <3>3. Cardinality(Ahead(l)) \in Nat /\ walk.page \in Nat
      BY <2>2, HeldFinite DEF WalkState
    <3>4. \A a, b, c \in Nat : a - 1 <= b /\ b <= c => a - 1 <= c
      OBVIOUS
    <3> QED
      BY <3>1, <3>2, <3>3, <3>4
  <2>7. WalkSound(walk)'
    BY <2>1, <2>2, <2>4, <2>6 DEF WalkSound
  <2> QED
    BY <2>1, <2>4, <2>5, <2>7 DEF WalkInv, WalkComplete
<1> QED
  BY <1>1, <1>2


LEMMA TotalCoversHeld ==
    ASSUME NEW filter \in Filters, Estimated(filter) => Cardinality(Held) <= Initially
    PROVE  Total(filter) \in Nat /\ Cardinality(Held) <= Total(filter)
<1>1. Initially \in Nat
  <2>1. Cardinality(Listed) \in Nat
    BY ListingAssumption, FS_CardinalityType
  <2> QED
    BY <2>1, ListingAssumption
<1>2. IsFiniteSet(Filtered(filter))
  BY ListingAssumption, FS_Subset DEF Filtered
<1>3. Held \in SUBSET Filtered(filter)
  BY DEF Held, Filtered, Kinds, Filters
<1>4. Cardinality(Held) <= Cardinality(Filtered(filter)) /\ Cardinality(Filtered(filter)) \in Nat
  BY <1>2, <1>3, FS_Subset, FS_CardinalityType
<1> QED
  BY <1>1, <1>4 DEF Total

\* What a page shows of the holders in some order.
Shown(order, page) == IF page <= Len(order) THEN {order[page]} ELSE {}

\* The next page keeps the walk sound.
LEMMA NextPageIsSound ==
    ASSUME rows \in [Listed -> Row], ~Tied, NEW w \in WalkState, w.untouched \subseteq Held,
           WalkSound(w), NEW order \in Orders
    PROVE  /\ w.moved # "back" =>
                \A l \in w.untouched \ (w.seen \union Shown(order, w.page)) : w.page <= Cardinality(Ahead(l))
           /\ w.moved = "none" =>
                /\ w.again \union (w.seen \intersect Shown(order, w.page)) = {}
                /\ w.seen \union Shown(order, w.page) = {l \in Held : Cardinality(Ahead(l)) < w.page}
<1> DEFINE p == w.page
           now == Shown(order, w.page)
<1>1. p \in Nat \ {0}
  BY DEF WalkState
<1>2. IsFiniteSet(Held) /\ order \in SetToSeqs(Held)
  BY HeldFinite DEF Orders
<1>3. Len(order) = Cardinality(Held) /\ Cardinality(Held) \in Nat
  BY <1>2, PlacesInOrder
<1>4. \A l \in now : l \in Held /\ Cardinality(Ahead(l)) = p - 1
  <2> SUFFICES ASSUME NEW l \in now PROVE l \in Held /\ Cardinality(Ahead(l)) = p - 1
    OBVIOUS
  <2>1. p \in 1..Cardinality(Held) /\ l = order[p]
    BY <1>1, <1>3 DEF Shown
  <2> QED
    BY <2>1, PageShows
<1>5. \A l \in Held : Cardinality(Ahead(l)) = p - 1 => l \in now
  <2> SUFFICES ASSUME NEW l \in Held, Cardinality(Ahead(l)) = p - 1 PROVE l \in now
    OBVIOUS
  <2>1. p \in 1..Cardinality(Held) /\ order[p] = l
    BY <1>1, PagePasses
  <2> QED
    BY <1>3, <2>1 DEF Shown
<1>6. \A l : Cardinality(Ahead(l)) \in Nat
  BY HeldFinite
<1>7. \A n \in Nat : /\ p - 1 <= n /\ n # p - 1 => p <= n
                     /\ n < p <=> (n < p - 1 \/ n = p - 1)
                     /\ ~(n < p - 1 /\ n = p - 1)
  BY <1>1
<1>8. ASSUME w.moved # "back", NEW l \in w.untouched \ (w.seen \union now)
      PROVE  p <= Cardinality(Ahead(l))
  <2>1. l \in Held /\ p - 1 <= Cardinality(Ahead(l))
    BY <1>8 DEF WalkSound
  <2> HIDE DEF p
  <2>2. Cardinality(Ahead(l)) # p - 1
    BY <1>5, <1>8, <2>1
  <2> QED
    BY <1>6, <1>7, <2>1, <2>2
<1>9. ASSUME w.moved = "none"
      PROVE  /\ w.again \union (w.seen \intersect now) = {}
             /\ w.seen \union now = {l \in Held : Cardinality(Ahead(l)) < p}
  <2>1. w.again = {} /\ w.seen = {l \in Held : Cardinality(Ahead(l)) < p - 1}
    BY <1>9 DEF WalkSound
  <2>2. ASSUME NEW l \in w.seen PROVE l \notin now
    BY <1>4, <1>6, <1>7, <2>1
  <2>3. ASSUME NEW l PROVE l \in w.seen \union now <=> l \in Held /\ Cardinality(Ahead(l)) < p
    <3> HIDE DEF p
    <3> QED
      BY <1>4, <1>5, <1>6, <1>7, <2>1
  <2> QED
    BY <2>1, <2>2, <2>3
<1> QED
  BY <1>8, <1>9

LEMMA WalkPages ==
    ASSUME WalkInv, WalkPage
    PROVE  WalkInv'
<1>1. PICK w \in WalkState : walk = w /\ w.pc = "walking" /\ w.untouched \subseteq Held /\ WalkSound(w)
  BY DEF WalkPage, WalkInv
<1>2. rows' = rows /\ (rows \in [Listed -> Row])
  BY DEF WalkPage, WalkInv
<1>3. Held' = Held /\ \A l : Cardinality(Ahead(l))' = Cardinality(Ahead(l))
  BY <1>2 DEF Held, Ahead, Before
<1>4. CASE w.page > Total(w.filter) /\ w.page > 1
  <2>1. walk' = [w EXCEPT !.pc = "failed"]
    BY <1>1, <1>4 DEF WalkPage
  <2>2. walk' \in WalkState /\ walk'.pc = "failed" /\ walk'.untouched = w.untouched
    BY <2>1 DEF WalkState
  <2> QED
    BY <1>1, <1>2, <1>3, <2>2 DEF WalkInv, WalkComplete
<1>5. CASE ~(w.page > Total(w.filter) /\ w.page > 1)
  <2> DEFINE now(order) == IF w.page <= Len(order) THEN {order[w.page]} ELSE {}
  <2>1. PICK order \in Orders :
           walk' = [w EXCEPT !.pc = IF w.page < Total(w.filter) THEN "walking" ELSE "done",
                             !.page = w.page + 1,
                             !.again = w.again \union (w.seen \intersect now(order)),
                             !.seen = w.seen \union now(order),
                             !.moved = IF Tied THEN "back" ELSE w.moved]
    BY <1>1, <1>5 DEF WalkPage
  <2>2. PICK shown : shown = now(order) /\ shown = Shown(order, w.page)
    BY DEF Shown
  <2>3. PICK pc \in {"walking", "done"} :
           pc = IF w.page < Total(w.filter) THEN "walking" ELSE "done"
    OBVIOUS
  <2>4. PICK moved \in {"none", "forward", "back"} : moved = IF Tied THEN "back" ELSE w.moved
    BY DEF WalkState
  <2>5. shown \in SUBSET Listed
    <3>1. IsFiniteSet(Held) /\ order \in SetToSeqs(Held)
      BY HeldFinite DEF Orders
    <3>2. order \in [1..Cardinality(Held) -> Held] /\ Len(order) = Cardinality(Held)
          /\ Cardinality(Held) \in Nat
      BY <3>1, PlacesInOrder
    <3>3. w.page \in Nat \ {0}
      BY DEF WalkState
    <3>4. w.page <= Len(order) => order[w.page] \in Held
      BY <3>2, <3>3
    <3> QED
      BY <2>2, <3>4 DEF Held
  <2> DEFINE s == [pc |-> pc, filter |-> w.filter, page |-> w.page + 1, seen |-> w.seen \union shown,
                   again |-> w.again \union (w.seen \intersect shown), untouched |-> w.untouched,
                   moved |-> moved]
  <2>6. walk' = s
    <3>1. walk' = [w EXCEPT !.pc = pc, !.page = w.page + 1,
                            !.again = w.again \union (w.seen \intersect shown),
                            !.seen = w.seen \union shown, !.moved = moved]
      BY <2>1, <2>2, <2>3, <2>4
    <3> HIDE DEF now
    <3> QED
      BY <3>1 DEF WalkState
  <2>7. /\ s \in WalkState /\ s.pc = pc /\ s.filter = w.filter /\ s.page = w.page + 1
        /\ s.seen = w.seen \union shown /\ s.again = w.again \union (w.seen \intersect shown)
        /\ s.untouched = w.untouched /\ s.moved = moved
    BY <2>5 DEF WalkState
  <2> HIDE DEF s
  <2>8. ~Tied => /\ w.moved # "back" =>
                      \A l \in w.untouched \ (w.seen \union shown) : w.page <= Cardinality(Ahead(l))
                 /\ w.moved = "none" =>
                      /\ w.again \union (w.seen \intersect shown) = {}
                      /\ w.seen \union shown = {l \in Held : Cardinality(Ahead(l)) < w.page}
    BY <1>1, <1>2, <2>2, NextPageIsSound
  <2>9. moved # "back" => ~Tied /\ moved = w.moved
    BY <2>4
  <2>10. w.page \in Nat /\ s.page - 1 = w.page
    BY <2>7 DEF WalkState
  <2>11. WalkSound(s)
    <3>1. moved = "none" => moved # "back"
      OBVIOUS
    <3> QED
      BY <2>7, <2>8, <2>9, <2>10, <3>1 DEF WalkSound
  <2>12. ASSUME pc = "done", moved # "back",
                Estimated(w.filter) => Cardinality(Held) <= Initially
         PROVE  s.untouched \subseteq s.seen
    <3> SUFFICES ASSUME NEW l \in w.untouched, l \notin w.seen \union shown PROVE FALSE
      BY <2>7
    <3>1. w.page <= Cardinality(Ahead(l))
      BY <2>8, <2>9, <2>12
    <3>2. Cardinality(Ahead(l)) < Cardinality(Held)
      BY <1>1, <1>2, FewerAhead
    <3>3. Cardinality(Held) <= Total(w.filter) /\ Total(w.filter) \in Nat
      BY <2>12, TotalCoversHeld DEF WalkState
    <3>4. Cardinality(Held) \in Nat /\ Cardinality(Ahead(l)) \in Nat
      BY HeldFinite
    <3>5. ~(w.page < Total(w.filter))
      BY <2>3, <2>12
    <3> QED
      BY <2>10, <3>1, <3>2, <3>3, <3>4, <3>5
  <2>13. moved = "none" => s.again = {}
    BY <2>7, <2>8, <2>9
  <2>14. WalkComplete'
    <3>1. walk'.pc = pc /\ walk'.moved = moved /\ walk'.filter = w.filter
          /\ walk'.untouched = s.untouched /\ walk'.seen = s.seen /\ walk'.again = s.again
      BY <2>6, <2>7
    <3>2. Cardinality(Held)' = Cardinality(Held) /\ Estimated(walk.filter)' = Estimated(w.filter)
      BY <1>3, <3>1 DEF Estimated
    <3> QED
      BY <2>12, <2>13, <3>1, <3>2 DEF WalkComplete
  <2>15. WalkSound(walk)'
    BY <1>3, <2>6, <2>11 DEF WalkSound
  <2> QED
    BY <1>1, <1>2, <1>3, <2>6, <2>7, <2>14, <2>15 DEF WalkInv
<1> QED
  BY <1>4, <1>5


LEMMA WalkStep ==
    ASSUME AddressInv, WalkInv, [ListingNext]_listingVars
    PROVE  WalkInv'
<1>1. (rows \in [Listed -> Row])'
  BY AddressStep DEF AddressInv
<1>2. \A l \in Held : rows[l] # Free /\ rows[l] # Absent
  BY DEF Held, Free, Absent
<1>3. ASSUME NEW e \in Addresses, AssignRow(e)
      PROVE  WalkInv'
  <2>1. NextFree \in Listed /\ rows[NextFree] = Free
    BY <1>3 DEF AssignRow, NextFree
  <2>2. \A l \in Listed : l # NextFree => rows'[l] = rows[l]
    BY <1>3 DEF AssignRow, WalkInv
  <2>3. \A l \in Held : l \in Held' /\ rows'[l] = rows[l]
    BY <1>2, <2>1, <2>2 DEF Held
  <2>4. {NextFree} \in SUBSET Listed /\ RowsMove({NextFree}, "forward")
    BY <1>3, <2>1 DEF AssignRow
  <2> QED
    BY <1>1, <2>3, <2>4, WalkGoesOn
<1>4. ASSUME NEW u \in Owners, NEW l \in Listed, ActivateRow(u, l)
      PROVE  WalkInv'
  <2>1. rows[l] \in Row
    BY DEF WalkInv
  <2>2. rows' = [rows EXCEPT ![l] = [rows[l] EXCEPT !.status = "activated", !.owner = u]]
    BY <1>4, <2>1 DEF ActivateRow, WalkInv, Row
  <2>3. rows'[l].status = "activated" /\ rows'[l].email = rows[l].email
    BY <2>1, <2>2 DEF WalkInv, Row
  <2>4. \A m \in Listed : m # l => rows'[m] = rows[m]
    BY <2>2 DEF WalkInv
  <2>5. \A m \in Listed \ {l} : m \in Held => m \in Held' /\ rows'[m] = rows[m]
    BY <2>4 DEF Held
  <2>6. \A m \in Held : \/ rows'[m] = rows[m]
                        \/ rows'[m].status = "activated" /\ rows'[m].email = rows[m].email
    BY <2>3, <2>4 DEF Held
  <2>7. {l} \in SUBSET Listed /\ RowsMove({l}, "forward")
    BY <1>4 DEF ActivateRow
  <2> QED
    BY <1>1, <2>5, <2>6, <2>7, WalkGoesOn
<1>5. ASSUME NEW l \in Listed, RevokeRow(l)
      PROVE  WalkInv'
  <2>1. NextRow \in Listed /\ rows[NextRow] = Absent
    BY <1>5 DEF RevokeRow, NextRow
  <2>2. \A m \in Listed : m # l /\ m # NextRow => rows'[m] = rows[m]
    BY <1>5 DEF RevokeRow, WalkInv
  <2>3. \A m \in Listed \ {l} : m \in Held => m \in Held' /\ rows'[m] = rows[m]
    BY <1>2, <2>1, <2>2 DEF Held
  <2>4. {l} \in SUBSET Listed /\ RowsMove({l}, "back")
    BY <1>5 DEF RevokeRow
  <2> QED
    BY <1>1, <2>3, <2>4, WalkGoesOn
<1>6. CASE AddRow
  <2>1. NextRow \in Listed /\ rows[NextRow] = Absent
    BY <1>6 DEF AddRow, NextRow
  <2>2. \A m \in Listed : m # NextRow => rows'[m] = rows[m]
    BY <1>6 DEF AddRow, WalkInv
  <2>3. \A m \in Held : m \in Held' /\ rows'[m] = rows[m]
    BY <1>2, <2>1, <2>2 DEF Held
  <2>4. {} \in SUBSET Listed /\ RowsMove({}, "forward")
    BY <1>6 DEF AddRow
  <2> QED
    BY <1>1, <2>3, <2>4, WalkGoesOn
<1>7. ASSUME NEW u \in Owners, LearnerLists(u)
      PROVE  WalkInv'
  <2>1. Outdated(u) \in SUBSET Listed /\ RowsMove(Outdated(u), "back")
    BY <1>7 DEF LearnerLists, Outdated
  <2>2. \A m \in Listed \ Outdated(u) : m \in Held => m \in Held' /\ rows'[m] = rows[m]
    BY <1>7 DEF LearnerLists, Held
  <2> QED
    BY <1>1, <2>1, <2>2, WalkGoesOn
<1>8. ASSUME UNCHANGED <<rows, walk>>
      PROVE  WalkInv'
  BY <1>8 DEF WalkInv, WalkComplete, WalkSound, Held, Ahead, Before, Estimated
<1>9. ASSUME NEW u \in Owners, NEW e \in Addresses, NewAddress(u, e)
      PROVE  WalkInv'
  BY <1>8, <1>9 DEF NewAddress
<1>10. CASE UNCHANGED listingVars
  BY <1>8, <1>10 DEF listingVars
<1>11. CASE WalkPage
  BY <1>11, WalkPages
<1>12. ASSUME NEW filter \in {"usable", "active_only", "none"}, WalkStart(filter)
       PROVE  WalkInv'
  BY <1>12, WalkStarts DEF Filters
<1>13. ASSUME NEW u \in Owners, NewToken(u)
       PROVE  WalkInv'
  BY <1>8, <1>13 DEF NewToken
<1> QED
  BY <1>3, <1>4, <1>5, <1>6, <1>7, <1>9, <1>10, <1>11, <1>12, <1>13 DEF ListingNext

LEMMA ListingSafe ==
    ListingInit /\ [][ListingNext]_listingVars => [](AddressOfOwner /\ WalkComplete)
<1>1. AddressInv /\ WalkInv => AddressOfOwner /\ WalkComplete
  BY DEF AddressInv, WalkInv
<1> QED
  BY <1>1, AddressInit, AddressStep, WalkInit, WalkStep, PTL

-----------------------------------------------------------------------------
(***************************************************************************)
(* The administration: every part, the others at rest.                     *)
(***************************************************************************)
LEMMA PartsStart ==
    ASSUME AdministrationInit
    PROVE  /\ part \in Parts /\ TransferInit /\ ScalingInit /\ RenewalAdminInit
           /\ SubsidyInit /\ ListingInit
BY DEF AdministrationInit

LEMMA PartsRest ==
    ASSUME UNCHANGED administrationVars
    PROVE  /\ part' = part /\ UNCHANGED transferVars /\ UNCHANGED scalingVars
           /\ UNCHANGED renewalAdminVars /\ UNCHANGED subsidyVars /\ UNCHANGED listingVars
BY DEF administrationVars

LEMMA PartsStep ==
    ASSUME [AdministrationNext]_administrationVars
    PROVE  /\ [TransferNext]_transferVars /\ [ScalingNext]_scalingVars
           /\ [RenewalAdminNext]_renewalAdminVars /\ [ListingNext]_listingVars
<1>1. CASE AdministrationNext
  BY <1>1 DEF AdministrationNext, OthersRest
<1>2. CASE UNCHANGED administrationVars
  BY <1>2, PartsRest
<1> QED
  BY <1>1, <1>2

LEMMA PartsRun ==
    AdministrationSpec => /\ TransferInit /\ [][TransferNext]_transferVars
                          /\ ScalingInit /\ [][ScalingNext]_scalingVars
                          /\ RenewalAdminInit /\ [][RenewalAdminNext]_renewalAdminVars
                          /\ ListingInit /\ [][ListingNext]_listingVars
BY PartsStart, PartsStep, PTL DEF AdministrationSpec

\* Subsidies rest while only plans are administered, and their history with them.
CatalogPartsInv ==
    /\ CatalogInv
    /\ part = "plans" => answer = NoAnswer
    /\ part # "plans" => SubsidyInv

LEMMA CatalogPartsStart == AdministrationInit => CatalogPartsInv
BY PartsStart, SubsidyStart DEF CatalogPartsInv, SubsidyInv, SubsidyInit

LEMMA CatalogPartsStep ==
    ASSUME CatalogPartsInv, [AdministrationNext]_administrationVars
    PROVE  CatalogPartsInv'
<1>1. part' = part
  BY PartsRest DEF AdministrationNext, OthersRest
<1>2. CASE part = "plans"
  <2>1. [PlanAdminNext]_planAdminVars /\ answer' = answer
    <3>1. CASE AdministrationNext
      BY <1>2, <3>1 DEF AdministrationNext, OthersRest, subsidyOwnVars
    <3>2. CASE UNCHANGED administrationVars
      BY <3>2, PartsRest DEF subsidyVars, subsidyOwnVars
    <3> QED
      BY <3>1, <3>2
  <2>2. CatalogInv'
    BY <2>1, CatalogStep DEF CatalogPartsInv
  <2> QED
    BY <1>1, <1>2, <2>1, <2>2 DEF CatalogPartsInv, NoAnswer
<1>3. CASE part # "plans"
  <2>1. [SubsidyNext]_subsidyVars
    <3>1. CASE AdministrationNext
      BY <1>3, <3>1 DEF AdministrationNext, OthersRest
    <3>2. CASE UNCHANGED administrationVars
      BY <3>2, PartsRest
    <3> QED
      BY <3>1, <3>2
  <2>2. SubsidyInv'
    BY <1>3, <2>1, SubsidyStep DEF CatalogPartsInv
  <2> QED
    BY <1>1, <1>3, <2>2 DEF CatalogPartsInv, SubsidyInv
<1> QED
  BY <1>2, <1>3

LEMMA CatalogPartsSuffice == CatalogPartsInv => CatalogOfCustomer /\ SubsidySound
<1> SUFFICES ASSUME CatalogPartsInv PROVE CatalogOfCustomer /\ SubsidySound
  OBVIOUS
<1>1. CatalogOfCustomer
  BY CatalogInvSuffices DEF CatalogPartsInv
<1>2. CASE part = "plans"
  <2>1. answer = NoAnswer
    BY <1>2 DEF CatalogPartsInv
  <2>2. answer.plan = 0
    BY <2>1 DEF NoAnswer
  <2> QED
    BY <1>1, <2>1, <2>2 DEF SubsidySound, SubsidyCovers, FurthestOffered
<1>3. CASE part # "plans"
  BY <1>1, <1>3 DEF CatalogPartsInv, SubsidyInv, Answered, SubsidySound
<1> QED
  BY <1>2, <1>3

(***************************************************************************)
(* While one admin runs transfer jobs and no worker dies, every license    *)
(* that a job moved is in the results of its real runs once the job is     *)
(* saved, however the form edits the job and the licenses change in        *)
(* between.                                                                *)
(***************************************************************************)
THEOREM MovesAreReported == AdministrationSpec => []MovesReported
BY PartsRun, TransfersReported, PTL

(***************************************************************************)
(* While one admin runs transfer jobs, a completed job moves no license    *)
(* again, also when the other job moved licenses back; and a real run      *)
(* moves what the dry run before it reported.                              *)
(***************************************************************************)
THEOREM TransfersAreFinal == AdministrationSpec => TransfersFinal
BY PartsRun, TransfersSafe, PTL

(***************************************************************************)
(* Auto-scaling grows no plan beyond its hard limit.                       *)
(***************************************************************************)
THEOREM LimitsAreKept == AdministrationSpec => HardLimitKept
BY PartsRun, ScalingSafe, PTL

(***************************************************************************)
(* The dates of renewals stay in order, and the chain of a plan that is no *)
(* renewal comes to an end and leads back, although admins create, edit,   *)
(* delete and process renewals at the same time.                           *)
(***************************************************************************)
THEOREM RenewalsAreSound == AdministrationSpec => []RenewalsSound
BY PartsRun, RenewalAdminSafe, PTL

(***************************************************************************)
(* However requests, forms and renewals overlap, a plan has the catalog of *)
(* another customer only if a PATCH made it the default of the agreement.  *)
(***************************************************************************)
THEOREM CatalogsOfCustomer == AdministrationSpec => []CatalogOfCustomer
BY CatalogPartsStart, CatalogPartsStep, CatalogPartsSuffice, PTL DEF AdministrationSpec

(***************************************************************************)
(* The license that GET /license-subsidy offers pays for the course as far *)
(* as the cache may know, and no other one of the learner lasts longer and *)
(* pays too, whatever changes meanwhile.                                   *)
(***************************************************************************)
THEOREM SubsidiesAreSound == AdministrationSpec => []SubsidySound
BY CatalogPartsStart, CatalogPartsStep, CatalogPartsSuffice, PTL DEF AdministrationSpec

(***************************************************************************)
(* Whatever addresses change hands while learners list their licenses with *)
(* tokens old and new, the refresh writes no license of one user an        *)
(* address that only others had.                                           *)
(***************************************************************************)
THEOREM AddressesOfOwners == AdministrationSpec => []AddressOfOwner
BY PartsRun, ListingSafe, PTL

(***************************************************************************)
(* A walk through the pages of the list shows every holder that was left   *)
(* alone while rows only moved forward, an estimated total included as     *)
(* long as no more are held than estimated, and nobody twice if nothing    *)
(* moved.                                                                  *)
(***************************************************************************)
THEOREM WalksAreComplete == AdministrationSpec => []WalkComplete
BY PartsRun, ListingSafe, PTL
=============================================================================
