--------------------------- MODULE OutboundProofs ---------------------------
(***************************************************************************)
(* Proofs about the parts of the system that talk to other services, for   *)
(* any number of licenses, learners, messages, retries and failures.       *)
(***************************************************************************)
EXTENDS Outbound, FiniteSetTheorems, SequenceTheorems, WellFoundedInduction, TLAPS

-----------------------------------------------------------------------------
(***************************************************************************)
(* Numbers: the first and the last of a set of them.                       *)
(***************************************************************************)
LessThan == {p \in Nat \X Nat : p[1] < p[2]}

LEMMA LeastNumber ==
    ASSUME NEW S \in SUBSET Nat, S # {}
    PROVE  \E k \in S : \A j \in S : k <= j
<1>1. IsWellFoundedOn(LessThan, Nat)
  BY NatLessThanWellFounded DEF OpToRel, LessThan
<1>2. PICK k \in S : \A j \in S : <<j, k>> \notin LessThan
  BY <1>1, WFMin
<1>3. \A j \in S : ~(j < k)
  BY <1>2 DEF LessThan
<1> QED
  BY <1>3

LEMMA GreatestNumber ==
    ASSUME NEW S \in SUBSET Nat, IsFiniteSet(S), S # {}
    PROVE  \E k \in S : \A j \in S : j <= k
<1> DEFINE Above(k) == {j \in S : k < j}
           Counts == {Cardinality(Above(k)) : k \in S}
<1>1. \A k \in S : IsFiniteSet(Above(k)) /\ Cardinality(Above(k)) \in Nat
  BY FS_Subset, FS_CardinalityType
<1>2. PICK n \in Counts : \A m \in Counts : n <= m
  <2>1. Counts \in SUBSET Nat /\ Counts # {}
    BY <1>1
  <2> HIDE DEF Counts
  <2> QED
    BY <2>1, LeastNumber
<1>3. PICK k \in S : n = Cardinality(Above(k))
  BY <1>2
<1>4. SUFFICES ASSUME NEW j \in S, k < j PROVE FALSE
  OBVIOUS
<1>5. Above(j) \in SUBSET Above(k) /\ j \in Above(k) /\ j \notin Above(j)
  <2>1. j \in Nat /\ k \in Nat /\ \A x \in S : x \in Nat
    OBVIOUS
  <2>2. \A x \in S : j < x => k < x
    BY <1>4, <2>1
  <2>3. ~(j < j)
    BY <2>1
  <2> QED
    BY <1>4, <2>2, <2>3
<1>6. Cardinality(Above(j)) <= Cardinality(Above(k)) /\ Cardinality(Above(k)) # Cardinality(Above(j))
  <2>1. IsFiniteSet(Above(k))
    BY <1>1
  <2> HIDE DEF Above
  <2> QED
    BY <1>5, <2>1, FS_Subset
<1>7. Cardinality(Above(k)) <= Cardinality(Above(j))
  BY <1>2, <1>3
<1> QED
  BY <1>1, <1>6, <1>7

-----------------------------------------------------------------------------
(***************************************************************************)
(* Reminders: e-mails in batches.                                          *)
(***************************************************************************)
BatchRows == {<<>>} \union UNION {[B -> Learners \union {None}] : B \in SUBSET Pks}

Mailer == [pc : {"idle", "batch", "send", "mark"}, due : SUBSET Pks, after : Nat,
           batch : BatchRows, failed : BOOLEAN]

RemindersTypeOK ==
    /\ today \in Nat /\ ranToday \in SUBSET Kinds
    /\ mailRows \in [Pks -> MailRow]
    /\ mailer \in [Kinds -> Mailer]
    /\ got \in SUBSET Mails /\ lost \in Nat /\ changes \in Nat

\* A batch holds licenses that were not marked when it was read, and its e-mails
\* are accepted before they are marked.
SendsUnmarked ==
    \A c \in Kinds : mailer[c].pc = "send" =>
       \A k \in DOMAIN mailer[c].batch : c \notin mailRows[k].sent

Marking(c, k) == mailer[c].pc = "mark" /\ k \in DOMAIN mailer[c].batch

MailedIsMarked ==
    lost = 0 => /\ twice = {}
                /\ \A c \in Kinds, k \in Pks, u \in Learners : <<c, k, u>> \in got =>
                      c \in mailRows[k].sent \/ Marking(c, k)

\* What a run in which nothing failed still has to tell of lies ahead of it.
AheadOfRun ==
    \A c \in Kinds : mailer[c].pc # "idle" /\ ~mailer[c].failed =>
       \A k \in mailer[c].due \cap Expiring(c) :
          \/ mailer[c].after < k
          \/ mailer[c].pc # "batch" /\ k \in DOMAIN mailer[c].batch

RemindersInv == RemindersTypeOK /\ SendsUnmarked /\ MailedIsMarked /\ AheadOfRun

\* A batch is the first of what is left, and nothing when nothing is left.
LEMMA BatchIsFirst ==
    ASSUME RemindersTypeOK, NEW c \in Kinds
    PROVE  /\ NextBatch(c) \in SUBSET Expiring(c)
           /\ NextBatch(c) = {} => \A k \in Expiring(c) : ~(mailer[c].after < k)
           /\ NextBatch(c) # {} => \E last \in NextBatch(c) :
                 /\ \A k \in NextBatch(c) : k <= last
                 /\ \A k \in Expiring(c) :
                       mailer[c].after < k => k \in NextBatch(c) \/ last < k
<1> DEFINE queue == {k \in Expiring(c) : k > mailer[c].after}
           Below(k) == {j \in queue : j < k}
<1>1. /\ queue \in SUBSET Pks /\ queue \in SUBSET Nat
      /\ Expiring(c) \in SUBSET Pks /\ mailer[c].after \in Nat
  BY RemindersAssumption DEF Expiring, RemindersTypeOK, Mailer
<1>2. NextBatch(c) = {k \in queue : Cardinality(Below(k)) < MailBatchSize}
  BY DEF NextBatch
<1>3. IsFiniteSet(queue) /\ MailBatchSize \in Nat \ {0}
  BY <1>1, RemindersAssumption, FS_Subset
<1>4. \A k \in queue : Below(k) \in SUBSET queue /\ IsFiniteSet(Below(k)) /\ Cardinality(Below(k)) \in Nat
  BY <1>3, FS_Subset, FS_CardinalityType
<1>5. ASSUME queue # {}
      PROVE  NextBatch(c) # {}
  <2>1. PICK first \in queue : \A j \in queue : first <= j
    <3> HIDE DEF queue
    <3> QED
      BY <1>1, <1>5, LeastNumber
  <2>2. Below(first) = {}
    BY <1>1, <2>1
  <2>3. Cardinality(Below(first)) < MailBatchSize
    BY <1>3, <2>2, FS_EmptySet
  <2> QED
    BY <1>2, <2>1, <2>3
<1>6. ASSUME NextBatch(c) # {}
      PROVE  \E last \in NextBatch(c) :
                /\ \A k \in NextBatch(c) : k <= last
                /\ \A k \in queue : k \in NextBatch(c) \/ last < k
  <2>1. NextBatch(c) \in SUBSET queue /\ NextBatch(c) \in SUBSET Nat /\ IsFiniteSet(NextBatch(c))
    BY <1>1, <1>2, <1>3, FS_Subset
  <2>2. PICK last \in NextBatch(c) : \A j \in NextBatch(c) : j <= last
    BY <1>6, <2>1, GreatestNumber
  <2>3. ASSUME NEW k \in queue, k \notin NextBatch(c), ~(last < k)
        PROVE  FALSE
    <3>1. last \in Nat /\ k \in Nat /\ k <= last /\ last \in queue /\ \A j \in queue : j \in Nat
      BY <1>1, <2>1, <2>3
    <3>2. Below(k) \in SUBSET Below(last)
      BY <3>1
    <3>3. Cardinality(Below(k)) <= Cardinality(Below(last))
      <4>1. IsFiniteSet(Below(last))
        BY <1>4, <3>1
      <4> HIDE DEF Below
      <4> QED
        BY <3>2, <4>1, FS_Subset
    <3>4. Cardinality(Below(last)) < MailBatchSize /\ ~(Cardinality(Below(k)) < MailBatchSize)
      BY <1>2, <2>2, <2>3
    <3>5. Cardinality(Below(last)) \in Nat /\ Cardinality(Below(k)) \in Nat
      BY <1>4, <2>3, <3>1
    <3> HIDE DEF Below
    <3> QED
      BY <1>3, <3>3, <3>4, <3>5
  <2> QED
    BY <2>2, <2>3
<1>7. \A k \in Expiring(c) : mailer[c].after < k <=> k \in queue
  BY <1>1, RemindersAssumption
<1>8. NextBatch(c) \in SUBSET Expiring(c)
  BY <1>2
<1> HIDE DEF queue
<1> QED
  BY <1>5, <1>6, <1>7, <1>8

\* The rows that a command goes on with.
MailerAt(pc, due, c, failed) ==
    [pc |-> pc, due |-> due, after |-> mailer[c].after, batch |-> mailer[c].batch, failed |-> failed]

LEMMA MailerFields ==
    ASSUME NEW row \in Mailer
    PROVE  /\ \A due \in SUBSET Pks : [row EXCEPT !.due = due] =
                 [pc |-> row.pc, due |-> due, after |-> row.after, batch |-> row.batch,
                  failed |-> row.failed]
           /\ \A failed \in BOOLEAN : [row EXCEPT !.failed = failed] =
                 [pc |-> row.pc, due |-> row.due, after |-> row.after, batch |-> row.batch,
                  failed |-> failed]
<1>1. \A due \in SUBSET Pks : [row EXCEPT !.due = due] =
         [pc |-> row.pc, due |-> due, after |-> row.after, batch |-> row.batch,
          failed |-> row.failed]
  BY DEF Mailer
<1>2. \A failed \in BOOLEAN : [row EXCEPT !.failed = failed] =
         [pc |-> row.pc, due |-> row.due, after |-> row.after, batch |-> row.batch,
          failed |-> failed]
  BY DEF Mailer
<1> QED
  BY <1>1, <1>2

LEMMA CountedRow ==
    ASSUME NEW due \in SUBSET Pks
    PROVE  [MailerIdle EXCEPT !.pc = "batch", !.due = due]
             = [pc |-> "batch", due |-> due, after |-> 0, batch |-> <<>>, failed |-> FALSE]
<1> DEFINE row == [MailerIdle EXCEPT !.pc = "batch"]
<1>1. /\ MailerIdle \in Mailer /\ MailerIdle.due = {} /\ MailerIdle.after = 0
      /\ MailerIdle.batch = <<>> /\ MailerIdle.failed = FALSE
  BY DEF MailerIdle, Mailer, BatchRows
<1>2. /\ row \in Mailer /\ row.pc = "batch" /\ row.after = 0
      /\ row.batch = <<>> /\ row.failed = FALSE
  BY <1>1 DEF Mailer
<1>3. [MailerIdle EXCEPT !.pc = "batch", !.due = due] = [row EXCEPT !.due = due]
  OBVIOUS
<1> HIDE DEF row
<1>4. [row EXCEPT !.due = due]
        = [pc |-> "batch", due |-> due, after |-> 0, batch |-> <<>>, failed |-> FALSE]
  BY <1>2, MailerFields
<1> QED
  BY <1>3, <1>4

LEMMA MovedRow ==
    ASSUME mailer \in [Kinds -> Mailer], NEW c \in Kinds, NEW pc
    PROVE  [mailer EXCEPT ![c].pc = pc]
             = [mailer EXCEPT ![c] = MailerAt(pc, mailer[c].due, c, mailer[c].failed)]
<1>1. [mailer[c] EXCEPT !.pc = pc] = MailerAt(pc, mailer[c].due, c, mailer[c].failed)
  BY DEF Mailer, MailerAt
<1> QED
  BY <1>1

LEMMA FailedRow ==
    ASSUME mailer \in [Kinds -> Mailer], NEW c \in Kinds
    PROVE  [mailer EXCEPT ![c].pc = "batch", ![c].failed = TRUE]
             = [mailer EXCEPT ![c] = MailerAt("batch", mailer[c].due, c, TRUE)]
<1> DEFINE moved == [mailer EXCEPT ![c].pc = "batch"]
<1>1. moved = [mailer EXCEPT ![c] = MailerAt("batch", mailer[c].due, c, mailer[c].failed)]
  BY MovedRow
<1>2. [mailer EXCEPT ![c].pc = "batch", ![c].failed = TRUE] = [moved EXCEPT ![c].failed = TRUE]
  OBVIOUS
<1> HIDE DEF moved
<1>3. [moved[c] EXCEPT !.failed = TRUE] = MailerAt("batch", mailer[c].due, c, TRUE)
  <2> DEFINE row == moved[c]
  <2>1. row = MailerAt("batch", mailer[c].due, c, mailer[c].failed)
    BY <1>1
  <2>2. /\ row \in Mailer /\ row.pc = "batch" /\ row.due = mailer[c].due
        /\ row.after = mailer[c].after /\ row.batch = mailer[c].batch
    BY <2>1 DEF MailerAt, Mailer
  <2> HIDE DEF row
  <2>a. [row EXCEPT !.failed = TRUE] = [pc |-> row.pc, due |-> row.due, after |-> row.after,
                                        batch |-> row.batch, failed |-> TRUE]
    BY <2>2, MailerFields
  <2>3. [row EXCEPT !.failed = TRUE] = MailerAt("batch", mailer[c].due, c, TRUE)
    BY <2>2, <2>a DEF MailerAt
  <2> QED
    BY <2>3 DEF row
<1>4. [moved EXCEPT ![c].failed = TRUE] = [moved EXCEPT ![c] = MailerAt("batch", mailer[c].due, c, TRUE)]
  BY <1>3
<1> QED
  BY <1>1, <1>2, <1>4

LEMMA RemindersStart == RemindersInit => RemindersInv
<1> SUFFICES ASSUME RemindersInit PROVE RemindersInv
  OBVIOUS
<1>1. MailerIdle \in Mailer
  BY DEF MailerIdle, Mailer, BatchRows
<1>2. RemindersTypeOK
  BY <1>1 DEF RemindersInit, RemindersTypeOK, MailRow, UnassignedRow, Kinds
<1>3. SendsUnmarked /\ MailedIsMarked /\ AheadOfRun
  BY DEF RemindersInit, SendsUnmarked, MailedIsMarked, AheadOfRun, MailerIdle
<1> QED
  BY <1>2, <1>3 DEF RemindersInv

LEMMA StartKeeps ==
    ASSUME RemindersInv, NEW c \in Kinds, MailerStart(c)
    PROVE  RemindersInv'
<1> USE DEF RemindersInv, RemindersTypeOK
<1>1. MailerIdle \in Mailer /\ Expiring(c) \in SUBSET Pks
  BY DEF MailerIdle, Mailer, BatchRows, Expiring
<1> DEFINE counted ==
       [pc |-> "batch", due |-> Expiring(c), after |-> 0, batch |-> <<>>, failed |-> FALSE]
<1>2. \/ mailer' = [mailer EXCEPT ![c] = MailerIdle]
      \/ mailer' = [mailer EXCEPT ![c] = counted]
      \/ mailer' = mailer
  BY CountedRow DEF MailerStart
<1>3. counted \in Mailer
  BY <1>1 DEF Mailer, BatchRows
<1>a. mailer[c].pc = "idle" /\ UNCHANGED <<today, mailRows, got, twice, changes>>
      /\ lost' \in {lost, lost + 1} /\ ranToday' \in SUBSET Kinds
  BY DEF MailerStart
<1>4. RemindersTypeOK'
  <2>1. mailer' \in [Kinds -> Mailer]
    BY <1>1, <1>2, <1>3
  <2> QED
    BY <1>a, <2>1
<1>5. \A d \in Kinds : Expiring(d)' = Expiring(d)
  BY <1>a DEF Expiring, InWindow
<1>6. SendsUnmarked'
  BY <1>2, <1>a DEF SendsUnmarked, MailerIdle
<1>7. MailedIsMarked'
  <2>1. \A d \in Kinds, k \in Pks : Marking(d, k) => Marking(d, k)'
    BY <1>2, <1>a DEF Marking
  <2> QED
    BY <1>a, <2>1 DEF MailedIsMarked
<1>8. AheadOfRun'
  <2>1. \A k \in Pks : 0 < k
    BY RemindersAssumption
  <2> QED
    BY <1>1, <1>2, <1>5, <2>1 DEF AheadOfRun, MailerIdle
<1> QED
  BY <1>4, <1>6, <1>7, <1>8

LEMMA BatchKeeps ==
    ASSUME RemindersInv, NEW c \in Kinds, MailerBatch(c)
    PROVE  RemindersInv'
<1> USE DEF RemindersInv, RemindersTypeOK
<1> DEFINE B == NextBatch(c)
           last == CHOOSE k \in B : \A j \in B : j <= k
           read == [mailer[c] EXCEPT !.pc = "send", !.after = last,
                                     !.batch = [k \in B |-> mailRows[k].user_email]]
<1>0. /\ mailer[c].pc = "batch" /\ mailer[c] \in Mailer
      /\ UNCHANGED <<today, ranToday, mailRows, got, twice, lost, changes>>
      /\ mailer' = [mailer EXCEPT ![c] = IF B = {} THEN MailerIdle ELSE read]
  BY DEF MailerBatch
<1>1. MailerIdle \in Mailer
  BY DEF MailerIdle, Mailer, BatchRows
<1>2. /\ B \in SUBSET Expiring(c) /\ B \in SUBSET Pks
      /\ B # {} => /\ last \in B
                   /\ \A k \in Expiring(c) : mailer[c].after < k => k \in B \/ last < k
  <2>1. /\ B \in SUBSET Expiring(c)
        /\ B # {} => \E l \in B :
              /\ \A k \in B : k <= l
              /\ \A k \in Expiring(c) : mailer[c].after < k => k \in B \/ l < k
    BY BatchIsFirst
  <2>2. B \in SUBSET Pks
    BY <2>1 DEF Expiring
  <2>3. ASSUME B # {}
        PROVE  /\ last \in B
               /\ \A k \in Expiring(c) : mailer[c].after < k => k \in B \/ last < k
    <3>1. PICK l \in B : /\ \A k \in B : k <= l
                         /\ \A k \in Expiring(c) : mailer[c].after < k => k \in B \/ l < k
      BY <2>1, <2>3
    <3>2. last \in B /\ \A k \in B : k <= last
      BY <3>1
    <3>3. last \in Nat /\ l \in Nat
      BY <2>2, <3>1, <3>2, RemindersAssumption
    <3> HIDE DEF B, last
    <3>4. last = l
      BY <3>1, <3>2, <3>3
    <3> QED
      BY <3>1, <3>4
  <2> QED
    BY <2>1, <2>2, <2>3
<1>3. B # {} => /\ read \in Mailer /\ read.pc = "send" /\ read.after = last
                /\ DOMAIN read.batch = B
                /\ read.due = mailer[c].due /\ read.failed = mailer[c].failed
  <2> SUFFICES ASSUME B # {}
               PROVE  /\ read \in Mailer /\ read.pc = "send" /\ read.after = last
                      /\ DOMAIN read.batch = B
                      /\ read.due = mailer[c].due /\ read.failed = mailer[c].failed
    OBVIOUS
  <2>1. [k \in B |-> mailRows[k].user_email] \in [B -> Learners \union {None}]
    BY <1>2 DEF MailRow
  <2>2. [k \in B |-> mailRows[k].user_email] \in BatchRows
    BY <1>2, <2>1 DEF BatchRows
  <2>3. last \in Nat
    BY <1>2, RemindersAssumption
  <2> HIDE DEF B, last
  <2> QED
    BY <1>0, <2>2, <2>3 DEF Mailer
<1> HIDE DEF B, last, read
<1>4. RemindersTypeOK'
  BY <1>0, <1>1, <1>3
<1>5. \A d \in Kinds : Expiring(d)' = Expiring(d)
  BY <1>0 DEF Expiring, InWindow
<1>6. SendsUnmarked'
  BY <1>0, <1>2, <1>3 DEF SendsUnmarked, MailerIdle, Expiring
<1>7. MailedIsMarked'
  <2>1. \A d \in Kinds, k \in Pks : Marking(d, k) => Marking(d, k)'
    BY <1>0 DEF Marking
  <2> QED
    BY <1>0, <2>1 DEF MailedIsMarked
<1>8. AheadOfRun'
  <2>1. mailer[c].due \in SUBSET Pks
    BY <1>0 DEF Mailer
  <2> QED
    BY <1>0, <1>2, <1>3, <1>5, <2>1 DEF AheadOfRun, MailerIdle
<1> QED
  BY <1>4, <1>6, <1>7, <1>8

LEMMA SendKeeps ==
    ASSUME RemindersInv, NEW c \in Kinds, MailerSend(c)
    PROVE  RemindersInv'
<1> USE DEF RemindersInv, RemindersTypeOK
<1>0. /\ mailer[c].pc = "send" /\ mailer[c] \in Mailer
      /\ UNCHANGED <<today, ranToday, mailRows, changes>>
      /\ BatchMails(c) \in SUBSET Mails /\ got' \in SUBSET Mails
  BY DEF MailerSend, BatchMails
<1>1. \/ /\ mailer' = [mailer EXCEPT ![c] = MailerAt("mark", mailer[c].due, c, mailer[c].failed)]
         /\ lost' = lost /\ got' = got \union BatchMails(c)
         /\ twice' = twice \union (got \cap BatchMails(c))
      \/ /\ mailer' = [mailer EXCEPT ![c] = MailerAt("batch", mailer[c].due, c, TRUE)]
         /\ lost' = lost + 1
  BY MovedRow, FailedRow DEF MailerSend
<1>b. /\ MailerAt("mark", mailer[c].due, c, mailer[c].failed) \in Mailer
      /\ MailerAt("batch", mailer[c].due, c, TRUE) \in Mailer
  BY <1>0 DEF Mailer, MailerAt
<1>2. PICK r \in Mailer :
         /\ mailer' = [mailer EXCEPT ![c] = r]
         /\ r.due = mailer[c].due /\ r.after = mailer[c].after /\ r.batch = mailer[c].batch
         /\ \/ /\ r.pc = "mark" /\ r.failed = mailer[c].failed /\ lost' = lost
               /\ got' = got \union BatchMails(c)
               /\ twice' = twice \union (got \cap BatchMails(c))
            \/ r.pc = "batch" /\ r.failed = TRUE /\ lost' = lost + 1
  BY <1>1, <1>b DEF MailerAt
<1>3. RemindersTypeOK'
  BY <1>0, <1>2
<1>4. \A d \in Kinds : Expiring(d)' = Expiring(d)
  BY <1>0 DEF Expiring, InWindow
<1>5. SendsUnmarked'
  BY <1>0, <1>2 DEF SendsUnmarked
<1>6. MailedIsMarked'
  <2> SUFFICES ASSUME lost' = 0
               PROVE  /\ twice' = {}
                      /\ \A d \in Kinds, k \in Pks, u \in Learners : <<d, k, u>> \in got' =>
                            d \in mailRows'[k].sent \/ Marking(d, k)'
    BY DEF MailedIsMarked
  <2>1. /\ r.pc = "mark" /\ lost = 0
        /\ got' = got \union BatchMails(c) /\ twice' = twice \union (got \cap BatchMails(c))
    BY <1>2
  <2>2. \A m \in BatchMails(c) : \E k \in Pks, u \in Learners :
           m = <<c, k, u>> /\ k \in DOMAIN mailer[c].batch
    BY DEF BatchMails, Mails
  <2>3. got \cap BatchMails(c) = {}
    BY <1>0, <2>1, <2>2 DEF MailedIsMarked, SendsUnmarked, Marking
  <2>4. \A d \in Kinds, k \in Pks : Marking(d, k) => Marking(d, k)'
    BY <1>0, <1>2 DEF Marking
  <2>5. \A k \in DOMAIN mailer[c].batch : Marking(c, k)'
    BY <1>0, <1>2, <2>1 DEF Marking
  <2> QED
    BY <1>0, <2>1, <2>2, <2>3, <2>4, <2>5 DEF MailedIsMarked
<1>7. AheadOfRun'
  BY <1>0, <1>2, <1>4 DEF AheadOfRun
<1> QED
  BY <1>3, <1>5, <1>6, <1>7

LEMMA MarkKeeps ==
    ASSUME RemindersInv, NEW c \in Kinds, MailerMark(c)
    PROVE  RemindersInv'
<1> USE DEF RemindersInv, RemindersTypeOK
<1>0. /\ mailer[c].pc = "mark" /\ mailer[c] \in Mailer
      /\ UNCHANGED <<today, ranToday, got, twice, changes>>
  BY DEF MailerMark
<1> DEFINE marked == [k \in Pks |-> IF k \in DOMAIN mailer[c].batch
                                   THEN [mailRows[k] EXCEPT !.sent = @ \union {c}] ELSE mailRows[k]]
<1>1. \/ /\ mailer' = [mailer EXCEPT ![c] = MailerAt("batch", mailer[c].due, c, mailer[c].failed)]
         /\ lost' = lost /\ mailRows' = marked
      \/ /\ mailer' = [mailer EXCEPT ![c] = MailerAt("batch", mailer[c].due, c, TRUE)]
         /\ lost' = lost + 1 /\ mailRows' = mailRows
  BY MovedRow, FailedRow DEF MailerMark
<1>2. \A failed \in BOOLEAN : MailerAt("batch", mailer[c].due, c, failed) \in Mailer
  BY <1>0 DEF Mailer, MailerAt
<1>3. mailer[c].failed \in BOOLEAN
  BY <1>0 DEF Mailer
<1>4. /\ marked \in [Pks -> MailRow]
      /\ \A k \in Pks : /\ marked[k].status = mailRows[k].status
                        /\ marked[k].sent = IF k \in DOMAIN mailer[c].batch
                                            THEN mailRows[k].sent \union {c} ELSE mailRows[k].sent
  BY DEF MailRow
<1> HIDE DEF marked
<1>x. lost \in Nat
  OBVIOUS
<1>y. lost' = lost \/ lost' = lost + 1
  BY <1>1
<1>z. lost' = lost + 1 => lost' # lost
  BY <1>x
<1>5. RemindersTypeOK'
  <2>1. mailer' \in [Kinds -> Mailer]
    BY <1>1, <1>2, <1>3
  <2>2. mailRows' \in [Pks -> MailRow]
    BY <1>1, <1>4
  <2>3. lost' \in Nat
    BY <1>x, <1>y
  <2> QED
    BY <1>0, <2>1, <2>2, <2>3
<1>c. lost' = lost => mailRows' = marked
  BY <1>1, <1>z
<1>d. lost' = 0 => lost = 0
  BY <1>x, <1>y
<1>e. \A k \in Pks : mailRows'[k].sent = mailRows[k].sent
                   \/ (mailRows'[k].sent = mailRows[k].sent \union {c} /\ k \in DOMAIN mailer[c].batch)
  BY <1>1, <1>4
<1>6. \A d \in Kinds : Expiring(d)' \in SUBSET Expiring(d)
  BY <1>0, <1>1, <1>4 DEF Expiring, InWindow
<1>7. lost' = lost => \A k \in DOMAIN mailer[c].batch : k \notin Expiring(c)'
  BY <1>c, <1>4 DEF Expiring
<1>8. SendsUnmarked'
  <2>1. \A d \in Kinds : mailer'[d].pc = "send" =>
           d # c /\ mailer'[d] = mailer[d] /\ DOMAIN mailer[d].batch \in SUBSET Pks
    <3>1. \A d \in Kinds : mailer[d] \in Mailer /\ DOMAIN mailer[d].batch \in SUBSET Pks
      BY DEF Mailer, BatchRows
    <3>2. mailer'[c].pc = "batch" /\ \A d \in Kinds \ {c} : mailer'[d] = mailer[d]
      BY <1>1 DEF MailerAt
    <3> QED
      BY <3>1, <3>2
  <2> QED
    BY <1>e, <2>1 DEF SendsUnmarked
<1>9. MailedIsMarked'
  <2> SUFFICES ASSUME lost' = 0, NEW d \in Kinds, NEW k \in Pks, NEW u \in Learners,
                      <<d, k, u>> \in got
               PROVE  twice = {} /\ (d \in mailRows'[k].sent \/ Marking(d, k)')
    <3> HIDE DEF RemindersInv, RemindersTypeOK
    <3>1. got' = got /\ twice' = twice
      BY <1>0
    <3>2. ASSUME lost' = 0
          PROVE  twice = {}
      <4>1. lost = 0
        BY <1>d, <3>2
      <4> QED
        BY <4>1 DEF MailedIsMarked, RemindersInv
    <3> QED
      BY <3>1, <3>2 DEF MailedIsMarked
  <2>1. lost = 0 /\ mailRows' = marked
    BY <1>c, <1>d
  <2>2. twice = {} /\ (d \in mailRows[k].sent \/ Marking(d, k))
    BY <2>1 DEF MailedIsMarked
  <2>3. d # c => mailer'[d] = mailer[d]
    BY <1>1
  <2> QED
    BY <1>4, <2>1, <2>2, <2>3 DEF Marking
<1>10. AheadOfRun'
  <2>1. \A d \in Kinds \ {c} : mailer'[d] = mailer[d]
    BY <1>1
  <2>2. /\ mailer'[c].pc = "batch" /\ mailer'[c].due = mailer[c].due
        /\ mailer'[c].after = mailer[c].after
        /\ mailer'[c].failed \/ (lost' = lost /\ mailer'[c].failed = mailer[c].failed)
    BY <1>1 DEF MailerAt
  <2> QED
    BY <1>0, <1>6, <1>7, <2>1, <2>2 DEF AheadOfRun
<1> QED
  BY <1>5, <1>8, <1>9, <1>10

LEMMA RequestKeeps ==
    ASSUME RemindersInv, NEW k \in Pks, NEW row \in MailRow, row.sent = mailRows[k].sent,
           Changed(k, row)
    PROVE  RemindersInv'
<1> USE DEF RemindersInv, RemindersTypeOK
<1>1. /\ UNCHANGED <<today, ranToday, got, twice, lost>> /\ changes' = changes + 1
      /\ mailRows' = [mailRows EXCEPT ![k] = row]
      /\ mailer' = [c \in Kinds |-> [mailer[c] EXCEPT !.due = @ \ {k}]]
  BY DEF Changed
<1>2. \A c \in Kinds :
         /\ mailer'[c] \in Mailer /\ mailer'[c].pc = mailer[c].pc
         /\ mailer'[c].due = mailer[c].due \ {k} /\ mailer'[c].after = mailer[c].after
         /\ mailer'[c].batch = mailer[c].batch /\ mailer'[c].failed = mailer[c].failed
  BY <1>1 DEF Mailer
<1>3. \A j \in Pks : mailRows'[j].sent = mailRows[j].sent /\ (j # k => mailRows'[j] = mailRows[j])
  BY <1>1
<1>4. RemindersTypeOK'
  <2>1. mailer' \in [Kinds -> Mailer]
    BY <1>1, <1>2
  <2> QED
    BY <1>1, <2>1
<1>5. SendsUnmarked'
  <2>1. \A c \in Kinds : DOMAIN mailer[c].batch \in SUBSET Pks
    BY DEF Mailer, BatchRows
  <2> QED
    BY <1>2, <1>3, <2>1 DEF SendsUnmarked
<1>6. MailedIsMarked'
  BY <1>1, <1>2, <1>3 DEF MailedIsMarked, Marking
<1>7. AheadOfRun'
  <2>1. \A c \in Kinds : \A j \in Expiring(c)' : j = k \/ j \in Expiring(c)
    BY <1>1, <1>3 DEF Expiring, InWindow
  <2> QED
    BY <1>2, <2>1 DEF AheadOfRun
<1> QED
  BY <1>4, <1>5, <1>6, <1>7

LEMMA TomorrowKeeps ==
    ASSUME RemindersInv, Tomorrow
    PROVE  RemindersInv'
BY DEF Tomorrow, RemindersInv, RemindersTypeOK, SendsUnmarked, MailedIsMarked, AheadOfRun, Marking

LEMMA RemindersStep ==
    ASSUME RemindersInv, [RemindersNext]_reminderVars
    PROVE  RemindersInv'
<1>1. CASE UNCHANGED reminderVars
  BY <1>1 DEF reminderVars, RemindersInv, RemindersTypeOK, SendsUnmarked, MailedIsMarked,
     AheadOfRun, Marking, Expiring, InWindow
<1>2. ASSUME NEW c \in Kinds, MailerStep(c)
      PROVE  RemindersInv'
  BY <1>2, StartKeeps, BatchKeeps, SendKeeps, MarkKeeps DEF MailerStep
<1>3. ASSUME NEW k \in Pks, RowActivated(k) \/ RowRevoked(k) \/ RowReset(k)
      PROVE  RemindersInv'
  <2>0. mailRows[k] \in MailRow
    BY DEF RemindersInv, RemindersTypeOK
  <2>1. CASE RowActivated(k)
    BY <2>0, <2>1, RequestKeeps DEF RowActivated, MailRow
  <2>2. CASE RowRevoked(k)
    BY <2>0, <2>2, RequestKeeps DEF RowRevoked, MailRow
  <2>3. CASE RowReset(k)
    <3> DEFINE row == [mailRows[k] EXCEPT !.status = "unassigned", !.user_email = None]
               half == [mailRows[k] EXCEPT !.status = "unassigned"]
    <3>1. half \in MailRow /\ half.sent = mailRows[k].sent
      BY <2>0 DEF MailRow
    <3>2. row = [half EXCEPT !.user_email = None]
      OBVIOUS
    <3> HIDE DEF half
    <3>3. row \in MailRow /\ row.sent = mailRows[k].sent
      BY <3>1, <3>2 DEF MailRow
    <3>4. Changed(k, row)
      BY <2>3 DEF RowReset
    <3> HIDE DEF row
    <3> QED
      BY <3>3, <3>4, RequestKeeps
  <2> QED
    BY <1>3, <2>1, <2>2, <2>3
<1>4. ASSUME NEW k \in Pks, NEW u \in Learners, RowAssigned(k, u)
      PROVE  RemindersInv'
  <2> DEFINE row == [mailRows[k] EXCEPT !.status = "assigned", !.user_email = u]
             half == [mailRows[k] EXCEPT !.status = "assigned"]
  <2>0. mailRows[k] \in MailRow
    BY DEF RemindersInv, RemindersTypeOK
  <2>1. half \in MailRow /\ half.sent = mailRows[k].sent
    BY <2>0 DEF MailRow
  <2>2. row = [half EXCEPT !.user_email = u]
    OBVIOUS
  <2> HIDE DEF half
  <2>3. row \in MailRow /\ row.sent = mailRows[k].sent
    BY <2>1, <2>2 DEF MailRow
  <2>4. Changed(k, row)
    BY <1>4 DEF RowAssigned
  <2> HIDE DEF row
  <2> QED
    BY <2>3, <2>4, RequestKeeps
<1> QED
  BY <1>1, <1>2, <1>3, <1>4, TomorrowKeeps DEF RemindersNext

(***************************************************************************)
(* While no answer of Braze and no update is lost nobody gets the same     *)
(* e-mail twice for a license, however the two commands and the requests   *)
(* that change licenses interleave.                                        *)
(***************************************************************************)
LEMMA RemindersSafe == RemindersInit /\ [][RemindersNext]_reminderVars => []NoDuplicateMail
<1>1. RemindersInv => NoDuplicateMail
  BY DEF RemindersInv, MailedIsMarked, NoDuplicateMail
<1>2. RemindersInv /\ [RemindersNext]_reminderVars => RemindersInv'
  BY RemindersStep
<1> QED
  BY <1>1, <1>2, RemindersStart, PTL

(***************************************************************************)
(* A run in which nothing failed has told of every license that it counted *)
(* and that still is due when it ends: no batch skips one.                 *)
(***************************************************************************)
LEMMA RemindersCover == RemindersInit /\ [][RemindersNext]_reminderVars => RunCoversItsCount
<1> DEFINE Covered_ == \A c \in Kinds :
       mailer[c].pc = "batch" /\ mailer'[c].pc = "idle" /\ ~mailer[c].failed
         => mailer[c].due \cap Expiring(c) = {}
<1>1. RemindersInv /\ [RemindersNext]_reminderVars => RemindersInv'
  BY RemindersStep
<1>2. RemindersInv /\ [RemindersNext]_reminderVars => [Covered_]_reminderVars
  <2> SUFFICES ASSUME RemindersInv, RemindersNext, NEW c \in Kinds,
                      mailer[c].pc = "batch", mailer'[c].pc = "idle", ~mailer[c].failed
               PROVE  mailer[c].due \cap Expiring(c) = {}
    OBVIOUS
  <2> USE DEF RemindersInv, RemindersTypeOK
  <2>1. ASSUME NEW k \in Pks, NEW row, Changed(k, row)
        PROVE  FALSE
    BY <2>1 DEF Changed, Mailer
  <2>2. ~Tomorrow
    BY DEF Tomorrow
  <2>3. PICK d \in Kinds : MailerStep(d)
    BY <2>1, <2>2 DEF RemindersNext, RowActivated, RowRevoked, RowReset, RowAssigned
  <2>4. d = c
    BY <2>3 DEF MailerStep, MailerStart, MailerBatch, MailerSend, MailerMark
  <2>5. MailerBatch(c)
    BY <2>3, <2>4 DEF MailerStep, MailerStart, MailerSend, MailerMark
  <2>6. NextBatch(c) = {}
    BY <2>5 DEF MailerBatch, Mailer
  <2> QED
    BY <2>6, BatchIsFirst DEF AheadOfRun
<1> QED
  BY <1>1, <1>2, RemindersStart, PTL DEF RunCoversItsCount

-----------------------------------------------------------------------------
(***************************************************************************)
(* Notifications: the tasks behind a request.                              *)
(***************************************************************************)
JobKinds == {"none", "link", "alias", "assigned", "remind", "activation", "auto"}

Job == [kind : JobKinds, to : SUBSET Staff, pending : SUBSET Staff,
        pc : {"idle", "start", "send", "mark"}, notify : BOOLEAN, retries : Nat]

\* An invitation is written for learners who are linked; a date for those who
\* were written to.
JobSound(r) ==
    /\ r \in Job
    /\ r.pending \subseteq r.to
    /\ r.kind = "assigned" => r.to \subseteq linked
    /\ r.pc = "mark" => r.kind = "remind" /\ \A u \in r.pending : <<"remind", u>> \in told

NotificationsInv ==
    /\ job \in [Jobs -> Job]
    /\ \A j \in Jobs : JobSound(job[j])
    /\ MailsInOrder

LEMMA FreshJob ==
    ASSUME NEW kind \in JobKinds, NEW to \in SUBSET Staff, NEW notify \in BOOLEAN
    PROVE  /\ NewJob(kind, to, notify) \in Job
           /\ NewJob(kind, to, notify).kind = kind /\ NewJob(kind, to, notify).to = to
           /\ NewJob(kind, to, notify).pending = {} /\ NewJob(kind, to, notify).pc = "start"
<1> DEFINE a == [JobFree EXCEPT !.kind = kind]
           b == [a EXCEPT !.to = to]
           c == [b EXCEPT !.pc = "start"]
           d == [c EXCEPT !.notify = notify]
<1>1. a \in Job /\ a.kind = kind /\ a.pending = {}
  BY DEF JobFree, Job, JobKinds
<1>5. NewJob(kind, to, notify) = d
  BY DEF NewJob
<1> HIDE DEF a
<1>2. b \in Job /\ b.kind = kind /\ b.to = to /\ b.pending = {}
  BY <1>1 DEF Job
<1> HIDE DEF b
<1>3. c \in Job /\ c.kind = kind /\ c.to = to /\ c.pending = {} /\ c.pc = "start"
  BY <1>2 DEF Job
<1> HIDE DEF c
<1>4. d \in Job /\ d.kind = kind /\ d.to = to /\ d.pending = {} /\ d.pc = "start"
  BY <1>3 DEF Job
<1> HIDE DEF d
<1> QED
  BY <1>4, <1>5

LEMMA FreeJob == JobFree \in Job /\ JobFree.kind = "none" /\ JobFree.pending = {} /\ JobFree.pc = "idle"
BY DEF JobFree, Job, JobKinds

\* A task that fails is gone or starts again for the same learners.
LEMMA FailedJob ==
    ASSUME NotificationsInv, NEW j \in Jobs, Failed(j) \/ Done(j) \/ Swallowed(j)
    PROVE  \E r \in Job : /\ job' = [job EXCEPT ![j] = r]
                          /\ r.pending = {} /\ r.pc # "mark"
                          /\ r.kind = "assigned" => job[j].kind = "assigned" /\ r.to = job[j].to
<1>1. job[j] \in Job
  BY DEF NotificationsInv
<1> DEFINE new == NewJob(job[j].kind, job[j].to, job[j].notify)
           again == [new EXCEPT !.retries = job[j].retries + 1]
<1>2. /\ new \in Job /\ new.kind = job[j].kind /\ new.to = job[j].to
      /\ new.pending = {} /\ new.pc = "start"
  <2>1. job[j].kind \in JobKinds /\ job[j].to \in SUBSET Staff
    BY <1>1 DEF Job
  <2>2. job[j].notify \in BOOLEAN
    BY <1>1 DEF Job
  <2> QED
    BY <2>1, <2>2, FreshJob
<1>3. job' = [job EXCEPT ![j] = JobFree] \/ job' = [job EXCEPT ![j] = again]
  BY DEF Failed, Done, Swallowed
<1> HIDE DEF new
<1>4. /\ again \in Job /\ again.kind = job[j].kind /\ again.to = job[j].to
      /\ again.pending = {} /\ again.pc = "start"
  BY <1>1, <1>2 DEF Job
<1> HIDE DEF again
<1> QED
  BY <1>3, <1>4, FreeJob

\* What is known of the learners of a task is not forgotten.
LEMMA JobsKeep ==
    ASSUME NotificationsInv, NEW j \in Jobs, NEW r \in Job,
           job' = [job EXCEPT ![j] = r], JobSound(r)',
           linked \subseteq linked', told \subseteq told'
    PROVE  job' \in [Jobs -> Job] /\ \A i \in Jobs : JobSound(job[i])'
BY DEF NotificationsInv, JobSound

LEMMA SameMails ==
    ASSUME NotificationsInv, UNCHANGED <<told, reminded>>, aliased \subseteq aliased', linked \subseteq linked'
    PROVE  MailsInOrder'
BY DEF NotificationsInv, MailsInOrder, MailNeedsAlias, InvitedAreLinked, RemindedMeansMailed

LEMMA NotificationsStart == NotificationsInit => NotificationsInv
<1>1. NotificationsInit => MailsInOrder
  BY DEF NotificationsInit, MailsInOrder, MailNeedsAlias, InvitedAreLinked, RemindedMeansMailed
<1> QED
  BY <1>1, FreeJob DEF NotificationsInit, NotificationsInv, JobSound

\* A message is sent for learners of the plan.
LEMMA SentKeeps ==
    ASSUME NotificationsInv, NEW kind \in JobKinds \ {"assigned"}, NEW to \in SUBSET Staff,
           NEW notify \in BOOLEAN, Sent(kind, to, notify),
           UNCHANGED <<linked, told, aliased>>, reminded' \subseteq reminded
    PROVE  NotificationsInv'
<1>1. PICK j \in Jobs : job' = [job EXCEPT ![j] = NewJob(kind, to, notify)]
  BY DEF Sent
<1>2. /\ NewJob(kind, to, notify) \in Job /\ NewJob(kind, to, notify).kind = kind
      /\ NewJob(kind, to, notify).pending = {} /\ NewJob(kind, to, notify).pc = "start"
  BY FreshJob
<1>3. job' \in [Jobs -> Job] /\ \A i \in Jobs : JobSound(job[i])'
  BY <1>1, <1>2 DEF NotificationsInv, JobSound
<1>4. MailsInOrder'
  BY DEF NotificationsInv, MailsInOrder, MailNeedsAlias, InvitedAreLinked, RemindedMeansMailed
<1> QED
  BY <1>3, <1>4 DEF NotificationsInv

\* A task ends or starts again, and nothing that was reached is lost.
LEMMA EndedKeeps ==
    ASSUME NotificationsInv, NEW j \in Jobs, Failed(j) \/ Done(j) \/ Swallowed(j),
           linked \subseteq linked', told \subseteq told', MailsInOrder'
    PROVE  NotificationsInv'
<1>1. PICK r \in Job : /\ job' = [job EXCEPT ![j] = r]
                       /\ r.pending = {} /\ r.pc # "mark"
                       /\ r.kind = "assigned" => job[j].kind = "assigned" /\ r.to = job[j].to
  BY FailedJob
<1>2. JobSound(r)'
  BY <1>1 DEF NotificationsInv, JobSound
<1>3. job' \in [Jobs -> Job] /\ \A i \in Jobs : JobSound(job[i])'
  BY <1>1, <1>2, JobsKeep
<1> QED
  BY <1>3 DEF NotificationsInv

\* A task goes on to its next step with the learners it has read.
LEMMA ReadyJob ==
    ASSUME NEW r \in Job, NEW pending \in SUBSET r.to
    PROVE  \E s \in Job : /\ s = [r EXCEPT !.pc = "send", !.pending = pending]
                          /\ s.kind = r.kind /\ s.to = r.to
                          /\ s.pc = "send" /\ s.pending = pending
<1> DEFINE half == [r EXCEPT !.pc = "send"]
           s == [r EXCEPT !.pc = "send", !.pending = pending]
<1>1. half \in Job /\ half.kind = r.kind /\ half.to = r.to /\ half.pc = "send"
  BY DEF Job
<1>2. s = [half EXCEPT !.pending = pending]
  OBVIOUS
<1> HIDE DEF half
<1>3. pending \in SUBSET Staff
  BY DEF Job
<1> QED
  BY <1>1, <1>2, <1>3 DEF Job

LEMMA LinkKeeps ==
    ASSUME NotificationsInv, NEW j \in Jobs, LinkLearners(j)
    PROVE  NotificationsInv'
<1>0. /\ job[j] \in Job /\ job[j].to \in SUBSET Staff
      /\ linked \subseteq linked' /\ UNCHANGED <<told, reminded, aliased>>
  BY DEF LinkLearners, NotificationsInv, Job
<1>1. MailsInOrder'
  BY <1>0, SameMails
<1>2. CASE Failed(j) \/ Done(j)
  BY <1>0, <1>1, <1>2, EndedKeeps
<1>3. ASSUME NEW i \in Jobs \ {j}, linked' = linked \union job[j].to,
             job' = [job EXCEPT ![j] = NewJob("alias", job[j].to, FALSE),
                                ![i] = NewJob("assigned", job[j].to, FALSE)]
      PROVE  NotificationsInv'
  <2>0. /\ "alias" \in JobKinds /\ "assigned" \in JobKinds /\ FALSE \in BOOLEAN
        /\ job[j].to \in SUBSET Staff
    BY <1>0 DEF JobKinds
  <2> DEFINE alias == NewJob("alias", job[j].to, FALSE)
             assigned == NewJob("assigned", job[j].to, FALSE)
  <2>a. alias \in Job /\ alias.kind = "alias" /\ alias.pending = {} /\ alias.pc = "start"
    BY <2>0, FreshJob
  <2>b. /\ assigned \in Job /\ assigned.kind = "assigned" /\ assigned.to = job[j].to
        /\ assigned.pending = {} /\ assigned.pc = "start"
    <3>1. assigned \in Job /\ assigned.kind = "assigned"
          /\ assigned.pending = {} /\ assigned.pc = "start"
      BY <2>0, FreshJob
    <3>2. \A to \in SUBSET Staff : NewJob("assigned", to, FALSE).to = to
      BY <2>0, FreshJob
    <3>3. assigned.to = job[j].to
      BY <2>0, <3>2
    <3> QED
      BY <3>1, <3>3
  <2>1. PICK a \in Job : /\ a = alias /\ a.kind = "alias" /\ a.pending = {} /\ a.pc = "start"
    BY <2>a
  <2>2. PICK b \in Job : /\ b = assigned /\ b.kind = "assigned" /\ b.to = job[j].to
                         /\ b.pending = {} /\ b.pc = "start"
    BY <2>b
  <2>3. job' = [job EXCEPT ![j] = a, ![i] = b]
    BY <1>3, <2>1, <2>2
  <2>4. JobSound(a)' /\ JobSound(b)'
    BY <1>3, <2>1, <2>2 DEF JobSound
  <2>5. job' \in [Jobs -> Job] /\ \A h \in Jobs : JobSound(job[h])'
    <3>1. job \in [Jobs -> Job] /\ \A h \in Jobs : JobSound(job[h])
      BY DEF NotificationsInv
    <3>2. job' \in [Jobs -> Job] /\ job'[i] = b /\ job'[j] = a
      BY <1>3, <2>3, <3>1
    <3>3. \A h \in Jobs \ {i, j} : job'[h] = job[h]
      BY <2>3, <3>1
    <3>4. \A h \in Jobs \ {i, j} : JobSound(job[h])'
      BY <1>0, <3>1, <3>3 DEF JobSound
    <3>5. JobSound(job[i])' /\ JobSound(job[j])'
      BY <2>4, <3>2 DEF JobSound
    <3> QED
      BY <3>2, <3>4, <3>5
  <2> QED
    BY <1>1, <2>5 DEF NotificationsInv
<1> QED
  BY <1>2, <1>3 DEF LinkLearners

LEMMA ReadKeeps ==
    ASSUME NotificationsInv, NEW j \in Jobs, ReadPending(j) \/ ReadCustomer(j)
    PROVE  NotificationsInv'
<1>0. /\ job[j] \in Job /\ JobSound(job[j])
      /\ UNCHANGED <<told, reminded, aliased, linked>>
  BY DEF ReadPending, ReadCustomer, NotificationsInv
<1>1. MailsInOrder'
  BY <1>0, SameMails
<1>2. CASE Failed(j) \/ Done(j) \/ Swallowed(j)
  BY <1>0, <1>1, <1>2, EndedKeeps
<1>3. ASSUME NEW pending \in SUBSET job[j].to,
             job' = [job EXCEPT ![j].pc = "send", ![j].pending = pending]
      PROVE  NotificationsInv'
  <2>1. PICK s \in Job : /\ s = [job[j] EXCEPT !.pc = "send", !.pending = pending]
                         /\ s.kind = job[j].kind /\ s.to = job[j].to
                         /\ s.pc = "send" /\ s.pending = pending
    BY <1>0, ReadyJob
  <2>2. job' = [job EXCEPT ![j] = s]
    BY <1>3, <2>1 DEF NotificationsInv
  <2>3. JobSound(s)'
    BY <1>0, <2>1 DEF JobSound
  <2>4. job' \in [Jobs -> Job] /\ \A i \in Jobs : JobSound(job[i])'
    BY <1>0, <2>1, <2>2, <2>3, JobsKeep
  <2> QED
    BY <1>1, <2>4 DEF NotificationsInv
<1>4. \A pending \in SUBSET job[j].to :
         job' = [job EXCEPT ![j].pc = "send", ![j].pending = pending] => NotificationsInv'
  BY <1>3
<1>5. CASE ReadPending(j)
  <2>1. {u \in job[j].to : held[u] = "assigned"} \in SUBSET job[j].to
    OBVIOUS
  <2> QED
    BY <1>2, <1>4, <1>5, <2>1 DEF ReadPending
<1>6. CASE ReadCustomer(j)
  BY <1>2, <1>4, <1>6 DEF ReadCustomer
<1> QED
  BY <1>5, <1>6

LEMMA SendMailKeeps ==
    ASSUME NotificationsInv, NEW j \in Jobs, SendMail(j)
    PROVE  NotificationsInv'
<1>0. /\ job[j] \in Job /\ JobSound(job[j]) /\ UNCHANGED <<reminded, linked>>
      /\ aliased \subseteq aliased' /\ told \subseteq told'
      /\ \/ told' = told
         \/ /\ told' = told \union ({job[j].kind} \X job[j].pending)
            /\ aliased' = aliased \union job[j].pending
  BY DEF SendMail, NotificationsInv
<1>1. MailsInOrder'
  <2>1. CASE told' = told
    BY <1>0, <2>1, SameMails
  <2>2. CASE /\ told' = told \union ({job[j].kind} \X job[j].pending)
             /\ aliased' = aliased \union job[j].pending
    <3>1. \A m \in told' : m \in told \/ (m[1] = job[j].kind /\ m[2] \in job[j].pending)
      BY <2>2
    <3>2. MailNeedsAlias' /\ InvitedAreLinked'
      BY <1>0, <2>2, <3>1 DEF NotificationsInv, JobSound, MailsInOrder, MailNeedsAlias, InvitedAreLinked
    <3>3. RemindedMeansMailed'
      BY <1>0 DEF NotificationsInv, MailsInOrder, RemindedMeansMailed
    <3> QED
      BY <3>2, <3>3 DEF MailsInOrder
  <2> QED
    BY <1>0, <2>1, <2>2
<1>2. CASE Failed(j) \/ Done(j) \/ Swallowed(j)
  BY <1>0, <1>1, <1>2, EndedKeeps
<1>3. CASE /\ job[j].kind = "remind" /\ job' = [job EXCEPT ![j].pc = "mark"]
           /\ told' = told \union ({job[j].kind} \X job[j].pending)
  <2>1. PICK s \in Job : /\ s = [job[j] EXCEPT !.pc = "mark"]
                         /\ s.kind = "remind" /\ s.to = job[j].to
                         /\ s.pc = "mark" /\ s.pending = job[j].pending
    <3>1. \A r \in Job : LET s == [r EXCEPT !.pc = "mark"]
                        IN  /\ s \in Job /\ s.kind = r.kind /\ s.to = r.to
                            /\ s.pc = "mark" /\ s.pending = r.pending
      BY DEF Job
    <3> QED
      BY <1>0, <1>3, <3>1
  <2>2. job' = [job EXCEPT ![j] = s]
    BY <1>3, <2>1
  <2>3. JobSound(s)'
    BY <1>0, <1>3, <2>1 DEF JobSound
  <2>4. job' \in [Jobs -> Job] /\ \A i \in Jobs : JobSound(job[i])'
    BY <1>0, <2>1, <2>2, <2>3, JobsKeep
  <2> QED
    BY <1>1, <2>4 DEF NotificationsInv
<1> QED
  BY <1>2, <1>3 DEF SendMail

LEMMA MarkRemindedKeeps ==
    ASSUME NotificationsInv, NEW j \in Jobs, MarkReminded(j)
    PROVE  NotificationsInv'
<1>0. /\ JobSound(job[j]) /\ job[j].pc = "mark" /\ UNCHANGED <<linked, told, aliased>>
      /\ reminded' = reminded \/ reminded' = reminded \union job[j].pending
      /\ Failed(j) \/ Done(j)
  BY DEF MarkReminded, NotificationsInv
<1>1. MailsInOrder'
  BY <1>0 DEF NotificationsInv, JobSound, MailsInOrder, MailNeedsAlias, InvitedAreLinked, RemindedMeansMailed
<1> QED
  BY <1>0, <1>1, EndedKeeps

LEMMA NotificationsStep ==
    ASSUME NotificationsInv, [NotificationsNext]_notificationVars
    PROVE  NotificationsInv'
<1>1. ASSUME UNCHANGED <<job, linked, aliased, told, reminded>>
      PROVE  NotificationsInv'
  BY <1>1 DEF NotificationsInv, JobSound, MailsInOrder, MailNeedsAlias, InvitedAreLinked, RemindedMeansMailed
<1>2. CASE UNCHANGED notificationVars
  BY <1>1, <1>2 DEF notificationVars
<1>3. ASSUME NEW S \in SUBSET Staff, NEW notify \in BOOLEAN, AssignAndLink(S, notify)
      PROVE  NotificationsInv'
  <2>1. \E n \in BOOLEAN : Sent("link", S, n)
    BY <1>3 DEF AssignAndLink
  <2>2. UNCHANGED <<linked, told, aliased>> /\ reminded' \subseteq reminded
    BY <1>3 DEF AssignAndLink
  <2> QED
    BY <2>1, <2>2, SentKeeps DEF JobKinds
<1>4. ASSUME NEW S \in SUBSET Staff, Remind(S)
      PROVE  NotificationsInv'
  BY <1>4, SentKeeps DEF Remind, JobKinds
<1>5. ASSUME NEW u \in Staff, ActivateAndNotify(u) \/ AutoApplyAndNotify(u) \/ RevokeHeld(u)
      PROVE  NotificationsInv'
  <2>1. UNCHANGED <<linked, told, aliased, reminded>>
    BY <1>5 DEF ActivateAndNotify, AutoApplyAndNotify, RevokeHeld
  <2>2. UNCHANGED job \/ Sent("activation", {u}, FALSE) \/ Sent("auto", {u}, FALSE)
    BY <1>5 DEF ActivateAndNotify, AutoApplyAndNotify, RevokeHeld, SentUnless
  <2> QED
    BY <1>1, <2>1, <2>2, SentKeeps DEF JobKinds
<1>6. ASSUME NEW j \in Jobs, CreateAliases(j)
      PROVE  NotificationsInv'
  <2>1. UNCHANGED <<linked, told, reminded>> /\ aliased \subseteq aliased' /\ (Failed(j) \/ Done(j))
    BY <1>6 DEF CreateAliases
  <2> QED
    BY <2>1, SameMails, EndedKeeps
<1> QED
  BY <1>2, <1>3, <1>4, <1>5, <1>6, LinkKeeps, ReadKeeps, SendMailKeeps, MarkRemindedKeeps
  DEF NotificationsNext, RunJob

(***************************************************************************)
(* Whatever fails and in whatever order celery runs the tasks behind a     *)
(* request: nobody is written to without an alias, nobody is invited who   *)
(* is not linked, and a reminder has been sent before it is dated.         *)
(***************************************************************************)
LEMMA NotificationsSafe == NotificationsInit /\ [][NotificationsNext]_notificationVars => []MailsInOrder
<1>1. NotificationsInv /\ [NotificationsNext]_notificationVars => NotificationsInv'
  BY NotificationsStep
<1>2. NotificationsInv => MailsInOrder
  BY DEF NotificationsInv
<1> QED
  BY <1>1, <1>2, NotificationsStart, PTL

-----------------------------------------------------------------------------
(***************************************************************************)
(* Utilization: one e-mail of each kind to the admins of a plan.           *)
(***************************************************************************)
UtilizationTask == [pc : {"idle", "check", "send"}, kind : {"none", "initial", "threshold"},
                    type : Types \union {"none"}, retries : Nat]

\* What makes an e-mail of a type superfluous.
Silences(y) == IF y = "limited" THEN {"limited", "none_left"} ELSE {y}

UtilizationInv ==
    /\ task \in [UTasks -> UtilizationTask]
    /\ notified \in SUBSET Types /\ mails \in [Types -> 0..2] /\ errors \in Nat
    /\ \A t \in UTasks : Running(t) => task[t].type \in Types
    /\ RecordedMeansSent
    /\ ~TasksOverlap =>
          /\ \A s, t \in UTasks : Running(s) /\ Running(t) => s = t
          /\ \A t \in UTasks : Running(t) => Silences(task[t].type) \cap notified = {}
          /\ errors = 0 => \A y \in Types : mails[y] <= 1 /\ (y \notin notified => mails[y] = 0)

LEMMA IdleTask == TaskIdle \in UtilizationTask /\ TaskIdle.pc = "idle"
BY DEF TaskIdle, UtilizationTask

LEMMA TaskFields ==
    ASSUME NEW r \in UtilizationTask
    PROVE  /\ \A pc \in {"idle", "check", "send"} : LET s == [r EXCEPT !.pc = pc] IN
                s \in UtilizationTask /\ s.pc = pc /\ s.retries = r.retries
           /\ \A kind \in {"none", "initial", "threshold"} : LET s == [r EXCEPT !.kind = kind] IN
                s \in UtilizationTask /\ s.pc = r.pc
           /\ \A type \in Types : LET s == [r EXCEPT !.type = type] IN
                s \in UtilizationTask /\ s.pc = r.pc /\ s.type = type
           /\ \A n \in Nat : LET s == [r EXCEPT !.retries = n] IN
                s \in UtilizationTask /\ s.pc = r.pc
<1>1. \A pc \in {"idle", "check", "send"} : LET s == [r EXCEPT !.pc = pc] IN
         s \in UtilizationTask /\ s.pc = pc /\ s.retries = r.retries
  BY DEF UtilizationTask
<1>2. \A kind \in {"none", "initial", "threshold"} : LET s == [r EXCEPT !.kind = kind] IN
         s \in UtilizationTask /\ s.pc = r.pc
  BY DEF UtilizationTask
<1>3. \A type \in Types : LET s == [r EXCEPT !.type = type] IN
         s \in UtilizationTask /\ s.pc = r.pc /\ s.type = type
  BY DEF UtilizationTask
<1>4. \A n \in Nat : LET s == [r EXCEPT !.retries = n] IN
         s \in UtilizationTask /\ s.pc = r.pc
  BY DEF UtilizationTask
<1> QED
  BY <1>1, <1>2, <1>3, <1>4

LEMMA HighestThreshold ==
    /\ HighestThresholdReached \in {"none", "limited", "none_left"}
    /\ AtLeast("limited") = {"limited", "none_left"} /\ AtLeast("none_left") = {"none_left"}
BY DEF HighestThresholdReached, AtLeast

\* What a task decides to send is not superfluous.
LEMMA Decided ==
    ASSUME NEW kind, NEW y, y = TypeToSend(kind), y # "none"
    PROVE  y \in Types /\ Silences(y) \cap notified = {}
<1>1. CASE kind = "initial"
  BY <1>1 DEF TypeToSend, Types, Silences
<1>2. CASE kind # "initial"
  <2>1. y = HighestThresholdReached /\ AtLeast(y) \cap notified = {}
    BY <1>2 DEF TypeToSend
  <2> QED
    BY <2>1, HighestThreshold DEF Types, Silences
<1> QED
  BY <1>1, <1>2

\* A task that is not going to send anything moves.
LEMMA TaskMoves ==
    ASSUME UtilizationInv, NEW t \in UTasks, NEW r \in UtilizationTask, r.pc # "send",
           task' = [task EXCEPT ![t] = r], UNCHANGED <<notified, mails, errors>>
    PROVE  UtilizationInv'
BY DEF UtilizationInv, Running, RecordedMeansSent

LEMMA ScheduleKeeps ==
    ASSUME UtilizationInv, NEW kind \in {"initial", "threshold"}, Schedule(kind),
           UNCHANGED <<notified, mails, errors>>
    PROVE  UtilizationInv'
<1>1. PICK t \in UTasks : task' = [task EXCEPT ![t] = [TaskIdle EXCEPT !.pc = "check", !.kind = kind]]
  BY DEF Schedule
<1> DEFINE half == [TaskIdle EXCEPT !.pc = "check"]
           r == [half EXCEPT !.kind = kind]
<1>2. half \in UtilizationTask /\ half.pc = "check"
  BY IdleTask, TaskFields
<1>3. task' = [task EXCEPT ![t] = r]
  BY <1>1
<1> HIDE DEF half
<1>4. r \in UtilizationTask /\ r.pc = "check"
  <2>1. \A k \in {"none", "initial", "threshold"} :
           LET s == [half EXCEPT !.kind = k] IN s \in UtilizationTask /\ s.pc = half.pc
    BY <1>2, TaskFields
  <2> QED
    BY <1>2, <2>1
<1> HIDE DEF r
<1>5. PICK row \in UtilizationTask : row = r
  BY <1>4
<1> QED
  BY <1>3, <1>4, <1>5, TaskMoves

LEMMA CheckKeeps ==
    ASSUME UtilizationInv, NEW t \in UTasks, TaskCheck(t)
    PROVE  UtilizationInv'
<1> DEFINE y == TypeToSend(task[t].kind)
<1>0. task[t] \in UtilizationTask /\ UNCHANGED <<notified, mails, errors>>
  BY DEF UtilizationInv, TaskCheck
<1>1. CASE y = "none"
  BY <1>0, <1>1, IdleTask, TaskMoves DEF TaskCheck
<1>2. CASE y # "none"
  <2>1. PICK type \in Types : type = y /\ Silences(type) \cap notified = {}
    BY <1>2, Decided
  <2>2. task' = [task EXCEPT ![t] = [task[t] EXCEPT !.pc = "send", !.type = type]]
    BY <1>2, <2>1 DEF TaskCheck
  <2> DEFINE half == [task[t] EXCEPT !.pc = "send"]
             r == [half EXCEPT !.type = type]
  <2>3. half \in UtilizationTask /\ half.pc = "send"
    BY <1>0, TaskFields
  <2>4. task' = [task EXCEPT ![t] = r]
    BY <2>2
  <2> HIDE DEF half
  <2>5. r \in UtilizationTask /\ r.pc = "send" /\ r.type = type
    BY <2>3, TaskFields
  <2> HIDE DEF r, y
  <2>6. task' \in [UTasks -> UtilizationTask] /\ task'[t] = r /\ \A s \in UTasks \ {t} : task'[s] = task[s]
    BY <2>4, <2>5 DEF UtilizationInv
  <2>7. TasksOverlap \/ \A s \in UTasks : ~Running(s)
    BY DEF TaskCheck
  <2>8. \A s \in UTasks : Running(s)' => s = t \/ Running(s)
    BY <2>6 DEF Running
  <2>9. ~TasksOverlap => \A s \in UTasks : Running(s)' => s = t
    BY <2>7, <2>8
  <2>10. \A s \in UTasks : Running(s)' => task'[s].type \in Types
    BY <2>5, <2>6, <2>8 DEF UtilizationInv
  <2>11. ~TasksOverlap => \A s \in UTasks : Running(s)' => Silences(task'[s].type) \cap notified' = {}
    BY <1>0, <2>1, <2>5, <2>6, <2>9
  <2>12. RecordedMeansSent'
    BY <1>0 DEF UtilizationInv, RecordedMeansSent
  <2> QED
    BY <1>0, <2>6, <2>9, <2>10, <2>11, <2>12 DEF UtilizationInv, Silences
<1> QED
  BY <1>1, <1>2

LEMMA MoreMails ==
    ASSUME mails \in [Types -> 0..2], NEW y \in Types, Mailed(y)
    PROVE  /\ mails' \in [Types -> 0..2] /\ mails'[y] >= 1
           /\ mails[y] = 0 => mails'[y] = 1
           /\ \A x \in Types : mails'[x] >= mails[x]
           /\ \A x \in Types \ {y} : mails'[x] = mails[x]
<1>1. mails[y] \in 0..2
  OBVIOUS
<1>2. mails' = [mails EXCEPT ![y] = IF mails[y] < 2 THEN mails[y] + 1 ELSE mails[y]]
  BY DEF Mailed
<1>3. (IF mails[y] < 2 THEN mails[y] + 1 ELSE mails[y]) \in 0..2
  BY <1>1
<1> QED
  BY <1>1, <1>2, <1>3

LEMMA TaskSendKeeps ==
    ASSUME UtilizationInv, NEW t \in UTasks, TaskSend(t)
    PROVE  UtilizationInv'
<1> DEFINE y == task[t].type
<1>0. task[t] \in UtilizationTask /\ y \in Types /\ Running(t)
  BY DEF UtilizationInv, TaskSend, Running
<1>1. PICK r \in UtilizationTask : r.pc # "send" /\ task' = [task EXCEPT ![t] = r]
  <2>1. CASE task' = [task EXCEPT ![t] = TaskIdle]
    BY <2>1, IdleTask
  <2>2. CASE task' = [task EXCEPT ![t].pc = "check", ![t].retries = @ + 1]
    <3> DEFINE half == [task[t] EXCEPT !.pc = "check"]
               r == [half EXCEPT !.retries = task[t].retries + 1]
    <3>1. half \in UtilizationTask /\ half.pc = "check" /\ half.retries = task[t].retries
      BY <1>0, TaskFields
    <3>2. task' = [task EXCEPT ![t] = r]
      <4>1. task' = [task EXCEPT ![t] = [half EXCEPT !.retries = half.retries + 1]]
        BY <2>2 DEF UtilizationInv
      <4> QED
        BY <3>1, <4>1
    <3>3. task[t].retries + 1 \in Nat
      BY <1>0 DEF UtilizationTask
    <3> HIDE DEF half
    <3>4. r \in UtilizationTask /\ r.pc = "check"
      BY <3>1, <3>3, TaskFields
    <3> HIDE DEF r
    <3> QED
      BY <3>2, <3>4
  <2> QED
    BY <2>1, <2>2 DEF TaskSend
<1>2. \/ Mailed(y) /\ notified' = notified \union {y} /\ errors' = errors
      \/ Mailed(y) /\ notified' = notified /\ errors' = errors + 1
      \/ UNCHANGED <<mails, notified>> /\ errors' = errors + 1
  BY DEF TaskSend
<1>3. /\ task' \in [UTasks -> UtilizationTask]
      /\ \A s \in UTasks : Running(s)' => s # t /\ Running(s) /\ task'[s] = task[s]
  BY <1>1 DEF UtilizationInv, Running
<1> HIDE DEF y
<1>4. mails' \in [Types -> 0..2] /\ errors' \in Nat /\ notified' \in SUBSET Types
  <2>1. mails' \in [Types -> 0..2] /\ notified' \in SUBSET Types
    BY <1>0, <1>2, MoreMails DEF UtilizationInv
  <2>2. errors' \in Nat
    BY <1>2 DEF UtilizationInv
  <2> QED
    BY <2>1, <2>2
<1>5. RecordedMeansSent'
  <2>1. \A x \in Types : mails[x] \in 0..2 /\ mails'[x] \in 0..2
    BY <1>4 DEF UtilizationInv
  <2>2. \A x \in notified : x \in Types /\ mails[x] >= 1
    BY DEF UtilizationInv, RecordedMeansSent
  <2>3. CASE Mailed(y)
    <3>1. mails'[y] >= 1 /\ \A x \in Types : mails'[x] >= mails[x]
      BY <1>0, <2>3, MoreMails DEF UtilizationInv
    <3>2. \A x \in notified' : x = y \/ x \in notified
      BY <1>2
    <3> QED
      BY <2>1, <2>2, <3>1, <3>2 DEF RecordedMeansSent
  <2>4. CASE UNCHANGED <<mails, notified>>
    BY <2>2, <2>4 DEF RecordedMeansSent
  <2> QED
    BY <1>2, <2>3, <2>4
<1>6. ASSUME ~TasksOverlap
      PROVE  /\ \A s \in UTasks : ~Running(s)'
             /\ errors' = 0 => \A x \in Types : mails'[x] <= 1 /\ (x \notin notified' => mails'[x] = 0)
  <2>1. \A s \in UTasks : ~Running(s)'
    BY <1>0, <1>3, <1>6 DEF UtilizationInv
  <2>2. ASSUME errors' = 0
        PROVE  \A x \in Types : mails'[x] <= 1 /\ (x \notin notified' => mails'[x] = 0)
    <3>1. errors \in Nat
      BY DEF UtilizationInv
    <3>2. Mailed(y) /\ notified' = notified \union {y} /\ errors = 0
      BY <1>2, <2>2, <3>1
    <3>3. y \notin notified
      BY <1>0, <1>6 DEF UtilizationInv, Silences, y
    <3>4. \A x \in Types : mails[x] <= 1 /\ (x \notin notified => mails[x] = 0)
      BY <1>6, <3>2 DEF UtilizationInv
    <3>5. mails'[y] = 1 /\ \A x \in Types \ {y} : mails'[x] = mails[x]
      BY <1>0, <3>2, <3>3, <3>4, MoreMails DEF UtilizationInv
    <3> QED
      BY <3>2, <3>4, <3>5
  <2> QED
    BY <2>1, <2>2
<1> QED
  BY <1>3, <1>4, <1>5, <1>6 DEF UtilizationInv

LEMMA UtilizationStart == UtilizationInit => UtilizationInv
BY IdleTask DEF UtilizationInit, UtilizationInv, Running, RecordedMeansSent, Types

LEMMA UtilizationStep ==
    ASSUME UtilizationInv, [UtilizationNext]_utilizationVars
    PROVE  UtilizationInv'
<1>1. ASSUME UNCHANGED <<task, notified, mails, errors>>
      PROVE  UtilizationInv'
  BY <1>1 DEF UtilizationInv, Running, RecordedMeansSent
<1>2. CASE UNCHANGED utilizationVars
  BY <1>1, <1>2 DEF utilizationVars
<1>3. CASE AllocationChanges \/ Provisioned \/ Toggle
  BY <1>1, <1>3 DEF AllocationChanges, Provisioned, Toggle
<1>4. CASE AutoApplied
  BY <1>4, ScheduleKeeps DEF AutoApplied
<1>5. CASE UtilizationCommand
  BY <1>5, ScheduleKeeps DEF UtilizationCommand
<1> QED
  BY <1>2, <1>3, <1>4, <1>5, CheckKeeps, TaskSendKeeps DEF UtilizationNext

(***************************************************************************)
(* However the tasks of a plan fail and are retried: a recorded e-mail was *)
(* accepted.  While the tasks do not overlap, few licenses are not told of *)
(* after none, and while no call fails each kind of e-mail goes out once.  *)
(***************************************************************************)
LEMMA UtilizationSafe == UtilizationInit /\ [][UtilizationNext]_utilizationVars => AlarmsSound
<1>1. UtilizationInv /\ [UtilizationNext]_utilizationVars => UtilizationInv'
  BY UtilizationStep
<1>2. UtilizationInv => NotifiedOnce /\ RecordedMeansSent
  BY DEF UtilizationInv, NotifiedOnce
<1> DEFINE Quiet == ~TasksOverlap /\ "none_left" \in notified => mails'["limited"] = mails["limited"]
<1>3. UtilizationInv /\ [UtilizationNext]_utilizationVars => [Quiet]_utilizationVars
  <2> SUFFICES ASSUME UtilizationInv, UtilizationNext, ~TasksOverlap, "none_left" \in notified
               PROVE  mails'["limited"] = mails["limited"]
    OBVIOUS
  <2>1. ASSUME NEW t \in UTasks, TaskSend(t)
        PROVE  mails'["limited"] = mails["limited"]
    <3>1. task[t].type \in Types /\ task[t].type # "limited" /\ mails \in [Types -> 0..2]
      BY <2>1 DEF UtilizationInv, TaskSend, Running, Silences
    <3>2. Mailed(task[t].type) \/ mails' = mails
      BY <2>1 DEF TaskSend
    <3> QED
      BY <3>1, <3>2, MoreMails DEF Types
  <2> QED
    BY <2>1 DEF UtilizationNext, AutoApplied, AllocationChanges, Provisioned, Toggle, UtilizationCommand, TaskCheck
<1> QED
  BY <1>1, <1>2, <1>3, UtilizationStart, PTL DEF AlarmsSound, NoLesserAlarm

-----------------------------------------------------------------------------
(***************************************************************************)
(* Bulk enrollment: the file of results.                                   *)
(***************************************************************************)
JobPcs == {"none", "saved", "enroll", "upload", "save", "email", "done", "failed"}

EnrollmentJob == [pc : JobPcs,
                  emails : Nat, courses : Nat, plans : SUBSET Plans,
                  course : Nat, email : Nat, object : BOOLEAN]

\* The result file answers for learners and courses up to here.
Answered(u, c) == \E s \in {"success", "pending", "failed"} : <<u, c, s>> \in results

AllAnswered == \A u \in 1..bjob.emails, c \in 1..bjob.courses : Answered(u, c)

ChunksAnswered ==
    \A u \in 1..bjob.emails, c \in 1..bjob.courses :
       c <= bjob.course \/ (c <= bjob.course + ChunkSize /\ u <= bjob.email) => Answered(u, c)

EnteredTold == \A x \in entered : \E s \in {"success", "pending"} : <<x[1], x[2], s>> \in results

EnrollmentInv ==
    /\ bjob \in EnrollmentJob
    /\ bjob.pc \in {"none", "saved"} => bjob.course = 0 /\ bjob.email = 0
    /\ bjob.pc = "enroll" => ChunksAnswered
    /\ bjob.pc \in {"upload", "save", "email", "done"} \/ bjob.object => AllAnswered
    /\ bjob.pc = "save" \/ bjob.object => stored
    /\ bjob.pc \in {"none", "saved", "enroll", "upload", "save"} => ~bjob.object
    /\ EnteredTold \/ (bjob.pc = "failed" /\ ~bjob.object)

\* A job with one field changed.
LEMMA AtPc ==
    ASSUME NEW r \in EnrollmentJob
    PROVE  \A v \in JobPcs : LET s == [r EXCEPT !.pc = v] IN
              /\ s \in EnrollmentJob /\ s.pc = v /\ s.object = r.object
              /\ s.emails = r.emails /\ s.courses = r.courses /\ s.course = r.course /\ s.email = r.email
BY DEF EnrollmentJob

LEMMA AtCourse ==
    ASSUME NEW r \in EnrollmentJob
    PROVE  \A v \in Nat : LET s == [r EXCEPT !.course = v] IN
              /\ s \in EnrollmentJob /\ s.pc = r.pc /\ s.object = r.object
              /\ s.emails = r.emails /\ s.courses = r.courses /\ s.course = v /\ s.email = r.email
BY DEF EnrollmentJob

LEMMA AtEmail ==
    ASSUME NEW r \in EnrollmentJob
    PROVE  \A v \in Nat : LET s == [r EXCEPT !.email = v] IN
              /\ s \in EnrollmentJob /\ s.pc = r.pc /\ s.object = r.object
              /\ s.emails = r.emails /\ s.courses = r.courses /\ s.course = r.course /\ s.email = v
BY DEF EnrollmentJob

LEMMA WithObject ==
    ASSUME NEW r \in EnrollmentJob
    PROVE  \A v \in BOOLEAN : LET s == [r EXCEPT !.object = v] IN
              /\ s \in EnrollmentJob /\ s.pc = r.pc /\ s.object = v
              /\ s.emails = r.emails /\ s.courses = r.courses /\ s.course = r.course /\ s.email = r.email
BY DEF EnrollmentJob

LEMMA ForEmails ==
    ASSUME NEW r \in EnrollmentJob
    PROVE  \A v \in Nat : LET s == [r EXCEPT !.emails = v] IN
              /\ s \in EnrollmentJob /\ s.pc = r.pc /\ s.object = r.object
              /\ s.emails = v /\ s.courses = r.courses /\ s.course = r.course /\ s.email = r.email
BY DEF EnrollmentJob

LEMMA ForCourses ==
    ASSUME NEW r \in EnrollmentJob
    PROVE  \A v \in Nat : LET s == [r EXCEPT !.courses = v] IN
              /\ s \in EnrollmentJob /\ s.pc = r.pc /\ s.object = r.object
              /\ s.emails = r.emails /\ s.courses = v /\ s.course = r.course /\ s.email = r.email
BY DEF EnrollmentJob

LEMMA OfPlans ==
    ASSUME NEW r \in EnrollmentJob
    PROVE  \A v \in SUBSET Plans : LET s == [r EXCEPT !.plans = v] IN
              /\ s \in EnrollmentJob /\ s.pc = r.pc /\ s.object = r.object
              /\ s.emails = r.emails /\ s.courses = r.courses /\ s.course = r.course /\ s.email = r.email
BY DEF EnrollmentJob

LEMMA EnrollmentStart == BulkEnrollmentInit => EnrollmentInv
BY DEF BulkEnrollmentInit, EnrollmentInv, EnrollmentJob, JobPcs, NoJob, EnteredTold

LEMMA PostKeeps ==
    ASSUME EnrollmentInv, NEW e \in Emails, NEW c \in Courses, NEW named \in BOOLEAN,
           NEW enrollAll \in BOOLEAN, PostJob(e, c, named, enrollAll)
    PROVE  EnrollmentInv'
<1> DEFINE all == {u \in Emails : roster["named"][u] \in {"activated", "assigned"}}
           n == IF enrollAll THEN Cardinality(all) ELSE e
           plans == IF named THEN {"named"} ELSE Plans
           s1 == [NoJob EXCEPT !.pc = "saved"]
           s2 == [s1 EXCEPT !.emails = n]
           s3 == [s2 EXCEPT !.courses = c]
           s4 == [s3 EXCEPT !.plans = plans]
<1>1. n \in Nat /\ c \in Nat /\ plans \in SUBSET Plans
  <2>1. IsFiniteSet(all)
    <3>1. IsFiniteSet(Emails)
      BY FS_Interval, BulkEnrollmentAssumption DEF Emails
    <3> QED
      BY <3>1, FS_Subset
  <2>2. Cardinality(all) \in Nat
    BY <2>1, FS_CardinalityType
  <2>3. e \in Nat /\ c \in Nat
    BY BulkEnrollmentAssumption DEF Emails, Courses
  <2> HIDE DEF all
  <2> QED
    BY <2>2, <2>3 DEF Plans
<1>2. bjob' = s4 /\ UNCHANGED <<results, entered, stored>> /\ bjob = NoJob
  BY DEF PostJob
<1> HIDE DEF n, plans
<1>3. /\ NoJob \in EnrollmentJob /\ NoJob.course = 0 /\ NoJob.email = 0 /\ ~NoJob.object
      /\ NoJob.pc = "none"
  BY DEF NoJob, EnrollmentJob, JobPcs
<1>4. s1 \in EnrollmentJob /\ s1.course = 0 /\ s1.email = 0 /\ ~s1.object /\ s1.pc = "saved"
  BY <1>3, AtPc DEF JobPcs
<1> HIDE DEF s1
<1>5. s2 \in EnrollmentJob /\ s2.course = 0 /\ s2.email = 0 /\ ~s2.object /\ s2.pc = "saved"
  BY <1>1, <1>4, ForEmails
<1> HIDE DEF s2
<1>6. s3 \in EnrollmentJob /\ s3.course = 0 /\ s3.email = 0 /\ ~s3.object /\ s3.pc = "saved"
  BY <1>1, <1>5, ForCourses
<1> HIDE DEF s3
<1>7. s4 \in EnrollmentJob /\ s4.course = 0 /\ s4.email = 0 /\ ~s4.object /\ s4.pc = "saved"
  BY <1>1, <1>6, OfPlans
<1> HIDE DEF s4
<1>8. EnteredTold'
  BY <1>2, <1>3 DEF EnrollmentInv, EnteredTold
<1> QED
  BY <1>2, <1>7, <1>8 DEF EnrollmentInv

\* The steps around the chunks: the task goes on, or fails.
LEMMA GoesOn ==
    ASSUME EnrollmentInv, UNCHANGED <<results, entered>>,
           NEW pc \in {"enroll", "save", "done", "failed"}, bjob' = [bjob EXCEPT !.pc = pc],
           pc = "enroll" => bjob.pc = "saved",
           pc = "save" => bjob.pc = "upload" /\ stored',
           pc = "done" => bjob.pc = "email",
           bjob.pc # "none", stored => stored'
    PROVE  EnrollmentInv'
<1>1. bjob \in EnrollmentJob
  BY DEF EnrollmentInv
<1>a. pc \in JobPcs
  BY DEF JobPcs
<1>2. /\ bjob' \in EnrollmentJob /\ bjob'.pc = pc /\ bjob'.object = bjob.object
      /\ bjob'.emails = bjob.emails /\ bjob'.courses = bjob.courses
      /\ bjob'.course = bjob.course /\ bjob'.email = bjob.email
  <2> DEFINE s == [bjob EXCEPT !.pc = pc]
  <2>1. /\ s \in EnrollmentJob /\ s.pc = pc /\ s.object = bjob.object
        /\ s.emails = bjob.emails /\ s.courses = bjob.courses
        /\ s.course = bjob.course /\ s.email = bjob.email
    BY <1>1, <1>a, AtPc
  <2>2. bjob' = s
    OBVIOUS
  <2> HIDE DEF s
  <2> QED
    BY <2>1, <2>2
<1>3. EnteredTold => EnteredTold'
  BY DEF EnteredTold
<1>4. AllAnswered => AllAnswered'
  BY <1>2 DEF AllAnswered, Answered
<1>5. bjob.course = 0 /\ bjob.email = 0 => ChunksAnswered'
  <2> SUFFICES ASSUME bjob.course = 0, bjob.email = 0 PROVE ChunksAnswered'
    OBVIOUS
  <2>1. \A u \in 1..bjob.emails, c \in 1..bjob.courses : ~(c <= 0) /\ ~(u <= 0)
    OBVIOUS
  <2> QED
    BY <1>2, <2>1 DEF ChunksAnswered
<1> QED
  BY <1>2, <1>3, <1>4, <1>5 DEF EnrollmentInv

LEMMA ChunkKeeps ==
    ASSUME EnrollmentInv, EnrollChunk
    PROVE  EnrollmentInv'
<1> DEFINE pairs == Chunk(bjob.email, bjob.emails) \X Chunk(bjob.course, bjob.courses)
           covered == {x \in pairs : Covered(x[1], x[2])}
           missing == {<<x[1], x[2], "failed">> : x \in pairs \ covered}
           Statuses == {"success", "pending", "failed"}
<1>0. bjob \in EnrollmentJob /\ bjob.pc = "enroll" /\ ChunksAnswered /\ EnteredTold /\ ~bjob.object
      /\ stored' = stored
  BY DEF EnrollmentInv, EnrollChunk
<1>1. CASE bjob' = [bjob EXCEPT !.pc = "failed"]
  <2>1. bjob' \in EnrollmentJob /\ bjob'.pc = "failed" /\ bjob'.object = bjob.object
    BY <1>0, <1>1, AtPc DEF JobPcs
  <2> QED
    BY <1>0, <2>1 DEF EnrollmentInv
<1>2. ASSUME NEW answer \in [covered -> Statuses],
             results' = results \union missing \union {<<x[1], x[2], answer[x]>> : x \in covered},
             entered' = entered \union {x \in covered : answer[x] # "failed"},
             bjob' = NextChunk
      PROVE  EnrollmentInv'
  <2>1. \A u \in Chunk(bjob.email, bjob.emails), c \in Chunk(bjob.course, bjob.courses) : Answered(u, c)'
    <3> SUFFICES ASSUME NEW u \in Chunk(bjob.email, bjob.emails), NEW c \in Chunk(bjob.course, bjob.courses)
                 PROVE  \E s \in Statuses : <<u, c, s>> \in results'
      BY DEF Answered
    <3>1. <<u, c>> \in pairs /\ <<u, c>>[1] = u /\ <<u, c>>[2] = c
      OBVIOUS
    <3>2. CASE <<u, c>> \in covered
      <4>1. <<u, c, answer[<<u, c>>]>> \in results' /\ answer[<<u, c>>] \in Statuses
        BY <1>2, <3>1, <3>2
      <4> QED
        BY <4>1
    <3>3. CASE <<u, c>> \notin covered
      <4>1. <<u, c, "failed">> \in missing
        BY <3>1, <3>3
      <4> QED
        BY <1>2, <4>1
    <3> QED
      BY <3>2, <3>3
  <2>2. EnteredTold'
    <3> SUFFICES ASSUME NEW x \in entered'
                 PROVE  \E s \in {"success", "pending"} : <<x[1], x[2], s>> \in results'
      BY DEF EnteredTold
    <3>1. CASE x \in entered
      BY <1>0, <1>2, <3>1 DEF EnteredTold
    <3>2. CASE x \in covered /\ answer[x] # "failed"
      <4>1. <<x[1], x[2], answer[x]>> \in results' /\ answer[x] \in {"success", "pending"}
        BY <1>2, <3>2
      <4> QED
        BY <4>1
    <3> QED
      BY <1>2, <3>1, <3>2
  <2>3. \A u, c : Answered(u, c) => Answered(u, c)'
    BY <1>2 DEF Answered
  <2> HIDE DEF pairs, covered, missing
  <2>4. /\ bjob.email \in Nat /\ bjob.emails \in Nat /\ bjob.course \in Nat /\ bjob.courses \in Nat
        /\ ChunkSize \in Nat \ {0}
    BY <1>0, BulkEnrollmentAssumption DEF EnrollmentJob
  <2>5. \A u \in 1..bjob.emails, c \in 1..bjob.courses :
           \/ c <= bjob.course
           \/ c <= bjob.course + ChunkSize /\ u <= bjob.email + ChunkSize
           => Answered(u, c)'
    <3> SUFFICES ASSUME NEW u \in 1..bjob.emails, NEW c \in 1..bjob.courses,
                        \/ c <= bjob.course
                        \/ c <= bjob.course + ChunkSize /\ u <= bjob.email + ChunkSize
                 PROVE  Answered(u, c)'
      OBVIOUS
    <3>1. CASE c <= bjob.course
      BY <1>0, <2>3, <3>1 DEF ChunksAnswered
    <3>2. CASE c <= bjob.course + ChunkSize /\ u <= bjob.email
      BY <1>0, <2>3, <3>2 DEF ChunksAnswered
    <3>3. CASE c > bjob.course /\ c <= bjob.course + ChunkSize /\ u > bjob.email /\ u <= bjob.email + ChunkSize
      BY <2>1, <3>3 DEF Chunk
    <3> QED
      BY <2>4, <3>1, <3>2, <3>3
  <2>6. CASE bjob.email + ChunkSize < bjob.emails
    <3>1. bjob' = [bjob EXCEPT !.email = bjob.email + ChunkSize]
      BY <1>0, <1>2, <2>6 DEF NextChunk, EnrollmentJob
    <3>2. /\ bjob' \in EnrollmentJob /\ bjob'.pc = "enroll" /\ ~bjob'.object
          /\ bjob'.emails = bjob.emails /\ bjob'.courses = bjob.courses
          /\ bjob'.course = bjob.course /\ bjob'.email = bjob.email + ChunkSize
      BY <1>0, <2>4, <3>1, AtEmail
    <3>3. ChunksAnswered'
      BY <2>5, <3>2 DEF ChunksAnswered
    <3> QED
      BY <2>2, <3>2, <3>3 DEF EnrollmentInv
  <2>7. CASE ~(bjob.email + ChunkSize < bjob.emails)
    <3> DEFINE pc == IF bjob.course + ChunkSize < bjob.courses THEN "enroll" ELSE "upload"
               s1 == [bjob EXCEPT !.email = 0]
               s2 == [s1 EXCEPT !.course = bjob.course + ChunkSize]
               s3 == [s2 EXCEPT !.pc = pc]
    <3>1. /\ s1 \in EnrollmentJob /\ ~s1.object /\ s1.emails = bjob.emails /\ s1.courses = bjob.courses
          /\ s1.course = bjob.course /\ s1.email = 0
      BY <1>0, AtEmail
    <3>2. bjob' = s3
      <4>1. bjob' = [[s1 EXCEPT !.course = s1.course + ChunkSize] EXCEPT !.pc = pc]
        BY <1>2, <2>7 DEF NextChunk
      <4> QED
        BY <3>1, <4>1
    <3> HIDE DEF s1
    <3>3. /\ s2 \in EnrollmentJob /\ ~s2.object /\ s2.emails = bjob.emails /\ s2.courses = bjob.courses
          /\ s2.course = bjob.course + ChunkSize /\ s2.email = 0
      BY <2>4, <3>1, AtCourse
    <3> HIDE DEF s2
    <3>4. pc \in {"enroll", "upload"} /\ (pc = "upload" => ~(bjob.course + ChunkSize < bjob.courses))
      OBVIOUS
    <3> HIDE DEF pc
    <3>a. pc \in JobPcs
      BY <3>4 DEF JobPcs
    <3>5. /\ s3 \in EnrollmentJob /\ ~s3.object /\ s3.emails = bjob.emails /\ s3.courses = bjob.courses
          /\ s3.course = bjob.course + ChunkSize /\ s3.email = 0 /\ s3.pc = pc
      BY <3>3, <3>a, AtPc
    <3> HIDE DEF s3
    <3>6. \A u \in 1..bjob.emails, c \in 1..bjob.courses :
             c <= bjob.course + ChunkSize => Answered(u, c)'
      BY <2>4, <2>5, <2>7
    <3>7. ChunksAnswered'
      <4> SUFFICES ASSUME NEW u \in 1..bjob.emails, NEW c \in 1..bjob.courses,
                          \/ c <= bjob.course + ChunkSize
                          \/ c <= bjob.course + ChunkSize + ChunkSize /\ u <= 0
                   PROVE  Answered(u, c)'
        BY <3>2, <3>5 DEF ChunksAnswered
      <4> QED
        BY <2>4, <3>6
    <3>8. pc = "upload" => AllAnswered'
      <4> SUFFICES ASSUME pc = "upload", NEW u \in 1..bjob.emails, NEW c \in 1..bjob.courses
                   PROVE  Answered(u, c)'
        BY <3>2, <3>5 DEF AllAnswered
      <4> QED
        BY <2>4, <3>4, <3>6
    <3> QED
      BY <2>2, <3>2, <3>4, <3>5, <3>7, <3>8 DEF EnrollmentInv
  <2> QED
    BY <2>6, <2>7
<1>3. \/ bjob' = [bjob EXCEPT !.pc = "failed"]
      \/ \E answer \in [covered -> Statuses] :
            /\ results' = results \union missing \union {<<x[1], x[2], answer[x]>> : x \in covered}
            /\ entered' = entered \union {x \in covered : answer[x] # "failed"}
            /\ bjob' = NextChunk
  BY DEF EnrollChunk
<1> HIDE DEF missing, covered, pairs
<1> QED
  BY <1>1, <1>2, <1>3

LEMMA SavedKeeps ==
    ASSUME EnrollmentInv, bjob.pc = "save", UNCHANGED <<results, entered, stored>>,
           bjob' = [bjob EXCEPT !.pc = "email", !.object = TRUE]
    PROVE  EnrollmentInv'
<1> DEFINE half == [bjob EXCEPT !.pc = "email"]
<1>0. bjob \in EnrollmentJob /\ AllAnswered /\ stored /\ EnteredTold
  BY DEF EnrollmentInv
<1>1. half \in EnrollmentJob /\ half.pc = "email" /\ half.emails = bjob.emails /\ half.courses = bjob.courses
  BY <1>0, AtPc DEF JobPcs
<1>2. bjob' = [half EXCEPT !.object = TRUE]
  OBVIOUS
<1> HIDE DEF half
<1>3. bjob' \in EnrollmentJob /\ bjob'.pc = "email" /\ bjob'.emails = bjob.emails /\ bjob'.courses = bjob.courses
  BY <1>1, <1>2, WithObject
<1>4. AllAnswered' /\ EnteredTold'
  BY <1>0, <1>3 DEF AllAnswered, Answered, EnteredTold
<1> QED
  BY <1>0, <1>3, <1>4 DEF EnrollmentInv

LEMMA EnrollmentStep ==
    ASSUME EnrollmentInv, [BulkEnrollmentNext]_enrollmentVars
    PROVE  EnrollmentInv'
<1>1. ASSUME UNCHANGED <<bjob, results, entered, stored>>
      PROVE  EnrollmentInv'
  BY <1>1 DEF EnrollmentInv, ChunksAnswered, AllAnswered, Answered, EnteredTold
<1>2. CASE UNCHANGED enrollmentVars
  BY <1>1, <1>2 DEF enrollmentVars
<1>3. ASSUME NEW p \in Plans, NEW u \in Emails, RosterChanges(p, u)
      PROVE  EnrollmentInv'
  BY <1>1, <1>3 DEF RosterChanges
<1>4. CASE SendTask \/ UploadResults \/ SendResultsEmail
  BY <1>4, GoesOn DEF SendTask, UploadResults, SendResultsEmail
<1>5. CASE SaveResultsName
  BY <1>5, GoesOn, SavedKeeps DEF SaveResultsName
<1> QED
  BY <1>2, <1>3, <1>4, <1>5, PostKeeps, ChunkKeeps DEF BulkEnrollmentNext, TaskStep

(***************************************************************************)
(* A file of results that can be downloaded answers for every learner and  *)
(* course and tells of every enrollment, for lists and chunks of any       *)
(* length and whatever happens to licenses and calls meanwhile.            *)
(***************************************************************************)
LEMMA BulkEnrollmentSafe == BulkEnrollmentInit /\ [][BulkEnrollmentNext]_enrollmentVars => []ResultsComplete
<1>1. EnrollmentInv /\ [BulkEnrollmentNext]_enrollmentVars => EnrollmentInv'
  BY EnrollmentStep
<1>2. EnrollmentInv => ResultsComplete
  BY DEF EnrollmentInv, ResultsComplete, DownloadUrl, AllAnswered, Answered, EnteredTold
<1> QED
  BY <1>1, <1>2, EnrollmentStart, PTL

-----------------------------------------------------------------------------
(***************************************************************************)
(* Aftermath: the rows of the audit trail.                                 *)
(***************************************************************************)
SeatStatuses == {"unassigned", "assigned", "activated", "revoked"}
CallPcs == {"idle", "assigned", "task", "post", "messages", "done"}
CallKinds == {"none", "assign", "bulk", "all"}

Seat == [status : SeatStatuses, who : People \union {Nobody}]

CallRow == [pc : CallPcs, kind : CallKinds, todo : SUBSET (Seats \X SeatStatuses),
            cur : {<<>>} \union (Seats \X SeatStatuses), changed : SUBSET Seats,
            retries : Nat, broken : BOOLEAN]

\* What a request has changed is recorded or is still in its list, as long as
\* nothing was lost.
CallSound(r) ==
    /\ call[r].pc \in {"idle", "assigned"} => \A s \in Seats : actions[s][r] = 0
    /\ call[r].pc \in {"assigned", "task"} => call[r].todo = {}
    /\ call[r].pc = "messages" =>
          call[r].cur \in call[r].todo /\ (actions[call[r].cur[1]][r] = 1 \/ call[r].broken)
    /\ call[r].pc = "done" => call[r].todo = {} \/ call[r].broken
    /\ \A s \in call[r].changed : \/ call[r].broken \/ call[r].pc = "assigned"
                                  \/ actions[s][r] = 1 \/ \E x \in call[r].todo : x[1] = s

AftermathInv ==
    /\ seat \in [Seats -> Seat]
    /\ call \in [Calls -> CallRow]
    /\ actions \in [Seats -> [Calls -> {0, 1}]]
    /\ \A r \in Calls : CallSound(r)

\* A request with one field changed.
LEMMA CallAtPc ==
    ASSUME NEW r \in CallRow
    PROVE  \A v \in CallPcs : LET s == [r EXCEPT !.pc = v] IN
              /\ s \in CallRow /\ s.pc = v /\ s.todo = r.todo /\ s.cur = r.cur
              /\ s.changed = r.changed /\ s.retries = r.retries /\ s.broken = r.broken
BY DEF CallRow

LEMMA CallOfKind ==
    ASSUME NEW r \in CallRow
    PROVE  \A v \in CallKinds : LET s == [r EXCEPT !.kind = v] IN
              /\ s \in CallRow /\ s.pc = r.pc /\ s.todo = r.todo /\ s.cur = r.cur
              /\ s.changed = r.changed /\ s.retries = r.retries /\ s.broken = r.broken
BY DEF CallRow

LEMMA CallWithTodo ==
    ASSUME NEW r \in CallRow
    PROVE  \A v \in SUBSET (Seats \X SeatStatuses) : LET s == [r EXCEPT !.todo = v] IN
              /\ s \in CallRow /\ s.pc = r.pc /\ s.todo = v /\ s.cur = r.cur
              /\ s.changed = r.changed /\ s.retries = r.retries /\ s.broken = r.broken
BY DEF CallRow

LEMMA CallAtCur ==
    ASSUME NEW r \in CallRow
    PROVE  \A v \in {<<>>} \union (Seats \X SeatStatuses) : LET s == [r EXCEPT !.cur = v] IN
              /\ s \in CallRow /\ s.pc = r.pc /\ s.todo = r.todo /\ s.cur = v
              /\ s.changed = r.changed /\ s.retries = r.retries /\ s.broken = r.broken
BY DEF CallRow

LEMMA CallWithChanged ==
    ASSUME NEW r \in CallRow
    PROVE  \A v \in SUBSET Seats : LET s == [r EXCEPT !.changed = v] IN
              /\ s \in CallRow /\ s.pc = r.pc /\ s.todo = r.todo /\ s.cur = r.cur
              /\ s.changed = v /\ s.retries = r.retries /\ s.broken = r.broken
BY DEF CallRow

LEMMA CallWithRetries ==
    ASSUME NEW r \in CallRow
    PROVE  \A v \in Nat : LET s == [r EXCEPT !.retries = v] IN
              /\ s \in CallRow /\ s.pc = r.pc /\ s.todo = r.todo /\ s.cur = r.cur
              /\ s.changed = r.changed /\ s.retries = v /\ s.broken = r.broken
BY DEF CallRow

LEMMA CallWithBroken ==
    ASSUME NEW r \in CallRow
    PROVE  \A v \in BOOLEAN : LET s == [r EXCEPT !.broken = v] IN
              /\ s \in CallRow /\ s.pc = r.pc /\ s.todo = r.todo /\ s.cur = r.cur
              /\ s.changed = r.changed /\ s.retries = r.retries /\ s.broken = v
BY DEF CallRow


LEMMA IdleCall ==
    /\ CallIdle \in CallRow /\ CallIdle.pc = "idle" /\ CallIdle.todo = {} /\ CallIdle.changed = {}
    /\ CallIdle.broken = FALSE
BY DEF CallIdle, CallRow, CallPcs, CallKinds

\* A request that moves disturbs no row but its own.
LEMMA CallMoves ==
    ASSUME AftermathInv, NEW r \in Calls, NEW row \in CallRow, call' = [call EXCEPT ![r] = row],
           seat' \in [Seats -> Seat], actions' \in [Seats -> [Calls -> {0, 1}]],
           \A s \in Seats, q \in Calls \ {r} : actions'[s][q] = actions[s][q],
           CallSound(r)'
    PROVE  AftermathInv'
<1>1. call' \in [Calls -> CallRow] /\ \A q \in Calls \ {r} : call'[q] = call[q]
  BY DEF AftermathInv
<1>2. ASSUME NEW q \in Calls \ {r}
      PROVE  CallSound(q)'
  <2>1. CallSound(q) /\ call'[q] = call[q] /\ call[q] \in CallRow
    BY <1>1 DEF AftermathInv
  <2>2. \A s \in call[q].changed : s \in Seats
    BY <2>1 DEF CallRow
  <2>3. call[q].pc = "messages" => call[q].cur[1] \in Seats
    BY <2>1 DEF CallRow, CallSound
  <2> QED
    BY <2>1, <2>2, <2>3 DEF CallSound
<1> QED
  BY <1>1, <1>2 DEF AftermathInv

\* A request may go on with this row without one in the audit trail.
GoesOnAs(r, row) ==
    /\ \/ row.pc = "task" /\ row.todo = {}
       \/ row.pc = "post"
       \/ row.pc = "messages" /\ row.cur \in row.todo /\ (actions[row.cur[1]][r] = 1 \/ row.broken)
       \/ row.pc = "done" /\ (row.todo = {} \/ row.broken)
    /\ row.broken \/ \A s \in row.changed : actions[s][r] = 1 \/ \E x \in row.todo : x[1] = s

LEMMA CallGoesOn ==
    ASSUME AftermathInv, NEW r \in Calls, NEW row \in CallRow, GoesOnAs(r, row),
           call' = [call EXCEPT ![r] = row], seat' \in [Seats -> Seat], UNCHANGED actions
    PROVE  AftermathInv'
<1>1. call'[r] = row
  BY DEF AftermathInv
<1>2. CallSound(r)'
  BY <1>1 DEF CallSound, GoesOnAs
<1>3. actions' \in [Seats -> [Calls -> {0, 1}]]
  BY DEF AftermathInv
<1> QED
  BY <1>2, <1>3, CallMoves

LEMMA AftermathStart == AftermathInit => AftermathInv
<1> SUFFICES ASSUME AftermathInit PROVE AftermathInv
  OBVIOUS
<1>1. seat \in [Seats -> Seat]
  BY DEF AftermathInit, Seat, SeatStatuses
<1>2. \A r \in Calls : CallSound(r)
  BY IdleCall DEF AftermathInit, CallSound
<1> QED
  BY <1>1, <1>2, IdleCall DEF AftermathInit, AftermathInv

LEMMA AssignCommittedKeeps ==
    ASSUME AftermathInv, NEW r \in Calls, NEW s \in Seats, NEW u \in People, AssignCommitted(r, s, u)
    PROVE  AftermathInv'
<1> DEFINE a == [CallIdle EXCEPT !.pc = "assigned"]
           b == [a EXCEPT !.kind = "assign"]
           c == [b EXCEPT !.changed = {s}]
<1>1. a \in CallRow /\ a.pc = "assigned" /\ a.todo = {} /\ a.changed = {}
  BY IdleCall, CallAtPc DEF CallPcs
<1>2. call' = [call EXCEPT ![r] = c]
  BY DEF AssignCommitted
<1> HIDE DEF a
<1>3. b \in CallRow /\ b.pc = "assigned" /\ b.todo = {}
  BY <1>1, CallOfKind DEF CallKinds
<1> HIDE DEF b
<1>4. c \in CallRow /\ c.pc = "assigned" /\ c.todo = {}
  BY <1>3, CallWithChanged
<1> HIDE DEF c
<1>5. PICK row \in CallRow : row = c
  BY <1>4
<1>6. [status |-> "assigned", who |-> u] \in Seat
  BY DEF Seat, SeatStatuses
<1>7. seat' \in [Seats -> Seat] /\ UNCHANGED actions /\ call[r].pc = "idle"
  BY <1>6, IdleCall DEF AssignCommitted, AftermathInv
<1>8. call' = [call EXCEPT ![r] = row] /\ call'[r] = row
  BY <1>2, <1>5 DEF AftermathInv
<1>9. CallSound(r)'
  BY <1>4, <1>5, <1>7, <1>8 DEF CallSound, AftermathInv
<1>10. actions' \in [Seats -> [Calls -> {0, 1}]]
  BY <1>7 DEF AftermathInv
<1> QED
  BY <1>7, <1>8, <1>9, <1>10, CallMoves

LEMMA AssignAuditedKeeps ==
    ASSUME AftermathInv, NEW r \in Calls, AssignAudited(r)
    PROVE  AftermathInv'
<1> DEFINE a == [call[r] EXCEPT !.pc = "done"]
           b == [a EXCEPT !.broken = TRUE]
<1>0. /\ call[r] \in CallRow /\ call[r].pc = "assigned" /\ call[r].todo = {} /\ UNCHANGED seat
      /\ seat' \in [Seats -> Seat] /\ \A s \in Seats : actions[s][r] = 0
  BY DEF AftermathInv, AssignAudited, CallSound
<1>1. a \in CallRow /\ a.pc = "done" /\ a.todo = {} /\ a.changed = call[r].changed
  BY <1>0, CallAtPc DEF CallPcs
<1>2. \/ /\ actions' = [s \in Seats |-> [actions[s] EXCEPT ![r] =
                            IF s \in call[r].changed THEN actions[s][r] + 1 ELSE actions[s][r]]]
         /\ call' = [call EXCEPT ![r] = a]
      \/ call' = [call EXCEPT ![r] = b] /\ UNCHANGED actions
  BY DEF AssignAudited, AftermathInv
<1> HIDE DEF a
<1>3. b \in CallRow /\ b.pc = "done" /\ b.broken /\ b.todo = {} /\ b.changed = call[r].changed
  BY <1>1, CallWithBroken
<1> HIDE DEF b
<1>4. CASE call' = [call EXCEPT ![r] = b] /\ UNCHANGED actions
  <2>1. PICK row \in CallRow : row = b /\ row.pc = "done" /\ row.broken
    BY <1>3
  <2>2. GoesOnAs(r, row)
    BY <2>1 DEF GoesOnAs
  <2> QED
    BY <1>0, <1>4, <2>1, <2>2, CallGoesOn
<1>5. CASE /\ actions' = [s \in Seats |-> [actions[s] EXCEPT ![r] =
                            IF s \in call[r].changed THEN actions[s][r] + 1 ELSE actions[s][r]]]
           /\ call' = [call EXCEPT ![r] = a]
  <2>1. PICK row \in CallRow : row = a
    BY <1>1
  <2>2. call[r].changed \in SUBSET Seats
    BY <1>0 DEF CallRow
  <2>3. \A s \in Seats : /\ actions'[s] \in [Calls -> {0, 1}]
                         /\ s \in call[r].changed => actions'[s][r] = 1
                         /\ \A q \in Calls \ {r} : actions'[s][q] = actions[s][q]
    BY <1>0, <1>5 DEF AftermathInv
  <2>4. actions' \in [Seats -> [Calls -> {0, 1}]]
    BY <1>5, <2>3
  <2>5. call' = [call EXCEPT ![r] = row] /\ call'[r] = row
    BY <1>5, <2>1 DEF AftermathInv
  <2>6. CallSound(r)'
    BY <1>1, <2>1, <2>2, <2>3, <2>5 DEF CallSound
  <2> QED
    BY <1>0, <2>3, <2>4, <2>5, <2>6, CallMoves
<1> QED
  BY <1>2, <1>4, <1>5

\* A transaction that revokes licenses puts them all on the list.
LEMMA CommittedKeeps ==
    ASSUME AftermathInv, NEW r \in Calls, NEW S \in SUBSET Seats, NEW kind \in CallKinds,
           call[r].changed = {} \/ call[r].pc = "task", call[r].todo = {},
           Committed(r, S, kind), UNCHANGED actions
    PROVE  AftermathInv'
<1> DEFINE todo == {<<s, seat[s].status>> : s \in S}
           a == [call[r] EXCEPT !.pc = "post"]
           b == [a EXCEPT !.kind = kind]
           c == [b EXCEPT !.todo = todo]
           d == [c EXCEPT !.changed = c.changed \union S]
<1>0. call[r] \in CallRow /\ CallSound(r) /\ seat \in [Seats -> Seat]
  BY DEF AftermathInv
<1>1. todo \in SUBSET (Seats \X SeatStatuses)
  BY <1>0 DEF Seat
<1>2. \A s \in S : \E x \in todo : x[1] = s
  <2>1. \A s \in S : <<s, seat[s].status>> \in todo /\ <<s, seat[s].status>>[1] = s
    OBVIOUS
  <2> QED
    BY <2>1
<1>3. call' = [call EXCEPT ![r] = d]
  BY DEF Committed, AftermathInv
<1> HIDE DEF todo
<1>4. a \in CallRow /\ a.pc = "post" /\ a.changed = call[r].changed /\ a.broken = call[r].broken
  BY <1>0, CallAtPc DEF CallPcs
<1> HIDE DEF a
<1>5. b \in CallRow /\ b.pc = "post" /\ b.changed = call[r].changed /\ b.broken = call[r].broken
  BY <1>4, CallOfKind
<1> HIDE DEF b
<1>6. /\ c \in CallRow /\ c.pc = "post" /\ c.changed = call[r].changed /\ c.broken = call[r].broken
      /\ c.todo = todo
  BY <1>1, <1>5, CallWithTodo
<1> HIDE DEF c
<1>7. c.changed \union S \in SUBSET Seats
  BY <1>6 DEF CallRow
<1>8. /\ d \in CallRow /\ d.pc = "post" /\ d.changed = call[r].changed \union S
      /\ d.broken = call[r].broken /\ d.todo = todo
  BY <1>6, <1>7, CallWithChanged
<1> HIDE DEF d
<1>9. PICK row \in CallRow : /\ row = d /\ row.pc = "post" /\ row.todo = todo
                             /\ row.changed = call[r].changed \union S /\ row.broken = call[r].broken
  BY <1>8
<1>10. \A s \in call[r].changed : call[r].broken \/ actions[s][r] = 1
  BY <1>0 DEF CallSound
<1>11. seat' \in [Seats -> Seat]
  <2>1. seat' = [s \in Seats |-> IF s \in S THEN [seat[s] EXCEPT !.status = "revoked"] ELSE seat[s]]
    BY DEF Committed
  <2>2. \A x \in Seat : [x EXCEPT !.status = "revoked"] \in Seat
    BY DEF Seat, SeatStatuses
  <2> QED
    BY <1>0, <2>1, <2>2
<1>12. GoesOnAs(r, row)
  BY <1>2, <1>9, <1>10 DEF GoesOnAs
<1> QED
  BY <1>3, <1>9, <1>11, <1>12, CallGoesOn

\* A task that fails is over, or starts again with an empty list.
LEMMA RetriedKeeps ==
    ASSUME AftermathInv, NEW r \in Calls, call[r].pc \in {"task", "post", "messages"},
           call' = [call EXCEPT ![r] = Retried(r)], UNCHANGED <<seat, actions>>
    PROVE  AftermathInv'
<1>0. call[r] \in CallRow /\ CallSound(r) /\ seat' \in [Seats -> Seat]
  BY DEF AftermathInv
<1>1. \E row \in CallRow : /\ row = Retried(r) /\ row.todo = {}
                           /\ row.pc = "task" \/ (row.pc = "done" /\ row.broken)
                           /\ row.changed = call[r].changed
                           /\ ~row.broken => ~call[r].broken /\ call[r].todo = {}
  <2>1. CASE call[r].retries < MaxTaskRetries
    <3> DEFINE a == [call[r] EXCEPT !.pc = "task"]
               b == [a EXCEPT !.todo = {}]
               c == [b EXCEPT !.retries = b.retries + 1]
               broken == c.broken \/ call[r].todo # {}
               d == [c EXCEPT !.broken = broken]
    <3>1. /\ a \in CallRow /\ a.pc = "task" /\ a.changed = call[r].changed
          /\ a.broken = call[r].broken
      BY <1>0, CallAtPc DEF CallPcs
    <3>2. Retried(r) = d
      BY <2>1 DEF Retried
    <3> HIDE DEF a
    <3>3. /\ b \in CallRow /\ b.pc = "task" /\ b.changed = call[r].changed
          /\ b.broken = call[r].broken /\ b.todo = {}
      BY <3>1, CallWithTodo
    <3> HIDE DEF b
    <3>4. b.retries + 1 \in Nat
      BY <3>3 DEF CallRow
    <3>5. /\ c \in CallRow /\ c.pc = "task" /\ c.changed = call[r].changed
          /\ c.broken = call[r].broken /\ c.todo = {}
      BY <3>3, <3>4, CallWithRetries
    <3> HIDE DEF c
    <3>6. broken \in BOOLEAN
      OBVIOUS
    <3>7. /\ d \in CallRow /\ d.pc = "task" /\ d.changed = call[r].changed
          /\ d.broken = broken /\ d.todo = {}
      <4> HIDE DEF broken
      <4> QED
        BY <3>5, <3>6, CallWithBroken
    <3>8. ~broken => ~call[r].broken /\ call[r].todo = {}
      BY <3>5
    <3> HIDE DEF d, broken
    <3> QED
      BY <3>2, <3>7, <3>8
  <2>2. CASE ~(call[r].retries < MaxTaskRetries)
    <3> DEFINE a == [call[r] EXCEPT !.pc = "done"]
               b == [a EXCEPT !.todo = {}]
               c == [b EXCEPT !.broken = TRUE]
    <3>1. a \in CallRow /\ a.pc = "done" /\ a.changed = call[r].changed
      BY <1>0, CallAtPc DEF CallPcs
    <3>2. Retried(r) = c
      BY <2>2 DEF Retried
    <3> HIDE DEF a
    <3>3. b \in CallRow /\ b.pc = "done" /\ b.changed = call[r].changed /\ b.todo = {}
      BY <3>1, CallWithTodo
    <3> HIDE DEF b
    <3>4. c \in CallRow /\ c.pc = "done" /\ c.changed = call[r].changed /\ c.todo = {} /\ c.broken
      BY <3>3, CallWithBroken
    <3> HIDE DEF c
    <3> QED
      BY <3>2, <3>4
  <2> QED
    BY <2>1, <2>2
<1>2. PICK row \in CallRow : /\ row = Retried(r) /\ row.todo = {}
                             /\ row.pc = "task" \/ (row.pc = "done" /\ row.broken)
                             /\ row.changed = call[r].changed
                             /\ ~row.broken => ~call[r].broken /\ call[r].todo = {}
  BY <1>1
<1>3. row.broken \/ \A s \in row.changed : actions[s][r] = 1
  BY <1>0, <1>2 DEF CallSound
<1>4. GoesOnAs(r, row)
  BY <1>2, <1>3 DEF GoesOnAs
<1> QED
  BY <1>0, <1>2, <1>4, CallGoesOn

LEMMA PostAuditKeeps ==
    ASSUME AftermathInv, NEW r \in Calls, NEW x \in call[r].todo, PostAudit(r, x)
    PROVE  AftermathInv'
<1>0. /\ call[r] \in CallRow /\ CallSound(r) /\ seat' \in [Seats -> Seat] /\ call[r].pc = "post"
      /\ actions \in [Seats -> [Calls -> {0, 1}]]
  BY DEF AftermathInv, PostAudit
<1>1. x \in Seats \X SeatStatuses /\ x[1] \in Seats /\ call[r].changed \in SUBSET Seats
      /\ call[r].todo \in SUBSET (Seats \X SeatStatuses)
  BY <1>0 DEF CallRow
<1>2. CASE actions[x[1]][r] > 0 /\ call' = [call EXCEPT ![r].todo = @ \ {x}] /\ UNCHANGED actions
  <2> DEFINE a == [call[r] EXCEPT !.todo = call[r].todo \ {x}]
  <2>1. call[r].todo \ {x} \in SUBSET (Seats \X SeatStatuses)
    BY <1>1
  <2>2. /\ a \in CallRow /\ a.pc = "post" /\ a.changed = call[r].changed
        /\ a.todo = call[r].todo \ {x} /\ a.broken = call[r].broken
    BY <1>0, <2>1, CallWithTodo
  <2>3. call' = [call EXCEPT ![r] = a]
    BY <1>2 DEF AftermathInv
  <2> HIDE DEF a
  <2>4. PICK row \in CallRow : /\ row = a /\ row.pc = "post" /\ row.changed = call[r].changed
                               /\ row.todo = call[r].todo \ {x} /\ row.broken = call[r].broken
    BY <2>2
  <2>5. actions[x[1]][r] = 1
    BY <1>0, <1>1, <1>2
  <2>6. row.broken \/ \A s \in row.changed : actions[s][r] = 1 \/ \E y \in row.todo : y[1] = s
    BY <1>0, <2>4, <2>5 DEF CallSound
  <2>7. GoesOnAs(r, row)
    BY <2>4, <2>6 DEF GoesOnAs
  <2> QED
    BY <1>0, <1>2, <2>3, <2>4, <2>7, CallGoesOn
<1> DEFINE a == [call[r] EXCEPT !.pc = "messages"]
           b == [a EXCEPT !.cur = x]
           c == [b EXCEPT !.broken = TRUE]
<1>3. /\ a \in CallRow /\ a.pc = "messages" /\ a.changed = call[r].changed
      /\ a.todo = call[r].todo /\ a.broken = call[r].broken
  BY <1>0, CallAtPc DEF CallPcs
<1>4. [call[r] EXCEPT !.pc = "messages", !.cur = x] = b
  OBVIOUS
<1>5. [call[r] EXCEPT !.pc = "messages", !.cur = x, !.broken = TRUE] = c
  OBVIOUS
<1> HIDE DEF a
<1>6. /\ b \in CallRow /\ b.pc = "messages" /\ b.changed = call[r].changed
      /\ b.todo = call[r].todo /\ b.broken = call[r].broken /\ b.cur = x
  BY <1>1, <1>3, CallAtCur
<1> HIDE DEF b
<1>7. /\ c \in CallRow /\ c.pc = "messages" /\ c.changed = call[r].changed
      /\ c.todo = call[r].todo /\ c.broken /\ c.cur = x
  BY <1>6, CallWithBroken
<1> HIDE DEF c
<1>8. CASE /\ actions[x[1]][r] = 0 /\ actions' = [actions EXCEPT ![x[1]][r] = @ + 1]
           /\ call' = [call EXCEPT ![r].pc = "messages", ![r].cur = x]
  <2>1. call' = [call EXCEPT ![r] = b]
    BY <1>4, <1>8 DEF AftermathInv
  <2>2. PICK row \in CallRow : row = b
    BY <1>6
  <2>3. /\ actions' \in [Seats -> [Calls -> {0, 1}]] /\ actions'[x[1]][r] = 1
        /\ \A s \in Seats : s # x[1] => actions'[s] = actions[s]
        /\ \A s \in Seats, q \in Calls \ {r} : actions'[s][q] = actions[s][q]
    BY <1>0, <1>1, <1>8
  <2>4. call' = [call EXCEPT ![r] = row] /\ call'[r] = row
    BY <2>1, <2>2 DEF AftermathInv
  <2>5. CallSound(r)'
    BY <1>0, <1>1, <1>6, <2>2, <2>3, <2>4 DEF CallSound
  <2> QED
    BY <1>0, <2>3, <2>4, <2>5, CallMoves
<1>9. CASE /\ call' = [call EXCEPT ![r].pc = "messages", ![r].cur = x, ![r].broken = TRUE]
           /\ UNCHANGED actions
  <2>1. call' = [call EXCEPT ![r] = c]
    BY <1>5, <1>9 DEF AftermathInv
  <2>2. PICK row \in CallRow : /\ row = c /\ row.pc = "messages" /\ row.todo = call[r].todo
                               /\ row.broken /\ row.cur = x
    BY <1>7
  <2>3. GoesOnAs(r, row)
    BY <2>2 DEF GoesOnAs
  <2> QED
    BY <1>0, <1>9, <2>1, <2>2, <2>3, CallGoesOn
<1> QED
  BY <1>2, <1>8, <1>9 DEF PostAudit

LEMMA PostMessagesKeeps ==
    ASSUME AftermathInv, NEW r \in Calls, PostMessages(r)
    PROVE  AftermathInv'
<1> DEFINE a == [call[r] EXCEPT !.pc = "post"]
           b == [a EXCEPT !.todo = a.todo \ {call[r].cur}]
           c == [b EXCEPT !.cur = <<>>]
<1>0. /\ call[r] \in CallRow /\ CallSound(r) /\ seat' \in [Seats -> Seat] /\ call[r].pc = "messages"
      /\ UNCHANGED actions
  BY DEF AftermathInv, PostMessages
<1>1. a \in CallRow /\ a.pc = "post" /\ a.changed = call[r].changed /\ a.todo = call[r].todo
      /\ a.broken = call[r].broken
  BY <1>0, CallAtPc DEF CallPcs
<1>2. call' = [call EXCEPT ![r] = c]
  BY DEF PostMessages, AftermathInv
<1> HIDE DEF a
<1>3. a.todo \ {call[r].cur} \in SUBSET (Seats \X SeatStatuses)
  BY <1>1 DEF CallRow
<1>4. /\ b \in CallRow /\ b.pc = "post" /\ b.changed = call[r].changed
      /\ b.todo = call[r].todo \ {call[r].cur} /\ b.broken = call[r].broken
  <2> DEFINE rest == a.todo \ {call[r].cur}
  <2>1. rest \in SUBSET (Seats \X SeatStatuses) /\ rest = call[r].todo \ {call[r].cur}
    BY <1>1, <1>3
  <2>2. b = [a EXCEPT !.todo = rest]
    OBVIOUS
  <2> HIDE DEF rest, b
  <2> QED
    BY <1>1, <2>1, <2>2, CallWithTodo
<1> HIDE DEF b
<1>5. /\ c \in CallRow /\ c.pc = "post" /\ c.changed = call[r].changed
      /\ c.todo = call[r].todo \ {call[r].cur} /\ c.broken = call[r].broken
  BY <1>4, CallAtCur
<1> HIDE DEF c
<1>6. PICK row \in CallRow : /\ row = c /\ row.pc = "post" /\ row.changed = call[r].changed
                             /\ row.todo = call[r].todo \ {call[r].cur} /\ row.broken = call[r].broken
  BY <1>5
<1>7. row.broken \/ \A s \in row.changed : actions[s][r] = 1 \/ \E x \in row.todo : x[1] = s
  BY <1>0, <1>6 DEF CallSound
<1>8. GoesOnAs(r, row)
  BY <1>6, <1>7 DEF GoesOnAs
<1> QED
  BY <1>0, <1>2, <1>6, <1>8, CallGoesOn

LEMMA PostEndsKeep ==
    ASSUME AftermathInv, NEW r \in Calls, PostEnd(r) \/ PostBreaks(r) \/ RevokeAll(r)
    PROVE  AftermathInv'
<1>0. /\ call[r] \in CallRow /\ CallSound(r) /\ seat' \in [Seats -> Seat] /\ UNCHANGED <<seat, actions>>
  BY DEF AftermathInv, PostEnd, PostBreaks, RevokeAll
<1> DEFINE a == [call[r] EXCEPT !.pc = "done"]
           b == [a EXCEPT !.broken = TRUE]
           c == [call[r] EXCEPT !.pc = "task"]
           d == [c EXCEPT !.kind = "all"]
<1>1. a \in CallRow /\ a.pc = "done" /\ a.changed = call[r].changed /\ a.todo = call[r].todo
  BY <1>0, CallAtPc DEF CallPcs
<1>2. [call[r] EXCEPT !.pc = "done", !.broken = TRUE] = b
  OBVIOUS
<1>3. CASE PostEnd(r)
  <2>1. call' = [call EXCEPT ![r] = a] /\ call[r].todo = {} /\ call[r].pc = "post"
    BY <1>3 DEF PostEnd, AftermathInv
  <2>2. a.broken = call[r].broken
    BY <1>0, CallAtPc DEF CallPcs
  <2> HIDE DEF a
  <2>3. PICK row \in CallRow : /\ row = a /\ row.pc = "done" /\ row.changed = call[r].changed
                               /\ row.todo = {} /\ row.broken = call[r].broken
    BY <1>1, <2>1, <2>2
  <2>4. row.broken \/ \A s \in row.changed : actions[s][r] = 1 \/ \E x \in row.todo : x[1] = s
    BY <1>0, <2>1, <2>3 DEF CallSound
  <2>5. GoesOnAs(r, row)
    BY <2>3, <2>4 DEF GoesOnAs
  <2> QED
    BY <1>0, <2>1, <2>3, <2>5, CallGoesOn
<1> HIDE DEF a
<1>4. CASE PostBreaks(r)
  <2>1. b \in CallRow /\ b.pc = "done" /\ b.broken
    BY <1>1, CallWithBroken
  <2>2. call' = [call EXCEPT ![r] = b] \/ call' = [call EXCEPT ![r] = Retried(r)]
    BY <1>2, <1>4 DEF PostBreaks, AftermathInv
  <2> HIDE DEF b
  <2>3. CASE call' = [call EXCEPT ![r] = b]
    <3>1. PICK row \in CallRow : row = b /\ row.pc = "done" /\ row.broken
      BY <2>1
    <3>2. GoesOnAs(r, row)
      BY <3>1 DEF GoesOnAs
    <3> QED
      BY <1>0, <2>3, <3>1, <3>2, CallGoesOn
  <2>4. call[r].pc \in {"task", "post", "messages"}
    BY <1>4 DEF PostBreaks
  <2> QED
    BY <1>0, <2>2, <2>3, <2>4, RetriedKeeps
<1>5. CASE RevokeAll(r)
  <2>1. c \in CallRow /\ c.pc = "task" /\ c.changed = call[r].changed /\ c.todo = call[r].todo
    BY <1>0, CallAtPc DEF CallPcs
  <2>2. call' = [call EXCEPT ![r] = d] /\ call[r].changed = {} /\ call[r].todo = {}
    BY <1>5, IdleCall DEF RevokeAll, AftermathInv
  <2> HIDE DEF c
  <2>3. d \in CallRow /\ d.pc = "task" /\ d.changed = {} /\ d.todo = {}
    BY <2>1, <2>2, CallOfKind DEF CallKinds
  <2> HIDE DEF d
  <2>4. PICK row \in CallRow : /\ row = d /\ row.pc = "task" /\ row.changed = {} /\ row.todo = {}
    BY <2>3
  <2>5. GoesOnAs(r, row)
    BY <2>4 DEF GoesOnAs
  <2> QED
    BY <1>0, <2>2, <2>4, <2>5, CallGoesOn
<1> QED
  BY <1>3, <1>4, <1>5

LEMMA AftermathStep ==
    ASSUME AftermathInv, [AftermathNext]_aftermathVars
    PROVE  AftermathInv'
<1>1. ASSUME UNCHANGED <<call, actions>>, seat' \in [Seats -> Seat]
      PROVE  AftermathInv'
  BY <1>1 DEF AftermathInv, CallSound
<1>2. CASE UNCHANGED aftermathVars
  BY <1>1, <1>2 DEF aftermathVars, AftermathInv
<1>3. ASSUME NEW s \in Seats, ActivationRead(s) \/ ActivationSave(s)
      PROVE  AftermathInv'
  <2>1. \A x \in Seat : [x EXCEPT !.status = "activated"] \in Seat
    BY DEF Seat, SeatStatuses
  <2>2. seat' \in [Seats -> Seat] /\ UNCHANGED <<call, actions>>
    BY <1>3, <2>1 DEF ActivationRead, ActivationSave, AftermathInv
  <2> QED
    BY <1>1, <2>2
<1>4. ASSUME NEW u \in People, Unenroll(u)
      PROVE  AftermathInv'
  BY <1>1, <1>4 DEF Unenroll, AftermathInv
<1>5. ASSUME NEW r \in Calls, NEW S \in SUBSET Seats, BulkRevoke(r, S)
      PROVE  AftermathInv'
  BY <1>5, IdleCall, CommittedKeeps DEF BulkRevoke, CallKinds
<1>6. ASSUME NEW r \in Calls, RevokeAllTask(r)
      PROVE  AftermathInv'
  <2>1. call[r].pc = "task" /\ AllocatedSeats \in SUBSET Seats /\ UNCHANGED actions
    BY <1>6 DEF RevokeAllTask, AllocatedSeats
  <2>2. CASE call' = [call EXCEPT ![r] = Retried(r)] /\ UNCHANGED seat
    BY <2>1, <2>2, RetriedKeeps
  <2>3. CASE Committed(r, AllocatedSeats, "all")
    <3>1. call[r].todo = {}
      BY <2>1 DEF AftermathInv, CallSound
    <3> QED
      BY <2>1, <2>3, <3>1, CommittedKeeps DEF CallKinds
  <2> QED
    BY <1>6, <2>2, <2>3 DEF RevokeAllTask
<1> QED
  BY <1>2, <1>3, <1>4, <1>5, <1>6, AssignCommittedKeeps, AssignAuditedKeeps, PostAuditKeeps,
     PostMessagesKeeps, PostEndsKeep
  DEF AftermathNext, CallStep

(***************************************************************************)
(* However requests and retried tasks interleave and break off: at most    *)
(* one row for a request and a license, and one for every license that a   *)
(* request changed if nothing of it failed.                                *)
(***************************************************************************)
LEMMA AftermathSafe == AftermathInit /\ [][AftermathNext]_aftermathVars => []AuditTrail
<1>1. AftermathInv /\ [AftermathNext]_aftermathVars => AftermathInv'
  BY AftermathStep
<1>2. AftermathInv => AuditTrail
  <2> SUFFICES ASSUME AftermathInv, NEW r \in Calls, NEW s \in Seats
               PROVE  /\ actions[s][r] <= 1
                      /\ call[r].pc = "done" /\ ~call[r].broken /\ s \in call[r].changed => actions[s][r] = 1
    BY DEF AuditTrail
  <2>1. actions[s][r] \in {0, 1}
    BY DEF AftermathInv
  <2> QED
    BY <2>1 DEF AftermathInv, CallSound
<1> QED
  BY <1>1, <1>2, AftermathStart, PTL

-----------------------------------------------------------------------------
(***************************************************************************)
(* Tracking: the half-year command and its pages.                          *)
(***************************************************************************)
CommandPcs == {"idle", "send", "record"}

CommandRow == [pc : CommandPcs, dry : BOOLEAN, list : Seq(TLicenses), due : SUBSET TLicenses,
               page : Nat, at : Nat]

TrackedRow == [due : BOOLEAN, user : BOOLEAN, learner : Nat]

\* The numbers of the last license before the page, of the last one on it, and of
\* the one that comes next.
Before == (command.page - 1) * EventPage
PageEnd == IF command.page * EventPage < Len(command.list)
           THEN command.page * EventPage ELSE Len(command.list)
Coming == Before + command.at

Position == 1..Len(command.list)

ToldNow(l) ==
    command.pc # "idle" /\ ~command.dry /\ \E i \in Position : command.list[i] = l /\ i < Coming

\* track_event was called for a license, and Segment heard or the call was lost.
Called(l) == segment[l] > 0 \/ l \in unheard

\* A run has recorded what lies before its page and nothing of the rest.
RunSound ==
    /\ command.page \in Nat \ {0} /\ command.at \in Nat \ {0}
    /\ Before < Len(command.list) /\ Coming <= PageEnd + 1
    /\ command.pc = "record" => Coming = PageEnd + 1
    /\ \A i, j \in Position : command.list[i] = command.list[j] => i = j
    /\ \A l \in command.due : \E i \in Position : command.list[i] = l
    /\ \A i \in Position : i > Before => command.list[i] \notin events
    /\ ~command.dry => \A i \in Position :
          /\ i <= Before => command.list[i] \in events
          /\ i < Coming => Called(command.list[i])

TrackingInv ==
    /\ tracked \in [TLicenses -> TrackedRow] /\ events \in SUBSET TLicenses
    /\ segment \in [TLicenses -> Nat] /\ unheard \in SUBSET TLicenses /\ deaths \in Nat /\ tops \in Nat
    /\ command \in CommandRow
    /\ command.pc # "idle" => RunSound
    /\ HalfYearOnce
    /\ \A l \in TLicenses : l \notin events => segment[l] <= deaths \/ ToldNow(l)

\* A set in order is a sequence of its elements, each of them once.
LEMMA OrderedOnce ==
    ASSUME NEW S \in SUBSET Nat, IsFiniteSet(S)
    PROVE  /\ Ordered(S) \in Seq(S) /\ Len(Ordered(S)) = Cardinality(S)
           /\ \A i, j \in 1..Cardinality(S) : Ordered(S)[i] = Ordered(S)[j] => i = j
           /\ \A l \in S : \E i \in 1..Cardinality(S) : Ordered(S)[i] = l
<1> DEFINE Below(l) == {m \in S : m <= l}
           n == Cardinality(S)
           rank == [l \in S |-> Cardinality(Below(l))]
<1>1. n \in Nat
  BY FS_CardinalityType
<1>2. \A l \in S : IsFiniteSet(Below(l)) /\ Cardinality(Below(l)) \in 1..n
  <2> SUFFICES ASSUME NEW l \in S
               PROVE  IsFiniteSet(Below(l)) /\ Cardinality(Below(l)) \in 1..n
    OBVIOUS
  <2>1. IsFiniteSet(Below(l)) /\ Cardinality(Below(l)) <= n
    BY FS_Subset
  <2>2. l \in Below(l)
    OBVIOUS
  <2>3. Cardinality(Below(l)) \in Nat /\ Cardinality(Below(l)) # 0
    <3> HIDE DEF Below
    <3> QED
      BY <2>1, <2>2, FS_CardinalityType, FS_EmptySet
  <2> QED
    BY <1>1, <2>1, <2>3
<1>3. \A k, l \in S : k < l => Cardinality(Below(k)) # Cardinality(Below(l))
  <2> SUFFICES ASSUME NEW k \in S, NEW l \in S, k < l
               PROVE  Cardinality(Below(k)) # Cardinality(Below(l))
    OBVIOUS
  <2>0. k \in Nat /\ l \in Nat /\ \A m \in S : m \in Nat
    OBVIOUS
  <2>1. Below(k) \in SUBSET Below(l)
    <3>1. \A m \in Nat : m <= k => m <= l
      BY <2>0
    <3> QED
      BY <2>0, <3>1
  <2>2. l \in Below(l) /\ l \notin Below(k)
    BY <2>0
  <2>3. IsFiniteSet(Below(l))
    BY <1>2
  <2> HIDE DEF Below
  <2> QED
    BY <2>1, <2>2, <2>3, FS_Subset
<1>4. \A k, l \in S : rank[k] = rank[l] => k = l
  <2> SUFFICES ASSUME NEW k \in S, NEW l \in S, Cardinality(Below(k)) = Cardinality(Below(l))
               PROVE  k = l
    OBVIOUS
  <2>1. k \in Nat /\ l \in Nat
    OBVIOUS
  <2> HIDE DEF Below
  <2> QED
    BY <1>3, <2>1
<1>5. rank \in Injection(S, 1..n)
  <2>1. rank \in [S -> 1..n]
    BY <1>2
  <2>2. ASSUME NEW T, NEW f \in [S -> T], \A k, l \in S : f[k] = f[l] => k = l
        PROVE  f \in Injection(S, T)
    BY <2>2 DEF Injection, IsInjective
  <2> HIDE DEF rank, n
  <2> QED
    BY <1>4, <2>1, <2>2
<1>6. IsFiniteSet(1..n) /\ Cardinality(1..n) = n
  BY <1>1, FS_Interval
<1>7. rank \in Surjection(S, 1..n)
  <2> DEFINE T == 1..n
  <2>1. rank \in Injection(S, T) /\ IsFiniteSet(T) /\ Cardinality(S) = Cardinality(T)
    BY <1>5, <1>6
  <2> HIDE DEF rank, n, T
  <2>2. rank \in Surjection(S, T)
    BY <2>1, FS_Injection
  <2> QED
    BY <2>2 DEF T
<1>8. \A i \in 1..n : \E l \in S : Cardinality(Below(l)) = i
  BY <1>7 DEF Surjection
<1>9. \A i \in 1..n : Ordered(S)[i] \in S /\ Cardinality(Below(Ordered(S)[i])) = i
  <2> SUFFICES ASSUME NEW i \in 1..n
               PROVE  Ordered(S)[i] \in S /\ Cardinality(Below(Ordered(S)[i])) = i
    OBVIOUS
  <2>1. Ordered(S)[i] = CHOOSE l \in S : Cardinality(Below(l)) = i
    BY DEF Ordered
  <2>2. \E l \in S : Cardinality(Below(l)) = i
    BY <1>8
  <2> HIDE DEF Below, n
  <2> QED
    BY <2>1, <2>2
<1>10. Ordered(S) \in Seq(S) /\ Len(Ordered(S)) = n
  <2> DEFINE s == [i \in 1..n |-> CHOOSE l \in S : Cardinality(Below(l)) = i]
  <2>1. Ordered(S) = s
    BY DEF Ordered
  <2>2. \A i \in 1..n : s[i] \in S
    BY <1>9, <2>1
  <2>3. s = [i \in 1..n |-> s[i]]
    OBVIOUS
  <2> HIDE DEF n, s
  <2> QED
    BY <1>1, <2>1, <2>2, <2>3
<1>11. \A l \in S : \E i \in 1..n : Ordered(S)[i] = l
  <2> SUFFICES ASSUME NEW l \in S PROVE \E i \in 1..n : Ordered(S)[i] = l
    OBVIOUS
  <2>1. PICK i \in 1..n : i = Cardinality(Below(l))
    BY <1>2
  <2>2. Ordered(S)[i] \in S /\ rank[Ordered(S)[i]] = rank[l]
    BY <1>9, <2>1
  <2> HIDE DEF rank
  <2> QED
    BY <1>4, <2>2
<1> HIDE DEF rank
<1> QED
  BY <1>9, <1>10, <1>11

\* The page of a run.
LEMMA PageOfRun ==
    ASSUME TrackingInv, command.pc # "idle"
    PROVE  /\ Before \in Nat /\ Len(command.list) \in Nat /\ PageEnd \in Nat
           /\ Before < PageEnd /\ PageEnd <= Len(command.list)
           /\ Len(EventsOfPage(command.page)) = PageEnd - Before
           /\ \A i \in 1..(PageEnd - Before) :
                 EventsOfPage(command.page)[i] = command.list[Before + i]
<1>1. command.page \in Nat \ {0} /\ command.list \in Seq(TLicenses) /\ Before < Len(command.list)
  BY DEF TrackingInv, RunSound, CommandRow
<1>2. EventPage \in Nat \ {0} /\ Len(command.list) \in Nat
  BY <1>1, TrackingAssumption
<1>3. Before \in Nat /\ command.page * EventPage = Before + EventPage
  <2>1. \A p \in Nat \ {0}, e \in Nat : (p - 1) * e \in Nat /\ p * e = (p - 1) * e + e
    OBVIOUS
  <2> QED
    BY <1>1, <1>2, <2>1 DEF Before
<1>4. Before < PageEnd /\ PageEnd <= Len(command.list) /\ PageEnd \in Nat
  BY <1>1, <1>2, <1>3 DEF PageEnd
<1>5. EventsOfPage(command.page) = SubSeq(command.list, Before + 1, PageEnd)
  BY DEF EventsOfPage, Slice, Before, PageEnd
<1> HIDE DEF Before
<1>6. \A i \in (Before + 1)..PageEnd : command.list[i] \in TLicenses
  BY <1>1, <1>3, <1>4
<1>7. /\ Len(SubSeq(command.list, Before + 1, PageEnd)) =
            (IF Before + 1 <= PageEnd THEN PageEnd - (Before + 1) + 1 ELSE 0)
      /\ \A i \in 1..(PageEnd - (Before + 1) + 1) :
            SubSeq(command.list, Before + 1, PageEnd)[i] = command.list[(Before + 1) + i - 1]
  BY <1>3, <1>4, <1>6, SubSeqProperties
<1> QED
  BY <1>1, <1>2, <1>3, <1>4, <1>5, <1>7

\* A run with one field changed.
LEMMA RunAtPc ==
    ASSUME NEW r \in CommandRow
    PROVE  \A v \in CommandPcs : LET s == [r EXCEPT !.pc = v] IN
              /\ s \in CommandRow /\ s.pc = v /\ s.dry = r.dry /\ s.list = r.list
              /\ s.due = r.due /\ s.page = r.page /\ s.at = r.at
BY DEF CommandRow

LEMMA RunDry ==
    ASSUME NEW r \in CommandRow
    PROVE  \A v \in BOOLEAN : LET s == [r EXCEPT !.dry = v] IN
              /\ s \in CommandRow /\ s.pc = r.pc /\ s.dry = v /\ s.list = r.list
              /\ s.due = r.due /\ s.page = r.page /\ s.at = r.at
BY DEF CommandRow

LEMMA RunDue ==
    ASSUME NEW r \in CommandRow
    PROVE  \A v \in SUBSET TLicenses : LET s == [r EXCEPT !.due = v] IN
              /\ s \in CommandRow /\ s.pc = r.pc /\ s.dry = r.dry /\ s.list = r.list
              /\ s.due = v /\ s.page = r.page /\ s.at = r.at
BY DEF CommandRow

LEMMA RunList ==
    ASSUME NEW r \in CommandRow
    PROVE  \A v \in Seq(TLicenses) : LET s == [r EXCEPT !.list = v] IN
              /\ s \in CommandRow /\ s.pc = r.pc /\ s.dry = r.dry /\ s.list = v
              /\ s.due = r.due /\ s.page = r.page /\ s.at = r.at
BY DEF CommandRow

LEMMA RunAtPage ==
    ASSUME NEW r \in CommandRow
    PROVE  \A v \in Nat : LET s == [r EXCEPT !.page = v] IN
              /\ s \in CommandRow /\ s.pc = r.pc /\ s.dry = r.dry /\ s.list = r.list
              /\ s.due = r.due /\ s.page = v /\ s.at = r.at
BY DEF CommandRow

LEMMA RunAt ==
    ASSUME NEW r \in CommandRow
    PROVE  \A v \in Nat : LET s == [r EXCEPT !.at = v] IN
              /\ s \in CommandRow /\ s.pc = r.pc /\ s.dry = r.dry /\ s.list = r.list
              /\ s.due = r.due /\ s.page = r.page /\ s.at = v
BY DEF CommandRow

LEMMA NoRun == NoCommand \in CommandRow /\ NoCommand.pc = "idle" /\ NoCommand.page = 1 /\ NoCommand.at = 1
<1>1. <<>> \in Seq(TLicenses)
  OBVIOUS
<1> QED
  BY <1>1 DEF NoCommand, CommandRow, CommandPcs

LEMMA TrackingStart == TrackingInit => TrackingInv
<1> SUFFICES ASSUME TrackingInit PROVE TrackingInv
  OBVIOUS
<1>1. tracked \in [TLicenses -> TrackedRow]
  BY DEF TrackingInit, TrackedRow, NewRow
<1> QED
  BY <1>1, NoRun DEF TrackingInit, TrackingInv, HalfYearOnce

\* What changes the licenses leaves the run alone.
LEMMA OthersKeep ==
    ASSUME TrackingInv, UNCHANGED <<events, segment, unheard, command, deaths>>,
           tracked' \in [TLicenses -> TrackedRow], tops' \in Nat
    PROVE  TrackingInv'
<1>1. command \in CommandRow
  BY DEF TrackingInv
<1>2. \A i \in Position : command.list[i] \in TLicenses
  BY <1>1 DEF CommandRow, Position
<1>3. RunSound => RunSound'
  BY <1>2 DEF RunSound, Called, Before, PageEnd, Coming, Position
<1> QED
  BY <1>3 DEF TrackingInv, HalfYearOnce, ToldNow, Position, Coming, Before

LEMMA CommandStartKeeps ==
    ASSUME TrackingInv, NEW dry \in BOOLEAN, CommandStart(dry)
    PROVE  TrackingInv'
<1> DEFINE a == [NoCommand EXCEPT !.pc = "send"]
           b == [a EXCEPT !.dry = dry]
           c == [b EXCEPT !.due = DueLicenses]
           d == [c EXCEPT !.list = Ordered(DueLicenses)]
           n == Len(Ordered(DueLicenses))
<1>0. DueLicenses \in SUBSET TLicenses /\ DueLicenses # {} /\ DueLicenses \cap events = {}
  BY DEF CommandStart, DueLicenses
<1>1. DueLicenses \in SUBSET Nat /\ IsFiniteSet(DueLicenses)
  BY <1>0, TrackingAssumption, FS_Subset
<1>2. /\ Ordered(DueLicenses) \in Seq(DueLicenses) /\ n \in Nat /\ n = Cardinality(DueLicenses)
      /\ \A i, j \in 1..n : Ordered(DueLicenses)[i] = Ordered(DueLicenses)[j] => i = j
      /\ \A l \in DueLicenses : \E i \in 1..n : Ordered(DueLicenses)[i] = l
  BY <1>1, OrderedOnce
<1>3. n > 0
  BY <1>0, <1>2
<1>4. \A i \in 1..n : Ordered(DueLicenses)[i] \in DueLicenses
  BY <1>2
<1>5. Ordered(DueLicenses) \in Seq(TLicenses)
  BY <1>0, <1>2
<1>6. command' = d /\ UNCHANGED <<tracked, events, segment, unheard, deaths, tops>> /\ command.pc = "idle"
  BY DEF CommandStart
<1> HIDE DEF a
<1>7. a \in CommandRow /\ a.pc = "send" /\ a.page = 1 /\ a.at = 1
  BY NoRun, RunAtPc DEF CommandPcs, a
<1> HIDE DEF b
<1>8. b \in CommandRow /\ b.pc = "send" /\ b.page = 1 /\ b.at = 1
  BY <1>7, RunDry DEF b
<1> HIDE DEF c
<1>9. c \in CommandRow /\ c.pc = "send" /\ c.page = 1 /\ c.at = 1 /\ c.due = DueLicenses
  BY <1>0, <1>8, RunDue DEF c
<1>10. /\ d \in CommandRow /\ d.pc = "send" /\ d.page = 1 /\ d.at = 1 /\ d.due = DueLicenses
       /\ d.list = Ordered(DueLicenses)
  BY <1>5, <1>9, RunList
<1> HIDE DEF d
<1>11. /\ command' \in CommandRow /\ command'.pc = "send" /\ command'.page = 1 /\ command'.at = 1
       /\ command'.due = DueLicenses /\ command'.list = Ordered(DueLicenses)
  BY <1>6, <1>10
<1>12. Before' = 0 /\ Coming' = 1 /\ Len(command'.list) = n /\ Position' = 1..n
  BY <1>11, TrackingAssumption DEF Before, Coming, Position
<1>13. PageEnd' \in Nat /\ PageEnd' > 0
  BY <1>2, <1>3, <1>11, TrackingAssumption DEF PageEnd
<1> HIDE DEF n
<1>14. RunSound'
  <2>1. \A i \in 1..n : i > 0 /\ ~(i <= 0) /\ ~(i < 1)
    BY <1>2
  <2>2. \A i \in Position' : command'.list[i] \notin events'
    BY <1>0, <1>4, <1>6, <1>11, <1>12
  <2>3. \A i \in Position' : ~(i <= Before') /\ ~(i < Coming')
    BY <1>12, <2>1
  <2>4. \A i, j \in Position' : command'.list[i] = command'.list[j] => i = j
    BY <1>2, <1>11, <1>12
  <2>5. \A l \in command'.due : \E i \in Position' : command'.list[i] = l
    BY <1>2, <1>11, <1>12
  <2>6. Before' < Len(command'.list) /\ Coming' <= PageEnd' + 1
    <3>1. 0 < n
      BY <1>2, <1>3
    <3>2. \A e \in Nat : e > 0 => 1 <= e + 1
      OBVIOUS
    <3>3. Coming' <= PageEnd' + 1
      BY <1>12, <1>13, <3>2
    <3>4. Before' < Len(command'.list)
      BY <1>12, <3>1
    <3> QED
      BY <3>3, <3>4
  <2> QED
    BY <1>11, <2>2, <2>3, <2>4, <2>5, <2>6 DEF RunSound
<1>15. \A l \in TLicenses : l \notin events' => segment'[l] <= deaths'
  BY <1>6 DEF TrackingInv, ToldNow
<1> QED
  BY <1>6, <1>11, <1>14, <1>15 DEF TrackingInv, HalfYearOnce

LEMMA CommandEventKeeps ==
    ASSUME TrackingInv, CommandEvent
    PROVE  TrackingInv'
<1> DEFINE page == EventsOfPage(command.page)
           a == [command EXCEPT !.at = command.at + 1]
           b == [command EXCEPT !.pc = "record"]
           l == command.list[Coming]
           CalledNow(k) == segment'[k] > 0 \/ k \in unheard'
<1>0. /\ command.pc = "send" /\ command \in CommandRow /\ RunSound
      /\ UNCHANGED <<tracked, events, deaths, tops>>
  BY DEF TrackingInv, CommandEvent
<1>1. /\ Before \in Nat /\ Len(command.list) \in Nat /\ PageEnd \in Nat
      /\ Before < PageEnd /\ PageEnd <= Len(command.list)
      /\ Len(page) = PageEnd - Before
      /\ \A i \in 1..(PageEnd - Before) : page[i] = command.list[Before + i]
  BY <1>0, PageOfRun
<1>2. command.at \in Nat \ {0} /\ Coming \in Nat /\ Coming <= PageEnd + 1
  BY <1>0, <1>1 DEF RunSound, Coming
<1>3. ASSUME command.at <= Len(page)
      PROVE  TrackingInv'
  <2>1. page[command.at] = l /\ Coming \in Position /\ Coming <= PageEnd /\ Before < Coming
    <3> HIDE DEF page
    <3>1. command.at \in 1..(PageEnd - Before)
      BY <1>1, <1>2, <1>3
    <3>2. Coming = Before + command.at
      BY DEF Coming
    <3>3. Coming \in Position /\ Coming <= PageEnd /\ Before < Coming
      BY <1>1, <3>1, <3>2 DEF Position
    <3> QED
      BY <1>1, <3>1, <3>2, <3>3
  <2>2. l \in TLicenses /\ l \notin events
    BY <1>0, <2>1 DEF RunSound, CommandRow, Position
  <2>3. /\ command' = a
        /\ command.dry => UNCHANGED <<segment, unheard>>
        /\ ~command.dry =>
             \/ segment' = [segment EXCEPT ![l] = segment[l] + 1] /\ unheard' = unheard
             \/ segment' = segment /\ unheard' = unheard \union {l}
    BY <1>3, <2>1 DEF CommandEvent, TrackEvent
  <2> HIDE DEF l, page
  <2>4. command.at + 1 \in Nat
    BY <1>2
  <2>5. /\ a \in CommandRow /\ a.pc = "send" /\ a.dry = command.dry /\ a.list = command.list
        /\ a.due = command.due /\ a.page = command.page /\ a.at = command.at + 1
    BY <1>0, <2>4, RunAt
  <2> HIDE DEF a
  <2>6. /\ Before' = Before /\ Coming' = Coming + 1 /\ PageEnd' = PageEnd /\ Position' = Position
        /\ Position \in SUBSET Nat
    BY <1>1, <1>2, <2>3, <2>5 DEF Before, Coming, PageEnd, Position
  <2>7. /\ segment \in [TLicenses -> Nat] /\ segment' \in [TLicenses -> Nat]
        /\ unheard' \in SUBSET TLicenses
        /\ \A k \in TLicenses : segment'[k] = segment[k] \/ (k = l /\ segment'[k] = segment[k] + 1 /\ ~command.dry)
        /\ ~command.dry => CalledNow(l)
        /\ \A k \in TLicenses : Called(k) => CalledNow(k)
    <3>1. segment \in [TLicenses -> Nat] /\ unheard \in SUBSET TLicenses
      BY DEF TrackingInv
    <3>2. CASE command.dry
      BY <2>3, <3>1, <3>2 DEF Called
    <3>3. CASE ~command.dry /\ segment' = [segment EXCEPT ![l] = segment[l] + 1] /\ unheard' = unheard
      BY <2>2, <3>1, <3>3 DEF Called
    <3>4. CASE ~command.dry /\ segment' = segment /\ unheard' = unheard \union {l}
      BY <2>2, <3>1, <3>4 DEF Called
    <3> QED
      BY <2>3, <3>2, <3>3, <3>4
  <2>8. \A i \in Position : i < Coming + 1 => i < Coming \/ i = Coming
    BY <1>2, <2>6
  <2>9. \A i \in Position : command.list[i] \in TLicenses
    BY <1>0 DEF Position, CommandRow
  <2>10. RunSound'
    <3>1. Coming' <= PageEnd' + 1
      BY <1>1, <1>2, <2>1, <2>6
    <3>2. ~command.dry => \A i \in Position : i < Coming + 1 => CalledNow(command.list[i])
      BY <1>0, <2>7, <2>8, <2>9 DEF RunSound, l
    <3>3. command'.list = command.list /\ command'.due = command.due /\ command'.dry = command.dry
          /\ command'.page = command.page /\ command'.at \in Nat \ {0} /\ command'.pc = "send"
      BY <1>2, <2>3, <2>5
    <3>4. /\ command.page \in Nat \ {0} /\ Before < Len(command.list)
          /\ \A i, j \in Position : command.list[i] = command.list[j] => i = j
          /\ \A k \in command.due : \E i \in Position : command.list[i] = k
          /\ \A i \in Position : i > Before => command.list[i] \notin events
      BY <1>0 DEF RunSound
    <3>5. ~command.dry => \A i \in Position : i <= Before => command.list[i] \in events
      BY <1>0 DEF RunSound
    <3>6. /\ command'.page \in Nat \ {0} /\ Before' < Len(command'.list)
          /\ \A i, j \in Position' : command'.list[i] = command'.list[j] => i = j
          /\ \A k \in command'.due : \E i \in Position' : command'.list[i] = k
          /\ \A i \in Position' : i > Before' => command'.list[i] \notin events'
      BY <1>0, <2>6, <3>3, <3>4
    <3>7. ~command'.dry => \A i \in Position' :
             /\ i <= Before' => command'.list[i] \in events'
             /\ i < Coming' => CalledNow(command'.list[i])
      BY <1>0, <2>6, <3>2, <3>3, <3>5
    <3>8. command'.pc = "record" => Coming' = PageEnd' + 1
      BY <3>3
    <3> QED
      BY <3>1, <3>3, <3>6, <3>7, <3>8 DEF RunSound, Called
  <2>11. ASSUME NEW k \in TLicenses
         PROVE  /\ segment'[k] <= 1 + deaths
                /\ k \notin events => segment'[k] <= deaths \/ ToldNow(k)'
    <3>0. segment[k] \in Nat /\ deaths \in Nat /\ segment[k] <= 1 + deaths
      BY DEF TrackingInv, HalfYearOnce
    <3>1. CASE k = l /\ segment'[k] = segment[k] + 1 /\ ~command.dry
      <4>1. ~ToldNow(l)
        BY <1>0, <1>2, <2>1, <2>6 DEF ToldNow, RunSound, l
      <4>2. segment[k] <= deaths
        BY <2>2, <3>1, <4>1 DEF TrackingInv
      <4>3. ToldNow(k)'
        BY <1>2, <2>1, <2>3, <2>5, <2>6, <3>1 DEF ToldNow, l
      <4> QED
        BY <3>0, <3>1, <4>2, <4>3
    <3>2. CASE segment'[k] = segment[k]
      <4>1. ToldNow(k) => ToldNow(k)'
        BY <1>2, <2>3, <2>5, <2>6 DEF ToldNow
      <4> QED
        BY <3>0, <3>2, <4>1 DEF TrackingInv
    <3> QED
      BY <2>7, <3>1, <3>2
  <2> QED
    BY <1>0, <2>3, <2>5, <2>7, <2>10, <2>11 DEF TrackingInv, HalfYearOnce
<1>4. ASSUME ~(command.at <= Len(page))
      PROVE  TrackingInv'
  <2>1. command' = b /\ segment' = segment /\ unheard' = unheard /\ Coming = PageEnd + 1
    BY <1>1, <1>2, <1>4 DEF CommandEvent, Coming
  <2>2. /\ b \in CommandRow /\ b.pc = "record" /\ b.dry = command.dry /\ b.list = command.list
        /\ b.due = command.due /\ b.page = command.page /\ b.at = command.at
    BY <1>0, RunAtPc DEF CommandPcs
  <2> HIDE DEF b, page, l
  <2>3. Before' = Before /\ Coming' = Coming /\ PageEnd' = PageEnd /\ Position' = Position
    BY <2>1, <2>2 DEF Before, Coming, PageEnd, Position
  <2>4. RunSound'
    BY <1>0, <2>1, <2>2, <2>3 DEF RunSound, Called
  <2>5. \A k : ToldNow(k) => ToldNow(k)'
    BY <2>1, <2>2, <2>3 DEF ToldNow
  <2> QED
    BY <1>0, <2>1, <2>2, <2>4, <2>5 DEF TrackingInv, HalfYearOnce
<1> QED
  BY <1>3, <1>4

LEMMA CommandRecordKeeps ==
    ASSUME TrackingInv, CommandRecord
    PROVE  /\ TrackingInv'
           /\ command'.pc = "idle" /\ ~command.dry =>
                \A l \in command.due : l \in events' /\ Called(l)
<1> DEFINE page == EventsOfPage(command.page)
           ended == [command EXCEPT !.pc = "idle"]
           a == [command EXCEPT !.pc = "send"]
           b == [a EXCEPT !.page = command.page + 1]
           c == [b EXCEPT !.at = 1]
<1>0. /\ command.pc = "record" /\ command \in CommandRow /\ RunSound
      /\ UNCHANGED <<tracked, segment, unheard, deaths, tops>>
  BY DEF TrackingInv, CommandRecord
<1>1. /\ Before \in Nat /\ Len(command.list) \in Nat /\ PageEnd \in Nat
      /\ Before < PageEnd /\ PageEnd <= Len(command.list)
      /\ Len(page) = PageEnd - Before
      /\ \A i \in 1..(PageEnd - Before) : page[i] = command.list[Before + i]
  BY <1>0, PageOfRun
<1>2. Coming = PageEnd + 1 /\ command.page \in Nat \ {0} /\ Position = 1..Len(command.list)
  BY <1>0 DEF RunSound, Position
<1>3. {page[i] : i \in DOMAIN page} = {command.list[i] : i \in {j \in Position : Before < j /\ j <= PageEnd}}
  <2>1. DOMAIN page = 1..(PageEnd - Before)
    <3>1. page = SubSeq(command.list, (command.page - 1) * EventPage + 1,
                        IF command.page * EventPage < Len(command.list)
                        THEN command.page * EventPage ELSE Len(command.list))
      BY DEF EventsOfPage, Slice
    <3>2. page \in Seq(TLicenses)
      <4>1. page = SubSeq(command.list, Before + 1, PageEnd)
        BY <3>1 DEF Before, PageEnd
      <4>2. \A i \in (Before + 1)..PageEnd : command.list[i] \in TLicenses
        BY <1>0, <1>1 DEF CommandRow
      <4> HIDE DEF page
      <4> QED
        BY <1>1, <4>1, <4>2, SubSeqProperties
    <3> HIDE DEF page
    <3> QED
      BY <1>1, <3>2
  <2>2. \A j \in Position : Before < j /\ j <= PageEnd => j - Before \in 1..(PageEnd - Before)
                                                    /\ Before + (j - Before) = j
    BY <1>1, <1>2
  <2>3. \A i \in 1..(PageEnd - Before) : /\ Before + i \in Position
                                         /\ Before < Before + i /\ Before + i <= PageEnd
    BY <1>1, <1>2
  <2> HIDE DEF page
  <2>4. \A i \in 1..(PageEnd - Before) : page[i] = command.list[Before + i]
    BY <1>1
  <2>5. {page[i] : i \in DOMAIN page} = {command.list[Before + i] : i \in 1..(PageEnd - Before)}
    BY <2>1, <2>4
  <2>6. ASSUME NEW j \in Position, Before < j, j <= PageEnd
        PROVE  \E i \in 1..(PageEnd - Before) : command.list[Before + i] = command.list[j]
    BY <2>2, <2>6
  <2> QED
    BY <2>3, <2>5, <2>6
<1> DEFINE recording == {command.list[i] : i \in {j \in Position : Before < j /\ j <= PageEnd}}
<1>4. events' = IF command.dry THEN events ELSE events \union recording
  BY <1>3 DEF CommandRecord
<1>5. recording \in SUBSET TLicenses /\ \A i \in Position : command.list[i] \in TLicenses
  BY <1>0, <1>2 DEF CommandRow
<1>6. \A i \in Position : command.list[i] \in recording <=> Before < i /\ i <= PageEnd
  <2>1. ASSUME NEW i \in Position, command.list[i] \in recording
        PROVE  Before < i /\ i <= PageEnd
    <3>1. PICK j \in Position : command.list[i] = command.list[j] /\ Before < j /\ j <= PageEnd
      BY <2>1
    <3>2. i = j
      BY <1>0, <3>1 DEF RunSound
    <3> QED
      BY <3>1, <3>2
  <2> QED
    BY <2>1
<1>7. command.page * EventPage \in Nat /\ (command.page + 1 - 1) * EventPage = command.page * EventPage
  <2>1. \A p, e \in Nat : p * e \in Nat /\ p + 1 - 1 = p
    OBVIOUS
  <2> QED
    BY <1>2, <2>1, TrackingAssumption
<1> HIDE DEF recording, page
<1>8. ~command.dry => \A i \in Position : i <= PageEnd =>
         /\ command.list[i] \in events'
         /\ Called(command.list[i])
  <2> SUFFICES ASSUME ~command.dry, NEW i \in Position, i <= PageEnd
               PROVE  /\ command.list[i] \in events'
                      /\ Called(command.list[i])
    OBVIOUS
  <2>1. i \in Nat /\ i < Coming
    BY <1>1, <1>2
  <2>2. i <= Before => command.list[i] \in events
    BY <1>0 DEF RunSound
  <2>3. Before < i => command.list[i] \in recording
    BY <1>6
  <2> QED
    BY <1>0, <1>1, <1>4, <2>1, <2>2, <2>3 DEF RunSound
<1>9. \A l \in TLicenses : l \notin events' => segment[l] <= deaths
  <2> SUFFICES ASSUME NEW l \in TLicenses, l \notin events'
               PROVE  segment[l] <= deaths
    OBVIOUS
  <2>1. l \notin events
    BY <1>4
  <2>2. ASSUME ~command.dry, NEW i \in Position, command.list[i] = l, i < Coming
        PROVE  FALSE
    <3>1. i <= PageEnd
      BY <1>1, <1>2, <2>2
    <3> QED
      BY <1>8, <2>2, <3>1
  <2>3. ~ToldNow(l)
    BY <2>2 DEF ToldNow
  <2> QED
    BY <2>1, <2>3 DEF TrackingInv
<1>10. ASSUME command.page * EventPage < Len(command.list)
       PROVE  TrackingInv' /\ command'.pc # "idle"
  <2>1. command' = c /\ PageEnd = command.page * EventPage
    BY <1>10 DEF CommandRecord, PageEnd
  <2>2. a \in CommandRow /\ a.pc = "send" /\ a.dry = command.dry /\ a.list = command.list
        /\ a.due = command.due
    BY <1>0, RunAtPc DEF CommandPcs
  <2> HIDE DEF a
  <2>3. command.page + 1 \in Nat
    BY <1>2
  <2>4. b \in CommandRow /\ b.pc = "send" /\ b.dry = command.dry /\ b.list = command.list
        /\ b.due = command.due /\ b.page = command.page + 1
    BY <2>2, <2>3, RunAtPage
  <2> HIDE DEF b
  <2>5. c \in CommandRow /\ c.pc = "send" /\ c.dry = command.dry /\ c.list = command.list
        /\ c.due = command.due /\ c.page = command.page + 1 /\ c.at = 1
    BY <2>4, RunAt
  <2> HIDE DEF c
  <2>6. /\ command' \in CommandRow /\ command'.pc = "send" /\ command'.dry = command.dry
        /\ command'.list = command.list /\ command'.due = command.due
        /\ command'.page = command.page + 1 /\ command'.at = 1
    BY <2>1, <2>5
  <2>7. Before' = PageEnd /\ Coming' = PageEnd + 1 /\ Position' = Position
    <3>1. command'.page = command.page + 1 /\ command.page \in Nat /\ EventPage \in Nat
      BY <1>2, <2>6, TrackingAssumption
    <3>2. \A p, q, e \in Nat : q = p + 1 => (q - 1) * e = p * e
      OBVIOUS
    <3>3. Before' = PageEnd
      <4>1. command'.page \in Nat
        BY <3>1
      <4>2. (command'.page - 1) * EventPage = command.page * EventPage
        BY <3>1, <3>2, <4>1
      <4> QED
        BY <2>1, <4>2 DEF Before
    <3>4. Coming' = PageEnd + 1
      BY <2>6, <3>3 DEF Coming
    <3> QED
      BY <2>6, <3>3, <3>4 DEF Position
  <2>8. PageEnd + 1 <= PageEnd' + 1 /\ PageEnd < Len(command.list)
    <3>1. (command.page + 1) * EventPage = PageEnd + EventPage
      <4>1. \A p, e \in Nat : (p + 1) * e = p * e + e
        OBVIOUS
      <4> QED
        BY <1>2, <2>1, <4>1, TrackingAssumption
    <3>2. PageEnd' = IF PageEnd + EventPage < Len(command.list) THEN PageEnd + EventPage
                     ELSE Len(command.list)
      BY <2>6, <3>1 DEF PageEnd
    <3> QED
      BY <1>1, <1>10, <2>1, <3>2, TrackingAssumption
  <2>9. RunSound'
    <3>1. \A i \in Position : i \in Nat /\ (i < PageEnd + 1 <=> i <= PageEnd) /\ (i > PageEnd <=> ~(i <= PageEnd))
                              /\ (i > PageEnd => i > Before)
      BY <1>1, <1>2
    <3>2. \A i \in Position : i > PageEnd => command.list[i] \notin events'
      BY <1>0, <1>4, <1>6, <3>1 DEF RunSound
    <3>3. command'.page \in Nat \ {0} /\ command'.at \in Nat \ {0}
      BY <1>2, <2>6
    <3>4. \A i, j \in Position : command.list[i] = command.list[j] => i = j
      BY <1>0 DEF RunSound
    <3>5. \A l \in command.due : \E i \in Position : command.list[i] = l
      BY <1>0 DEF RunSound
    <3> QED
      BY <1>0, <1>8, <2>6, <2>7, <2>8, <3>1, <3>2, <3>3, <3>4, <3>5 DEF RunSound, Called
  <2>10. events' \in SUBSET TLicenses
    BY <1>4, <1>5 DEF TrackingInv
  <2> QED
    BY <1>0, <1>9, <2>6, <2>9, <2>10 DEF TrackingInv, HalfYearOnce
<1>11. ASSUME ~(command.page * EventPage < Len(command.list))
       PROVE  /\ TrackingInv'
              /\ ~command.dry => \A l \in command.due : l \in events' /\ Called(l)
  <2>1. command' = ended /\ PageEnd = Len(command.list)
    BY <1>11 DEF CommandRecord, PageEnd
  <2>2. ended \in CommandRow /\ ended.pc = "idle"
    BY <1>0, RunAtPc DEF CommandPcs
  <2> HIDE DEF ended
  <2>3. events' \in SUBSET TLicenses
    BY <1>4, <1>5 DEF TrackingInv
  <2>4. TrackingInv'
    BY <1>0, <1>9, <2>1, <2>2, <2>3 DEF TrackingInv, HalfYearOnce
  <2>5. \A i \in Position : i <= PageEnd
    BY <1>1, <1>2, <2>1
  <2>6. \A l \in command.due : \E i \in Position : command.list[i] = l
    BY <1>0 DEF RunSound
  <2> QED
    BY <1>8, <2>4, <2>5, <2>6
<1> QED
  BY <1>10, <1>11

LEMMA CommandDiesKeeps ==
    ASSUME TrackingInv, CommandDies
    PROVE  TrackingInv'
<1>1. /\ command' = NoCommand /\ deaths' = deaths + 1 /\ UNCHANGED <<tracked, events, segment, unheard, tops>>
  BY DEF CommandDies
<1>2. deaths \in Nat /\ \A l \in TLicenses : segment[l] \in Nat /\ segment[l] <= 1 + deaths
  BY DEF TrackingInv, HalfYearOnce
<1>3. \A l \in TLicenses : segment'[l] <= deaths' /\ segment'[l] <= 1 + deaths'
  BY <1>1, <1>2
<1> QED
  BY <1>1, <1>2, <1>3, NoRun DEF TrackingInv, HalfYearOnce

LEMMA TrackingStep ==
    ASSUME TrackingInv, [HalfYearNext \/ BatchNext]_trackingVars
    PROVE  TrackingInv'
<1>0. tracked \in [TLicenses -> TrackedRow] /\ tops \in Nat
  BY DEF TrackingInv
<1>1. CASE UNCHANGED trackingVars
  BY <1>0, <1>1, OthersKeep DEF trackingVars
<1>2. ASSUME NEW l \in TLicenses, HalfYear(l) \/ NoLongerActive(l)
      PROVE  TrackingInv'
  <2>1. \A r \in TrackedRow, v \in BOOLEAN : [r EXCEPT !.due = v] \in TrackedRow
    BY DEF TrackedRow
  <2>2. PICK v \in BOOLEAN : tracked' = [tracked EXCEPT ![l] = [tracked[l] EXCEPT !.due = v]]
    BY <1>0, <1>2 DEF HalfYear, NoLongerActive
  <2>3. tracked' \in [TLicenses -> TrackedRow]
    BY <1>0, <2>1, <2>2
  <2> QED
    BY <1>0, <1>2, <2>3, OthersKeep DEF HalfYear, NoLongerActive, TrackingOp
<1>3. \A r \in TrackedRow, v \in Nat : [r EXCEPT !.learner = v] \in TrackedRow
  BY DEF TrackedRow
<1>4. ASSUME NEW S \in SUBSET TLicenses, AssignBatch(S)
      PROVE  TrackingInv'
  <2>1. tops' \in Nat
    BY <1>0, <1>4 DEF AssignBatch, TrackingOp
  <2>2. tracked' \in [TLicenses -> TrackedRow]
    BY <1>0, <1>3, <1>4, <2>1 DEF AssignBatch
  <2> QED
    BY <1>4, <2>1, <2>2, OthersKeep DEF AssignBatch
<1>5. ASSUME NEW l \in TLicenses, Unassigned(l)
      PROVE  TrackingInv'
  <2>1. tracked' = [tracked EXCEPT ![l] = [tracked[l] EXCEPT !.learner = 0]]
    BY <1>0, <1>5 DEF Unassigned
  <2>2. tracked' \in [TLicenses -> TrackedRow]
    BY <1>0, <1>3, <2>1
  <2> QED
    BY <1>0, <1>5, <2>2, OthersKeep DEF Unassigned, TrackingOp
<1>6. ASSUME NEW b \in batches, BatchRead(b) \/ BatchSend(b) \/ BatchRetried(b) \/ BatchRefused(b)
      PROVE  TrackingInv'
  BY <1>0, <1>6, OthersKeep DEF BatchRead, BatchSend, BatchRetried, BatchRefused
<1> QED
  BY <1>1, <1>2, <1>4, <1>5, <1>6, CommandStartKeeps, CommandEventKeeps, CommandRecordKeeps,
     CommandDiesKeeps
  DEF HalfYearNext, BatchNext

\* What is recorded stays recorded, and is not told again.
LEMMA RecordedKept ==
    ASSUME TrackingInv, HalfYearNext \/ BatchNext, NEW l \in events
    PROVE  /\ l \in events' /\ segment'[l] = segment[l]
           /\ l \in unheard' <=> l \in unheard
<1>0. segment \in [TLicenses -> Nat]
  BY DEF TrackingInv
<1>1. CASE CommandEvent
  <2> DEFINE page == EventsOfPage(command.page)
  <2>1. command \in CommandRow /\ RunSound /\ events' = events
    BY <1>1 DEF TrackingInv, CommandEvent
  <2>2. /\ Before \in Nat /\ Len(command.list) \in Nat /\ PageEnd \in Nat
        /\ Before < PageEnd /\ PageEnd <= Len(command.list)
        /\ Len(page) = PageEnd - Before
        /\ \A i \in 1..(PageEnd - Before) : page[i] = command.list[Before + i]
    BY <1>1, PageOfRun DEF CommandEvent
  <2>3. command.at \in Nat \ {0}
    BY <2>1 DEF RunSound
  <2>4. ASSUME command.at <= Len(page)
        PROVE  page[command.at] # l
    <3> HIDE DEF page
    <3>1. command.at \in 1..(PageEnd - Before)
      BY <2>2, <2>3, <2>4
    <3>2. Before + command.at \in Position /\ Before + command.at > Before
      BY <2>2, <3>1 DEF Position
    <3> QED
      BY <2>1, <2>2, <3>1, <3>2 DEF RunSound
  <2>5. \/ segment' = segment /\ unheard' = unheard
        \/ /\ command.at <= Len(page)
           /\ \/ segment' = [segment EXCEPT ![page[command.at]] = segment[page[command.at]] + 1]
                 /\ unheard' = unheard
              \/ segment' = segment /\ unheard' = unheard \union {page[command.at]}
    BY <1>1 DEF CommandEvent, TrackEvent
  <2> HIDE DEF page
  <2>6. l \in TLicenses
    BY DEF TrackingInv
  <2> QED
    BY <1>0, <2>1, <2>4, <2>5, <2>6
<1>2. CASE CommandRecord
  BY <1>2 DEF CommandRecord
<1>3. CASE ~CommandEvent /\ ~CommandRecord
  BY <1>3 DEF HalfYearNext, BatchNext, HalfYear, NoLongerActive, CommandStart, CommandDies,
     AssignBatch, Unassigned, BatchRead, BatchSend, BatchRetried, BatchRefused
<1> QED
  BY <1>1, <1>2, <1>3

(***************************************************************************)
(* For lists and pages of any length: Segment hears of a license at most   *)
(* once, and once more for each run that died; a run that ends has         *)
(* recorded every license that was due when it began and called            *)
(* track_event for it; a recorded license is never told again.             *)
(***************************************************************************)
LEMMA TrackingSafe == TrackingInit /\ [][HalfYearNext \/ BatchNext]_trackingVars => HalfYearTold
<1>1. TrackingInv /\ [HalfYearNext \/ BatchNext]_trackingVars => TrackingInv'
  BY TrackingStep
<1>2. TrackingInv => HalfYearOnce
  BY DEF TrackingInv
<1> DEFINE Told == command.pc = "record" /\ command'.pc = "idle" /\ deaths' = deaths /\ ~command.dry =>
                     \A l \in command.due : l \in events' /\ Called(l)
<1>3. TrackingInv /\ [HalfYearNext \/ BatchNext]_trackingVars => [Told]_trackingVars
  <2> SUFFICES ASSUME TrackingInv, HalfYearNext \/ BatchNext, command.pc = "record",
                      command'.pc = "idle", deaths' = deaths, ~command.dry
               PROVE  \A l \in command.due : l \in events' /\ Called(l)
    OBVIOUS
  <2>1. command' # command
    OBVIOUS
  <2>2. ~CommandDies
    <3>1. deaths \in Nat
      BY DEF TrackingInv
    <3> QED
      BY <3>1 DEF CommandDies
  <2>3. CommandRecord
    BY <2>1, <2>2 DEF HalfYearNext, BatchNext, HalfYear, NoLongerActive, CommandStart, CommandEvent,
       AssignBatch, Unassigned, BatchRead, BatchSend, BatchRetried, BatchRefused
  <2> QED
    BY <2>3, CommandRecordKeeps
<1> DEFINE Kept == \A l \in events : /\ l \in events' /\ segment'[l] = segment[l]
                                    /\ l \in unheard' <=> l \in unheard
<1>4. TrackingInv /\ [HalfYearNext \/ BatchNext]_trackingVars => [Kept]_trackingVars
  BY RecordedKept
<1>5. Told <=> (command.pc = "record" /\ command'.pc = "idle" /\ deaths' = deaths /\ ~command.dry =>
                  \A l \in command.due : l \in events' /\ (segment[l] > 0 \/ l \in unheard))
  BY DEF Called
<1> QED
  BY <1>1, <1>2, <1>3, <1>4, <1>5, TrackingStart, PTL
  DEF HalfYearTold, RunTellsAll, RecordedNeverToldAgain

-----------------------------------------------------------------------------
(***************************************************************************)
(* The parts together: each of them moves or rests.                        *)
(***************************************************************************)
LEMMA PartsStart ==
    ASSUME OutboundInit
    PROVE  /\ RemindersInit /\ UtilizationInit /\ NotificationsInit
           /\ AftermathInit /\ BulkEnrollmentInit /\ TrackingInit
BY DEF OutboundInit

LEMMA PartsRest ==
    ASSUME UNCHANGED outboundVars
    PROVE  /\ UNCHANGED reminderVars /\ UNCHANGED utilizationVars /\ UNCHANGED notificationVars
           /\ UNCHANGED aftermathVars /\ UNCHANGED enrollmentVars /\ UNCHANGED trackingVars
BY DEF outboundVars

LEMMA PartsStep ==
    ASSUME [OutboundNext]_outboundVars
    PROVE  /\ [RemindersNext]_reminderVars /\ [UtilizationNext]_utilizationVars
           /\ [NotificationsNext]_notificationVars /\ [AftermathNext]_aftermathVars
           /\ [BulkEnrollmentNext]_enrollmentVars /\ [HalfYearNext \/ BatchNext]_trackingVars
<1>1. CASE OutboundNext
  BY <1>1 DEF OutboundNext, OthersRest
<1>2. CASE UNCHANGED outboundVars
  BY <1>2, PartsRest
<1> QED
  BY <1>1, <1>2

LEMMA PartsRun ==
    OutboundSpec => /\ RemindersInit /\ [][RemindersNext]_reminderVars
                    /\ UtilizationInit /\ [][UtilizationNext]_utilizationVars
                    /\ NotificationsInit /\ [][NotificationsNext]_notificationVars
                    /\ AftermathInit /\ [][AftermathNext]_aftermathVars
                    /\ BulkEnrollmentInit /\ [][BulkEnrollmentNext]_enrollmentVars
                    /\ TrackingInit /\ [][HalfYearNext \/ BatchNext]_trackingVars
BY PartsStart, PartsStep, PTL DEF OutboundSpec

(***************************************************************************)
(* No learner is mailed twice of one expiration while no answer of Braze   *)
(* and no update after it is lost: the batches of a run are disjoint and a *)
(* license that was mailed is marked before the next run counts.           *)
(***************************************************************************)
THEOREM MailedOnce == OutboundSpec => []NoDuplicateMail
BY PartsRun, RemindersSafe, PTL

(***************************************************************************)
(* A run of the reminders in which nothing failed has told of every        *)
(* license that it counted and that still is due when it ends.             *)
(***************************************************************************)
THEOREM RunsCoverTheirCount == OutboundSpec => RunCoversItsCount
BY PartsRun, RemindersCover, PTL

(***************************************************************************)
(* However the tasks of a request are delayed, retried or lost, nobody is  *)
(* written to without a Braze alias, nobody is invited who is not linked,  *)
(* and last_remind_date means that the reminder was sent.                  *)
(***************************************************************************)
THEOREM MailsKeepOrder == OutboundSpec => []MailsInOrder
BY PartsRun, NotificationsSafe, PTL

(***************************************************************************)
(* A row of the Notification table means an e-mail; while tasks of a plan  *)
(* do not overlap, no lesser alarm follows the last one, and each kind     *)
(* goes out once if no call fails.                                         *)
(***************************************************************************)
THEOREM AlarmsAreSound == OutboundSpec => AlarmsSound
BY PartsRun, UtilizationSafe, PTL

(***************************************************************************)
(* The file of results that a bulk enrollment offers for download answers  *)
(* for every learner in every course that was asked for.                   *)
(***************************************************************************)
THEOREM ResultsAreComplete == OutboundSpec => []ResultsComplete
BY PartsRun, BulkEnrollmentSafe, PTL

(***************************************************************************)
(* A call never writes two rows of the audit trail for one license,        *)
(* however its tasks are retried, and has one for every license that it    *)
(* changed when it is done and nothing failed.                             *)
(***************************************************************************)
THEOREM AuditIsComplete == OutboundSpec => []AuditTrail
BY PartsRun, AftermathSafe, PTL

(***************************************************************************)
(* The half-year command: Segment hears of a license at most once, and     *)
(* once more for every run that died; a run that ends has recorded all     *)
(* that was due when it began, and Segment heard of it or the call was     *)
(* lost; what is recorded is never told again.                             *)
(***************************************************************************)
THEOREM HalfYearIsTold == OutboundSpec => HalfYearTold
BY PartsRun, TrackingSafe, PTL
=============================================================================
