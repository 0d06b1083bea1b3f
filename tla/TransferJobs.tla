---------------------------- MODULE TransferJobs ----------------------------
(***************************************************************************)
(* LicenseTransferJob: an admin moves licenses from one plan of a customer *)
(* to another.  process() moves them in one transaction and saves the      *)
(* job's row, results included, after it: a crash between the two, or two  *)
(* admins who select the same job, are what can go wrong.                  *)
(*                                                                         *)
(* Job "there" moves licenses from plan 1 to plan 2, job "back" the other  *)
(* way.  The chunks of one transaction are one step.                       *)
(***************************************************************************)
EXTENDS Naturals, FiniteSets

CONSTANTS
    Movables,          \* licenses
    Admins,            \* admins who run process_transfer_jobs at the same time
    MaxEdits,          \* edits of jobs, and changes of licenses (bound)
    MaxCrashes         \* deaths of a web worker (bound)

ASSUME TransferAssumption ==
    /\ IsFiniteSet(Movables) /\ IsFiniteSet(Admins)
    /\ {MaxEdits, MaxCrashes} \subseteq Nat

VARIABLES
    home,       \* license -> its plan
    lstatus,    \* license -> status
    tjob,       \* job -> row, or NoTransfer
    run,        \* admin -> the job in memory and how far process() is
    movedBy,    \* job -> the licenses it has moved
    predicted,  \* job -> the selection and the report of a dry run, until a license changes
    edits,      \* edits so far (bounded by MaxEdits)
    deaths      \* crashes so far (bounded by MaxCrashes)

transferVars == <<home, lstatus, tjob, run, movedBy, predicted, edits, deaths>>

TJobs == {"there", "back"}
OldPlan(j) == IF j = "there" THEN 1 ELSE 2
NewPlan(j) == 3 - OldPlan(j)

NoTransfer == [exists |-> FALSE]
Unknown == [all |-> FALSE, uuids |-> {}, found |-> {}]
RunIdle == [pc |-> "idle", job |-> "there", row |-> NoTransfer, found |-> {}]

TransferInit ==
    /\ home = [l \in Movables |-> 1]
    /\ lstatus = [l \in Movables |-> "unassigned"]
    /\ tjob = [j \in TJobs |-> NoTransfer]
    /\ run = [a \in Admins |-> RunIdle]
    /\ movedBy = [j \in TJobs |-> {}]
    /\ predicted = [j \in TJobs |-> Unknown]
    /\ edits = 0 /\ deaths = 0

Edited == edits < MaxEdits /\ edits' = edits + 1
Forgotten == predicted' = [j \in TJobs |-> Unknown]

-----------------------------------------------------------------------------
\* clean: transfer_all, or licenses are named.
CleanTransfer(all, uuids) == all \/ uuids # {}

\* The admin form.  All fields but the notes are read-only once completed_at is
\* set; completed_at and processed_results are read-only always.  (Here nobody
\* processes the job between the form's read of the row and its save.)
SaveTransferForm(j, dry, all, uuids) ==
    /\ Edited
    /\ CleanTransfer(all, uuids)
    /\ all => uuids = {}   \* process() does not look at the named ones
    /\ tjob[j].exists => ~tjob[j].completed
    /\ tjob' = [tjob EXCEPT ![j] =
         [exists |-> TRUE, dry |-> dry, all |-> all, uuids |-> uuids,
          completed |-> IF tjob[j].exists THEN tjob[j].completed ELSE FALSE,
          results |-> IF tjob[j].exists THEN tjob[j].results ELSE {}]]
    /\ UNCHANGED <<home, lstatus, run, movedBy, predicted, deaths>>

\* Assignments, revocations and resets go on.
TransferableChanges(l) ==
    /\ Edited
    /\ lstatus' = [lstatus EXCEPT ![l] =
         CASE @ = "unassigned" -> "assigned" [] @ = "assigned" -> "revoked" [] OTHER -> "unassigned"]
    /\ Forgotten
    /\ UNCHANGED <<home, tjob, run, movedBy, deaths>>

\* Mutant: a job that was completed is processed again.
TransferReadAgain(a, j) ==
    /\ run[a].pc = "idle" /\ tjob[j].exists
    /\ run' = [run EXCEPT ![a] = [pc |-> "move", job |-> j, row |-> tjob[j], found |-> {}]]
    /\ UNCHANGED <<home, lstatus, tjob, movedBy, predicted, edits, deaths>>

\* process_transfer_jobs reads the job; process() returns when it was completed.
TransferRead(a, j) ==
    /\ run[a].pc = "idle" /\ tjob[j].exists
    /\ ~tjob[j].completed
    /\ run' = [run EXCEPT ![a] = [pc |-> "move", job |-> j, row |-> tjob[j], found |-> {}]]
    /\ UNCHANGED <<home, lstatus, tjob, movedBy, predicted, edits, deaths>>

\* get_licenses_to_transfer: all licenses of the old plan, or the named ones that
\* are assigned or activated.
LicensesToTransfer(j, row) ==
    {l \in Movables : /\ home[l] = OldPlan(j)
                      /\ row.all \/ (lstatus[l] = "assigned" /\ l \in row.uuids)}

\* Mutant: a real run moves the named licenses whatever their status.
TransferMoveNamed(a) ==
    LET j == run[a].job
        row == run[a].row
        found == IF row.dry THEN LicensesToTransfer(j, row)
                 ELSE {l \in Movables : home[l] = OldPlan(j) /\ (row.all \/ l \in row.uuids)}
    IN  /\ run[a].pc = "move"
        /\ run' = [run EXCEPT ![a].pc = "save", ![a].found = found]
        /\ home' = [l \in Movables |-> IF l \in found /\ ~row.dry THEN NewPlan(j) ELSE home[l]]
        /\ movedBy' = [movedBy EXCEPT ![j] = IF row.dry THEN @ ELSE @ \union found]
        /\ predicted' = IF row.dry THEN [predicted EXCEPT ![j] = [all |-> row.all, uuids |-> row.uuids, found |-> found]]
                        ELSE [i \in TJobs |-> Unknown]
        /\ UNCHANGED <<lstatus, tjob, edits, deaths>>

\* The transaction of process(): License.bulk_update changes the plan alone.
TransferMove(a) ==
    LET j == run[a].job
        row == run[a].row
        found == LicensesToTransfer(j, row)
    IN  /\ run[a].pc = "move"
        /\ run' = [run EXCEPT ![a].pc = "save", ![a].found = found]
        /\ home' = [l \in Movables |-> IF l \in found /\ ~row.dry THEN NewPlan(j) ELSE home[l]]
        /\ movedBy' = [movedBy EXCEPT ![j] = IF row.dry THEN @ ELSE @ \union found]
        /\ predicted' = IF row.dry THEN [predicted EXCEPT ![j] = [all |-> row.all, uuids |-> row.uuids, found |-> found]]
                        ELSE [i \in TJobs |-> Unknown]
        /\ UNCHANGED <<lstatus, tjob, edits, deaths>>

\* Mutant: completed_at is set and the results are only those of a dry run.
TransferSaveBlank(a) ==
    LET row == run[a].row
    IN  /\ run[a].pc = "save"
        /\ tjob' = [tjob EXCEPT ![run[a].job] =
             [row EXCEPT !.completed = ~row.dry,
                         !.results = IF row.dry THEN @ \union {<<TRUE, run[a].found>>} ELSE @]]
        /\ run' = [run EXCEPT ![a] = RunIdle]
        /\ UNCHANGED <<home, lstatus, movedBy, predicted, edits, deaths>>

\* After the transaction: completed_at unless it was a dry run, one more entry of
\* processed_results, and save() of all the fields that were read.
TransferSave(a) ==
    LET row == run[a].row
    IN  /\ run[a].pc = "save"
        /\ tjob' = [tjob EXCEPT ![run[a].job] =
             [row EXCEPT !.completed = ~row.dry, !.results = @ \union {<<row.dry, run[a].found>>}]]
        /\ run' = [run EXCEPT ![a] = RunIdle]
        /\ UNCHANGED <<home, lstatus, movedBy, predicted, edits, deaths>>

\* The worker dies before the transaction commits, or between it and the save.
TransferCrash(a) ==
    /\ run[a].pc # "idle"
    /\ deaths < MaxCrashes /\ deaths' = deaths + 1
    /\ run' = [run EXCEPT ![a] = RunIdle]
    /\ UNCHANGED <<home, lstatus, tjob, movedBy, predicted, edits>>

TransferNext ==
    \/ \E j \in TJobs, dry, all \in BOOLEAN, uuids \in SUBSET Movables : SaveTransferForm(j, dry, all, uuids)
    \/ \E l \in Movables : TransferableChanges(l)
    \/ \E a \in Admins, j \in TJobs : TransferRead(a, j)
    \/ \E a \in Admins : TransferMove(a) \/ TransferSave(a) \/ TransferCrash(a)

TransferSpec == TransferInit /\ [][TransferNext]_transferVars

-----------------------------------------------------------------------------
OneAtATime == Cardinality(Admins) = 1

(***************************************************************************)
(* A job that was completed moves no license again, however often an admin *)
(* selects it, when admins run jobs one at a time: licenses that the other *)
(* job has moved back stay where they are.                                 *)
(***************************************************************************)
CompletedJobIsFinal ==
    [][OneAtATime =>
         \A j \in TJobs : tjob[j].exists /\ tjob[j].completed =>
            \A l \in Movables : home[l] = OldPlan(j) => home'[l] = OldPlan(j)]_transferVars

(***************************************************************************)
(* While nobody is processing a job, every license that it has moved is in *)
(* the results of its real runs, unless a worker died on the way or two    *)
(* admins ran it at the same time.                                         *)
(***************************************************************************)
MovesReported ==
    deaths = 0 /\ OneAtATime =>
       \A j \in TJobs : tjob[j].exists /\ (\A a \in Admins : run[a].pc # "save") =>
          movedBy[j] \subseteq UNION {r[2] : r \in {x \in tjob[j].results : x[1] = FALSE}}

(***************************************************************************)
(* A real run moves exactly what the dry run before it reported, when      *)
(* neither the licenses nor the job's selection have changed since.        *)
(***************************************************************************)
DryRunPredicts ==
    [][\A a \in Admins :
         LET dryRun == predicted[run[a].job]
         IN  run[a].pc = "move" /\ run'[a].pc = "save" /\ ~run[a].row.dry
               /\ dryRun.all = run[a].row.all /\ dryRun.uuids = run[a].row.uuids =>
                  run'[a].found = dryRun.found]_transferVars

(***************************************************************************)
(* What an admin is shown of a job stays true: the report of a dry run for *)
(* the real run after it, and a completed job for all time.                *)
(***************************************************************************)
TransfersFinal == CompletedJobIsFinal /\ DryRunPredicts
=============================================================================
