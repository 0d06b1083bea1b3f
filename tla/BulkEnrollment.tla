--------------------------- MODULE BulkEnrollment ---------------------------
(***************************************************************************)
(* POST and GET /api/v1/bulk-license-enrollment: a BulkEnrollmentJob and   *)
(* enterprise_enrollment_license_subsidy_task, which checks the licenses   *)
(* of learners and enrolls them in courses, chunk by chunk, and uploads a  *)
(* file with the results.                                                  *)
(*                                                                         *)
(* Learners and courses are the positions in the lists of the request.     *)
(* There are two plans, one of which the request may name.                 *)
(***************************************************************************)
EXTENDS Naturals, FiniteSets

CONSTANTS
    MaxEmails,      \* how many learners a plan may have (bound)
    MaxCourses,     \* how many courses are requested (bound)
    ChunkSize,      \* 25
    RequestLimit,   \* BULK_ENROLL_REQUEST_LIMIT
    MaxOutages,     \* how many calls to other services fail (bound)
    MaxRoster       \* how often licenses change during the job (bound)

ASSUME BulkEnrollmentAssumption ==
    /\ {MaxEmails, MaxCourses, ChunkSize} \subseteq Nat \ {0}
    /\ {RequestLimit, MaxOutages, MaxRoster} \subseteq Nat

VARIABLES
    roster,       \* plan -> learner -> the status of a license, or "none"
    bjob,         \* the job and its task
    results,      \* rows of the result file: learner, course, status
    entered,      \* external: enrollments made for the job
    stored,       \* external: the file is in the bucket
    outages,      \* failures so far (bounded by MaxOutages)
    rosterChanges \* changes of licenses so far (bounded by MaxRoster)

enrollmentVars == <<roster, bjob, results, entered, stored, outages, rosterChanges>>

Emails == 1..MaxEmails
Courses == 1..MaxCourses
Plans == {"named", "other"}

\* contains_content (external): the catalog of the named plan lacks the first course.
ContainsContent(p, c) == p = "other" \/ c > 1

NoJob == [pc |-> "none", emails |-> 0, courses |-> 0, plans |-> {}, course |-> 0,
          email |-> 0, object |-> FALSE]

BulkEnrollmentInit ==
    /\ \E named \in [Emails -> {"none", "activated"}], other \in [Emails -> {"none", "assigned"}] :
         roster = [p \in Plans |-> IF p = "named" THEN named ELSE other]
    /\ bjob = NoJob /\ results = {} /\ entered = {} /\ stored = FALSE
    /\ outages = 0 /\ rosterChanges = 0

Outage == outages < MaxOutages /\ outages' = outages + 1

-----------------------------------------------------------------------------
\* post.  The limit is compared with the e-mails of the request; enroll_all takes
\* the learners of the named plan instead.
PostJob(e, c, named, enrollAll) ==
    LET all == {u \in Emails : roster["named"][u] \in {"activated", "assigned"}}
        n == IF enrollAll THEN Cardinality(all) ELSE e
    IN  /\ bjob = NoJob
        /\ c * e <= RequestLimit
        /\ enrollAll => named /\ all = 1..n
        /\ bjob' = [NoJob EXCEPT !.pc = "saved", !.emails = n, !.courses = c,
                                 !.plans = IF named THEN {"named"} ELSE Plans]
        /\ UNCHANGED <<roster, results, entered, stored, outages, rosterChanges>>

\* create_bulk_enrollment_job: the row is saved, then the message is sent.
SendTask ==
    /\ bjob.pc = "saved"
    /\ \/ bjob' = [bjob EXCEPT !.pc = "enroll"] /\ UNCHANGED outages
       \/ Outage /\ bjob' = [bjob EXCEPT !.pc = "failed"]
    /\ UNCHANGED <<roster, results, entered, stored, rosterChanges>>

\* Mutant: a chunk ends before the first position of the next one but one.
ChunkShort(i, n) == {x \in 1..n : x > i /\ x < i + ChunkSize}

\* chunks(list, ChunkSize): the positions of the chunk that begins after i.
Chunk(i, n) == {x \in 1..n : x > i /\ x <= i + ChunkSize}

\* check_missing_licenses: licenses of any status count.
Covered(u, c) == \E p \in bjob.plans : roster[p][u] # "none" /\ ContainsContent(p, c)

\* What the enterprise service answers for a pair: a learner who has yet to
\* activate is pending, others are enrolled, or it fails.
Answers(u, c) ==
    IF \E p \in bjob.plans : roster[p][u] = "assigned" /\ ContainsContent(p, c)
    THEN {"pending", "failed"} ELSE {"success", "failed"}

\* Mutant: the courses do not advance.
NextChunkAgain ==
    IF bjob.email + ChunkSize < bjob.emails
    THEN [bjob EXCEPT !.email = @ + ChunkSize]
    ELSE [bjob EXCEPT !.email = 0,
                      !.pc = IF bjob.course + bjob.email >= bjob.courses THEN "upload" ELSE "enroll"]

\* After the last learners of a chunk of courses come the next courses.
NextChunk ==
    IF bjob.email + ChunkSize < bjob.emails
    THEN [bjob EXCEPT !.email = @ + ChunkSize]
    ELSE [bjob EXCEPT !.email = 0, !.course = @ + ChunkSize,
                      !.pc = IF bjob.course + ChunkSize < bjob.courses THEN "enroll" ELSE "upload"]

\* One chunk of courses for one chunk of learners.  Any error ends the task, also
\* when the learners were enrolled and only the answer is lost.
EnrollChunk ==
    /\ bjob.pc = "enroll"
    /\ LET pairs == Chunk(bjob.email, bjob.emails) \X Chunk(bjob.course, bjob.courses)
           covered == {x \in pairs : Covered(x[1], x[2])}
           missing == {<<x[1], x[2], "failed">> : x \in pairs \ covered}
       IN  \/ \E answer \in [covered -> {"success", "pending", "failed"}] :
                /\ \A x \in covered : answer[x] \in Answers(x[1], x[2])
                /\ results' = results \union missing
                                \union {<<x[1], x[2], answer[x]>> : x \in covered}
                /\ entered' = entered \union {x \in covered : answer[x] # "failed"}
                /\ bjob' = NextChunk
                /\ UNCHANGED outages
           \/ /\ covered # {} /\ Outage
              /\ bjob' = [bjob EXCEPT !.pc = "failed"]
              /\ entered' = entered \/ entered' = entered \union covered
              /\ UNCHANGED results
    /\ UNCHANGED <<roster, stored, rosterChanges>>

\* upload_results, in two steps: the file, and its name in the job's row.
UploadResults ==
    /\ bjob.pc = "upload"
    /\ \/ stored' = TRUE /\ bjob' = [bjob EXCEPT !.pc = "save"] /\ UNCHANGED outages
       \/ Outage /\ bjob' = [bjob EXCEPT !.pc = "failed"] /\ UNCHANGED stored
    /\ UNCHANGED <<roster, results, entered, rosterChanges>>

SaveResultsName ==
    /\ bjob.pc = "save"
    /\ \/ bjob' = [bjob EXCEPT !.pc = "email", !.object = TRUE] /\ UNCHANGED outages
       \/ Outage /\ bjob' = [bjob EXCEPT !.pc = "failed"]
    /\ UNCHANGED <<roster, results, entered, stored, rosterChanges>>

\* _send_bulk_enrollment_results_email; a failure leaves the results.
SendResultsEmail ==
    /\ bjob.pc = "email"
    /\ \/ bjob' = [bjob EXCEPT !.pc = "done"] /\ UNCHANGED outages
       \/ Outage /\ bjob' = [bjob EXCEPT !.pc = "failed"]
    /\ UNCHANGED <<roster, results, entered, stored, rosterChanges>>

\* Licenses are assigned, activated and revoked while the task runs.
RosterChanges(p, u) ==
    /\ rosterChanges < MaxRoster /\ rosterChanges' = rosterChanges + 1
    /\ roster' = [roster EXCEPT ![p][u] =
                    CASE @ = "none" -> "assigned" [] @ = "assigned" -> "activated" [] OTHER -> "revoked"]
    /\ UNCHANGED <<bjob, results, entered, stored, outages>>

TaskStep ==
    SendTask \/ EnrollChunk \/ UploadResults \/ SaveResultsName \/ SendResultsEmail

BulkEnrollmentNext ==
    \/ \E e \in Emails, c \in Courses, named, all \in BOOLEAN : PostJob(e, c, named, all)
    \/ TaskStep
    \/ \E p \in Plans, u \in Emails : RosterChanges(p, u)

BulkEnrollmentSpec == BulkEnrollmentInit /\ [][BulkEnrollmentNext]_enrollmentVars

\* The message is delivered and the task runs to its end.
FairBulkEnrollmentSpec == BulkEnrollmentSpec /\ WF_enrollmentVars(TaskStep)

-----------------------------------------------------------------------------
\* generate_download_url: what GET answers for the job.
DownloadUrl == bjob.object

(***************************************************************************)
(* A file of results that can be downloaded exists, answers for every      *)
(* learner and course of the request, and tells of every enrollment that   *)
(* was made, whatever chunks the lists fall into and however licenses      *)
(* change on the way.                                                      *)
(***************************************************************************)
ResultsComplete ==
    DownloadUrl =>
       /\ stored
       /\ \A u \in 1..bjob.emails, c \in 1..bjob.courses : \E s \in {"success", "pending", "failed"} :
             <<u, c, s>> \in results
       /\ \A x \in entered : \E s \in {"success", "pending"} : <<x[1], x[2], s>> \in results

(***************************************************************************)
(* A job whose calls all succeed gets its results.                         *)
(***************************************************************************)
JobAnswered == bjob.pc = "saved" ~> (DownloadUrl \/ outages > 0)
=============================================================================
