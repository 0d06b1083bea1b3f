------------------------------ MODULE Tracking ------------------------------
(***************************************************************************)
(* Lifecycle events for Segment and Braze: the command that tells of       *)
(* licenses activated half a year ago and remembers whom it told of, and   *)
(* the task that tells Braze of a batch of assignments.                    *)
(***************************************************************************)
EXTENDS Naturals, FiniteSets, Sequences

CONSTANTS
    TLicenses,      \* licenses
    EventPage,      \* licenses on a page of the command, and in a chunk of the task
    MaxTRetries,    \* retries of a task, five in the code
    MaxTFaults,     \* deaths of the command, and failures of the task (bound)
    MaxTOps         \* changes of the licenses (bound)

ASSUME TrackingAssumption ==
    /\ TLicenses \subseteq Nat \ {0} /\ IsFiniteSet(TLicenses)
    /\ EventPage \in Nat \ {0} /\ MaxTRetries \in Nat /\ MaxTFaults \in Nat /\ MaxTOps \in Nat

VARIABLES
    tracked,    \* license -> its row: activated half a year ago, by a known LMS user; the
                \* learner of an assigned one, numbered by assignment
    events,     \* the licenses with a LicenseEvent
    segment,    \* license -> half-year events that Segment heard
    unheard,    \* the licenses with a half-year event that was lost on the way (history)
    command,    \* trigger_event_for_licenses
    batches,    \* the tasks that tell Braze of a batch of assignments
    braze,      \* <<license, learner>> of the assignments that Braze was told of
    deaths,     \* deaths of the command so far
    tfaults,    \* deaths and failures so far (bounded by MaxTFaults)
    tops        \* changes so far (bounded by MaxTOps)

trackingVars == <<tracked, events, segment, unheard, command, batches, braze, deaths, tfaults, tops>>

NewRow(user) == [due |-> FALSE, user |-> user, learner |-> 0]
NoCommand == [pc |-> "idle", dry |-> FALSE, list |-> <<>>, due |-> {}, page |-> 1, at |-> 1]

TrackingInit ==
    /\ \E known \in SUBSET TLicenses : tracked = [l \in TLicenses |-> NewRow(l \in known)]
    /\ events = {} /\ segment = [l \in TLicenses |-> 0] /\ unheard = {}
    /\ command = NoCommand
    /\ batches = {} /\ braze = {}
    /\ deaths = 0 /\ tfaults = 0 /\ tops = 0

TrackingOp == tops < MaxTOps /\ tops' = tops + 1
TrackingFault == tfaults < MaxTFaults /\ tfaults' = tfaults + 1

\* The elements of a set of licenses in the order of a query.
Ordered(S) == [i \in 1..Cardinality(S) |-> CHOOSE l \in S : Cardinality({m \in S : m <= l}) = i]

\* The part of a sequence from its m-th element to its n-th, as far as it goes.
Slice(s, m, n) == SubSeq(s, m, IF n < Len(s) THEN n ELSE Len(s))

-----------------------------------------------------------------------------
\* Half a year has passed since the activation of a license.
HalfYear(l) ==
    /\ TrackingOp
    /\ ~tracked[l].due
    /\ tracked' = [tracked EXCEPT ![l].due = TRUE]
    /\ UNCHANGED <<events, segment, unheard, command, batches, braze, deaths, tfaults>>

\* Its license is revoked, or its plan deactivated.
NoLongerActive(l) ==
    /\ TrackingOp
    /\ tracked[l].due
    /\ tracked' = [tracked EXCEPT ![l].due = FALSE]
    /\ UNCHANGED <<events, segment, unheard, command, batches, braze, deaths, tfaults>>

\* Mutant: licenses with an event are not excluded.
DueLicensesAll == {l \in TLicenses : tracked[l].due}

DueLicenses == {l \in TLicenses : tracked[l].due /\ l \notin events}

\* The list is read once: the test for an empty one keeps the rows, and the pages are
\* slices of them.
CommandStart(dry) ==
    /\ command.pc = "idle"
    /\ DueLicenses # {}
    /\ command' = [NoCommand EXCEPT !.pc = "send", !.dry = dry, !.due = DueLicenses,
                                    !.list = Ordered(DueLicenses)]
    /\ UNCHANGED <<tracked, events, segment, unheard, batches, braze, deaths, tfaults, tops>>

\* Mutant: every page is a query of its own.
PageOfQuery(n) == Slice(Ordered(DueLicenses), (n - 1) * EventPage + 1, n * EventPage)

EventsOfPage(n) == Slice(command.list, (n - 1) * EventPage + 1, n * EventPage)

\* track_event tells Segment, or it tells nobody and says so only in the log: there is no
\* key for Segment, its client raises what is swallowed, or the license has no LMS user
\* and the missing e-mail raises it. The command does not learn which.
TrackEvent(l) ==
    IF command.dry THEN UNCHANGED <<segment, unheard>>
    ELSE \/ /\ tracked[l].user
            /\ segment' = [segment EXCEPT ![l] = @ + 1] /\ UNCHANGED unheard
         \/ unheard' = unheard \union {l} /\ UNCHANGED segment

\* One license of the page.
CommandEvent ==
    LET page == EventsOfPage(command.page)
    IN  /\ command.pc = "send"
        /\ IF command.at <= Len(page)
           THEN /\ TrackEvent(page[command.at])
                /\ command' = [command EXCEPT !.at = command.at + 1]
           ELSE UNCHANGED <<segment, unheard>> /\ command' = [command EXCEPT !.pc = "record"]
        /\ UNCHANGED <<tracked, events, batches, braze, deaths, tfaults, tops>>

\* The events of the page are recorded at once; the number of pages is that of the list.
CommandRecord ==
    LET page == EventsOfPage(command.page)
    IN  /\ command.pc = "record"
        /\ events' = IF command.dry THEN events ELSE events \union {page[i] : i \in DOMAIN page}
        /\ command' = IF command.page * EventPage < Len(command.list)
                      THEN [command EXCEPT !.pc = "send", !.page = command.page + 1, !.at = 1]
                      ELSE [command EXCEPT !.pc = "idle"]
        /\ UNCHANGED <<tracked, segment, unheard, batches, braze, deaths, tfaults, tops>>

\* The command dies, or the insert fails.
CommandDies ==
    /\ command.pc # "idle" /\ TrackingFault
    /\ command' = NoCommand /\ deaths' = deaths + 1
    /\ UNCHANGED <<tracked, events, segment, unheard, batches, braze, tops>>

-----------------------------------------------------------------------------
\* Licenses are assigned, and the task is queued with their ids.
AssignBatch(S) ==
    /\ TrackingOp
    /\ S # {} /\ \A l \in S : tracked[l].learner = 0
    /\ tracked' = [l \in TLicenses |-> IF l \in S THEN [tracked[l] EXCEPT !.learner = tops'] ELSE tracked[l]]
    /\ batches' = batches \union {[licenses |-> S, learner |-> tops', left |-> Ordered(S), pc |-> "read",
                                   chunk |-> {}, retries |-> 0, lost |-> FALSE]}
    /\ UNCHANGED <<events, segment, unheard, command, braze, deaths, tfaults>>

\* A license goes back to the unassigned ones.
Unassigned(l) ==
    /\ TrackingOp
    /\ tracked[l].learner # 0
    /\ tracked' = [tracked EXCEPT ![l].learner = 0]
    /\ UNCHANGED <<events, segment, unheard, command, batches, braze, deaths, tfaults>>

BatchBecomes(b, c) == batches' = (batches \ {b}) \union {c}

\* Mutant: the rest begins after one license more than the chunk.
RestSkips(left) == SubSeq(left, EventPage + 2, Len(left))

Rest(left) == SubSeq(left, EventPage + 1, Len(left))

\* The rows of the next chunk are read, as they are now.
BatchRead(b) ==
    /\ b.pc = "read"
    /\ IF b.left = <<>> THEN BatchBecomes(b, [b EXCEPT !.pc = "done"])
       ELSE LET ids == Slice(b.left, 1, EventPage)
            IN  BatchBecomes(b, [b EXCEPT !.pc = "send", !.left = Rest(b.left),
                   !.chunk = {<<ids[i], tracked[ids[i]].learner>> : i \in DOMAIN ids}])
    /\ UNCHANGED <<tracked, events, segment, unheard, command, braze, deaths, tfaults, tops>>

\* Aliases, then attributes and events, of the whole chunk.
BatchSend(b) ==
    /\ b.pc = "send"
    /\ braze' = braze \union b.chunk
    /\ BatchBecomes(b, [b EXCEPT !.pc = "read", !.chunk = {}])
    /\ UNCHANGED <<tracked, events, segment, unheard, command, deaths, tfaults, tops>>

\* A connection or the database fails: the task starts anew, up to the last retry.
BatchRetried(b) ==
    /\ b.pc \in {"read", "send"} /\ TrackingFault
    /\ BatchBecomes(b, IF b.retries = MaxTRetries THEN [b EXCEPT !.pc = "done", !.lost = TRUE]
                       ELSE [b EXCEPT !.pc = "read", !.left = Ordered(b.licenses), !.chunk = {},
                                      !.retries = b.retries + 1])
    /\ UNCHANGED <<tracked, events, segment, unheard, command, braze, deaths, tops>>

\* Braze refuses: the handler's logger.exception() lacks its argument and raises a
\* TypeError, for which there is no retry.
BatchRefused(b) ==
    /\ b.pc = "send" /\ TrackingFault
    /\ BatchBecomes(b, [b EXCEPT !.pc = "done", !.lost = TRUE])
    /\ UNCHANGED <<tracked, events, segment, unheard, command, braze, deaths, tops>>

HalfYearNext ==
    \/ \E l \in TLicenses : HalfYear(l) \/ NoLongerActive(l)
    \/ \E dry \in BOOLEAN : CommandStart(dry)
    \/ CommandEvent \/ CommandRecord \/ CommandDies

BatchNext ==
    \/ \E S \in SUBSET TLicenses : AssignBatch(S)
    \/ \E l \in TLicenses : Unassigned(l)
    \/ \E b \in batches : BatchRead(b) \/ BatchSend(b) \/ BatchRetried(b) \/ BatchRefused(b)

\* The workers run the tasks of the queue.
TrackingProgress == \E b \in batches : BatchRead(b) \/ BatchSend(b)

TrackingSpec ==
    /\ TrackingInit
    /\ [][HalfYearNext \/ BatchNext]_trackingVars
    /\ WF_trackingVars(TrackingProgress)

-----------------------------------------------------------------------------
(***************************************************************************)
(* Segment hears at most once of each license, and once more only for a    *)
(* run that died before it recorded its page, whatever becomes of the      *)
(* licenses between two runs.                                              *)
(***************************************************************************)
HalfYearOnce == \A l \in TLicenses : segment[l] <= 1 + deaths

(***************************************************************************)
(* A run that comes to its end has recorded every license that was due     *)
(* when it began, although what it records changes the query that its      *)
(* pages come from, and it has called track_event for each: Segment heard  *)
(* of the license, or the call was lost. It need not have heard: the       *)
(* command records a license whose call was swallowed all the same. A dry  *)
(* run records nothing.                                                    *)
(***************************************************************************)
RunTellsAll ==
    [][command.pc = "record" /\ command'.pc = "idle" /\ deaths' = deaths /\ ~command.dry =>
         \A l \in command.due : l \in events' /\ (segment[l] > 0 \/ l \in unheard)]_trackingVars

(***************************************************************************)
(* A record is the last word on its license: no later run, no page of this *)
(* one and no change of the license makes the command tell of it again,    *)
(* so that a call lost before the record stays lost.                       *)
(***************************************************************************)
RecordedNeverToldAgain ==
    [][\A l \in events : /\ l \in events' /\ segment'[l] = segment[l]
                        /\ l \in unheard' <=> l \in unheard]_trackingVars

(***************************************************************************)
(* Braze is told of every assignment of a batch that still stands when the *)
(* task comes to it, in however many chunks and after however many         *)
(* retries, unless it refused or the retries ran out.                      *)
(***************************************************************************)
AssignmentTold ==
    \A l \in TLicenses : \A n \in 1..MaxTOps :
      tracked[l].learner = n ~>
        \/ <<l, n>> \in braze
        \/ tracked[l].learner # n
        \/ \E b \in batches : b.learner = n /\ b.lost

(***************************************************************************)
(* The half-year command calls track_event for every license that is due,  *)
(* once for every run that survives and never again once it is recorded;   *)
(* only a lost call keeps Segment from hearing of it.                      *)
(***************************************************************************)
HalfYearTold == []HalfYearOnce /\ RunTellsAll /\ RecordedNeverToldAgain
=============================================================================
