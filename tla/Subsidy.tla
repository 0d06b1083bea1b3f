------------------------------ MODULE Subsidy ------------------------------
(***************************************************************************)
(* GET /license-subsidy: which license of a learner pays for a course.     *)
(* Whether the catalog of a plan holds the course comes from the catalog   *)
(* service, and is cached under the plan and the course: the catalog that  *)
(* was asked is not in the key, and admins may give the plan another one.  *)
(*                                                                         *)
(* One learner and one course; a unit of time is some part of the cache    *)
(* timeout that no request outlasts.                                       *)
(***************************************************************************)
EXTENDS PlanAdmin

CONSTANTS
    Askers,         \* requests served at the same time
    CacheTimeout,   \* CONTAINS_CONTENT_CACHE_TIMEOUT
    MaxClock        \* time (bound)

ASSUME SubsidyAssumption == CacheTimeout \in Nat \ {0} /\ MaxClock \in Nat

VARIABLES
    holders,    \* the catalogs that hold the course
    licensed,   \* the plans in which the learner has an activated license
    cache,      \* plan -> the cached answer, or Miss
    clock,
    sreq,       \* asker -> the request
    answer,     \* of the step just taken: the request and the plan, 0 for "not found"
    hadAt,      \* plan -> catalog -> when the plan had it last, plus one
    heldAt      \* BOOLEAN -> catalog -> when the catalog held the course or did not, plus one

subsidyOwnVars == <<holders, licensed, cache, clock, sreq, answer, hadAt, heldAt>>
subsidyVars == <<planAdminVars, subsidyOwnVars>>

Miss == [value |-> FALSE, until |-> 0]
SIdle == [pc |-> "idle", left |-> {}, all |-> {}, catalog |-> <<>>, value |-> FALSE]
NoAnswer == [plans |-> {}, plan |-> 0]

SubsidyInit ==
    /\ PlanAdminInit
    /\ holders = {} /\ licensed = PPlans
    /\ cache = [p \in PPlans |-> Miss]
    /\ clock = 0
    /\ sreq = [a \in Askers |-> SIdle]
    /\ answer = NoAnswer
    /\ hadAt = [p \in PPlans |-> [k \in Catalogs |-> IF planCatalog[p] = k THEN 1 ELSE 0]]
    /\ heldAt = [b \in BOOLEAN |-> [k \in Catalogs |-> IF b THEN 0 ELSE 1]]

\* The history that the properties speak of, as far back as the cache timeout.
Kept(time, now) == IF time + CacheTimeout > now + 1 THEN time ELSE 0

Recorded ==
    /\ hadAt' = [p \in PPlans |-> [k \in Catalogs |->
                   IF planCatalog'[p] = k THEN clock' + 1 ELSE Kept(hadAt[p][k], clock')]]
    /\ heldAt' = [b \in BOOLEAN |-> [k \in Catalogs |->
                   IF (k \in holders') = b THEN clock' + 1 ELSE Kept(heldAt[b][k], clock')]]

-----------------------------------------------------------------------------
\* The administration of the plans.
PlansChange ==
    /\ PlanAdminNext
    /\ answer' = NoAnswer
    /\ UNCHANGED <<holders, licensed, cache, clock, sreq>>
    /\ Recorded

\* The catalog service updates a catalog.
ContentChanges(k) ==
    /\ Requested
    /\ holders' = IF k \in holders THEN holders \ {k} ELSE holders \union {k}
    /\ answer' = NoAnswer
    /\ UNCHANGED <<licensed, cache, clock, sreq, defaultCatalog, planCatalog, preq, unchecked>>
    /\ Recorded

\* The learner's license of a plan is revoked, or activated.
LicenseChanges(p) ==
    /\ Requested
    /\ licensed' = IF p \in licensed THEN licensed \ {p} ELSE licensed \union {p}
    /\ answer' = NoAnswer
    /\ UNCHANGED <<holders, cache, clock, sreq, defaultCatalog, planCatalog, preq, unchecked>>
    /\ Recorded

\* A request, and a call of the catalog service, takes less than a unit of time.
SubsidyTick ==
    /\ clock < MaxClock /\ clock' = clock + 1
    /\ \A a \in Askers : sreq[a] = SIdle
    /\ answer' = NoAnswer
    /\ UNCHANGED <<holders, licensed, cache, sreq>> /\ UNCHANGED planAdminVars
    /\ Recorded

SubsidyUnchanged ==
    /\ UNCHANGED <<holders, licensed, clock, hadAt, heldAt>>
    /\ UNCHANGED planAdminVars

\* The activated licenses and their plans are read at once.
SubsidyAsk(a) ==
    LET plans == {p \in licensed : PlanExists(p)}
    IN  /\ sreq[a] = SIdle
        /\ plans # {}
        /\ sreq' = [sreq EXCEPT ![a] =
             [pc |-> "look", left |-> plans, all |-> plans, catalog |-> planCatalog, value |-> FALSE]]
        /\ answer' = NoAnswer
        /\ UNCHANGED cache /\ SubsidyUnchanged

\* Mutant: sorted without reverse.
FurthestLast(plans) == CHOOSE p \in plans : \A q \in plans : p <= q

\* The licenses are sorted by the expiration of their plans, the last one first.
Furthest(plans) == CHOOSE p \in plans : \A q \in plans : q <= p

\* The answer, or on to the next license, once it is known whether the catalog of
\* the plan holds the course.
Conclude(a, p, value) ==
    LET left == sreq[a].left \ {p}
    IN  IF value \/ left = {}
        THEN /\ sreq' = [sreq EXCEPT ![a] = SIdle]
             /\ answer' = [plans |-> sreq[a].all, plan |-> IF value THEN p ELSE 0]
        ELSE /\ sreq' = [sreq EXCEPT ![a].pc = "look", ![a].left = left, ![a].value = FALSE]
             /\ answer' = NoAnswer

\* contains_content finds the answer in the cache.
SubsidyCached(a) ==
    LET p == Furthest(sreq[a].left)
    IN  /\ sreq[a].pc = "look"
        /\ cache[p].until > clock
        /\ Conclude(a, p, cache[p].value)
        /\ UNCHANGED cache /\ SubsidyUnchanged

\* contains_content asks the catalog service, about the catalog that was read with
\* the plan.
SubsidyCall(a) ==
    LET p == Furthest(sreq[a].left)
    IN  /\ sreq[a].pc = "look"
        /\ cache[p].until <= clock
        /\ sreq' = [sreq EXCEPT ![a].pc = "store", ![a].value = sreq[a].catalog[p] \in holders]
        /\ answer' = NoAnswer
        /\ UNCHANGED cache /\ SubsidyUnchanged

\* The service fails: the request ends with an error and caches nothing.
SubsidyFails(a) ==
    /\ sreq[a].pc = "look"
    /\ cache[Furthest(sreq[a].left)].until <= clock
    /\ sreq' = [sreq EXCEPT ![a] = SIdle]
    /\ answer' = NoAnswer
    /\ UNCHANGED cache /\ SubsidyUnchanged

\* Mutant: the answer found is kept for good.
SubsidyStoreForGood(a) ==
    LET p == Furthest(sreq[a].left)
    IN  /\ sreq[a].pc = "store"
        /\ cache' = [cache EXCEPT ![p] = [value |-> sreq[a].value, until |-> MaxClock + 1]]
        /\ Conclude(a, p, sreq[a].value)
        /\ SubsidyUnchanged

SubsidyStore(a) ==
    LET p == Furthest(sreq[a].left)
    IN  /\ sreq[a].pc = "store"
        /\ cache' = [cache EXCEPT ![p] = [value |-> sreq[a].value, until |-> clock + CacheTimeout]]
        /\ Conclude(a, p, sreq[a].value)
        /\ SubsidyUnchanged

SubsidyNext ==
    \/ PlansChange
    \/ \E k \in Catalogs : ContentChanges(k)
    \/ \E p \in PPlans : LicenseChanges(p)
    \/ SubsidyTick
    \/ \E a \in Askers : \/ SubsidyAsk(a) \/ SubsidyCached(a) \/ SubsidyCall(a)
                         \/ SubsidyFails(a) \/ SubsidyStore(a)

SubsidySpec == SubsidyInit /\ [][SubsidyNext]_subsidyVars

-----------------------------------------------------------------------------
\* Within the cache timeout, plan p had a catalog that then held the course (or, for
\* b = FALSE, did not).
Recently(p, b) ==
    \E k \in Catalogs : Kept(hadAt[p][k], clock) > 0 /\ Kept(heldAt[b][k], clock) > 0

(***************************************************************************)
(* A license is offered for a course only if its plan's catalog held the   *)
(* course within the cache timeout, however admins change the catalog of   *)
(* the plan, the service changes the content, and requests overlap.        *)
(***************************************************************************)
SubsidyCovers == answer.plan # 0 => Recently(answer.plan, TRUE)

(***************************************************************************)
(* The license that is offered expires furthest in the future: every plan  *)
(* of the learner that expires later was without the course within the     *)
(* cache timeout.  A learner who is told that no license pays had, within  *)
(* the timeout, none that does.                                            *)
(***************************************************************************)
FurthestOffered ==
    answer # NoAnswer => \A p \in answer.plans : p > answer.plan => Recently(p, FALSE)

(***************************************************************************)
(* The license that GET /license-subsidy chooses pays for the course, and  *)
(* no other one of the learner lasts longer and pays too, as far as the    *)
(* cache may know.                                                         *)
(***************************************************************************)
SubsidySound == SubsidyCovers /\ FurthestOffered
=============================================================================
