------------------------------ MODULE Listing ------------------------------
(***************************************************************************)
(* Reading the licenses of a plan while they change.  An admin walks page  *)
(* by page through the list, each page a query of its own by offset, with  *)
(* a total that is counted or, for the usable licenses of a large plan,    *)
(* taken from desired_num_licenses.  Learners list theirs, which writes    *)
(* the e-mail of their token into their licenses: that moves rows too.     *)
(*                                                                         *)
(* Pages of one license; only licenses with a holder are told apart, the   *)
(* unassigned ones come last and tie with each other.                      *)
(***************************************************************************)
EXTENDS Naturals, FiniteSets, Sequences, SequencesExt

CONSTANTS
    Listed,         \* license rows, existing or to come
    Initially,      \* how many of them exist, and desired_num_licenses
    Addresses,      \* e-mail addresses, numbered by their order
    Owners,         \* LMS users
    NoOwner,        \* lms_user_id is NULL
    LargePlan,      \* ESTIMATED_COUNT_PAGINATOR_THRESHOLD
    MaxListOps      \* changes (bound)

ASSUME ListingAssumption ==
    /\ IsFiniteSet(Listed) /\ Initially \in 0..Cardinality(Listed)
    /\ Addresses \subseteq Nat \ {0} /\ IsFiniteSet(Addresses)
    /\ NoOwner \notin Owners
    /\ LargePlan \in Nat /\ MaxListOps \in Nat

VARIABLES
    rows,       \* license -> its row
    address,    \* user -> e-mail address at the LMS
    token,      \* user -> e-mail address in the JWT
    hadAddress, \* user -> every address he had
    walk,       \* the admin's walk through the pages
    lops        \* changes so far (bounded by MaxListOps)

listingVars == <<rows, address, token, hadAddress, walk, lops>>

Absent == [status |-> "absent", email |-> 0, owner |-> NoOwner]
Free == [status |-> "unassigned", email |-> 0, owner |-> NoOwner]

NoWalk == [pc |-> "idle", filter |-> "usable", page |-> 1, seen |-> {}, again |-> {},
           untouched |-> {}, moved |-> "none"]

\* Rows of one kind are interchangeable: the next one to use.
NextFree == CHOOSE l \in Listed : rows[l] = Free
NextRow == CHOOSE l \in Listed : rows[l] = Absent

ListingInit ==
    /\ rows = LET first == CHOOSE first \in SUBSET Listed : Cardinality(first) = Initially
              IN  [l \in Listed |-> IF l \in first THEN Free ELSE Absent]
    /\ address \in [Owners -> Addresses] /\ IsInjective(address)
    /\ token = address
    /\ hadAddress = [u \in Owners |-> {address[u]}]
    /\ walk = NoWalk
    /\ lops = 0

-----------------------------------------------------------------------------
\* The rows that a filter of the list takes: the status parameter, active_only, none.
Kinds(filter) ==
    CASE filter = "usable" -> {"unassigned", "assigned", "activated"}
      [] filter = "active_only" -> {"assigned", "activated"}
      [] filter = "none" -> {"unassigned", "assigned", "activated", "revoked"}

Filtered(filter) == {l \in Listed : rows[l].status \in Kinds(filter)}
Held == {l \in Listed : rows[l].status \in {"assigned", "activated"}}

\* Mutant: the list is sorted by descending status.
RankDescending(status) == IF status = "assigned" THEN 0 ELSE 1

\* order_by('status', 'user_email'): the names of the statuses in alphabetical order;
\* those of revoked and unassigned licenses come after both.
Rank(status) == IF status = "activated" THEN 0 ELSE 1

Before(l, m) ==
    \/ Rank(rows[l].status) < Rank(rows[m].status)
    \/ Rank(rows[l].status) = Rank(rows[m].status) /\ rows[l].email < rows[m].email

\* Two holders tie: a query may return them in any order.
Tied == \E l, m \in Held : l # m /\ ~Before(l, m) /\ ~Before(m, l)

Orders == {order \in SetToSeqs(Held) : \A i, j \in DOMAIN order : i < j => ~Before(order[j], order[i])}

\* The paginator: the number of rows, or the estimate when all usable licenses of a
\* large plan are asked for.
Estimated(filter) == filter = "usable" /\ Initially > LargePlan
Total(filter) == IF Estimated(filter) THEN Initially ELSE Cardinality(Filtered(filter))

WalkStart(filter) ==
    /\ walk.pc # "walking"
    /\ walk' = [NoWalk EXCEPT !.pc = "walking", !.filter = filter, !.untouched = Held]
    /\ UNCHANGED <<rows, address, token, hadAddress, lops>>

\* GET of the next page.  A page past the last one is an error (but the first never is);
\* the last page has no link to a next one.
WalkPage ==
    LET total == Total(walk.filter)
        now(order) == IF walk.page <= Len(order) THEN {order[walk.page]} ELSE {}
    IN  /\ walk.pc = "walking"
        /\ IF walk.page > total /\ walk.page > 1
           THEN walk' = [walk EXCEPT !.pc = "failed"]
           ELSE \E order \in Orders :
                  walk' = [walk EXCEPT
                    !.pc = IF walk.page < total THEN "walking" ELSE "done",
                    !.page = walk.page + 1,
                    !.again = walk.again \union (walk.seen \intersect now(order)),
                    !.seen = walk.seen \union now(order),
                    !.moved = IF Tied THEN "back" ELSE walk.moved]
        /\ UNCHANGED <<rows, address, token, hadAddress, lops>>

\* What a change of the licenses in changed does to the walk that is under way.
RowsMove(changed, direction) ==
    /\ lops < MaxListOps /\ lops' = lops + 1
    /\ walk' = IF walk.pc # "walking" THEN NoWalk
               ELSE [walk EXCEPT !.untouched = walk.untouched \ changed,
                                 !.moved = IF walk.moved = "back" THEN "back" ELSE direction]

-----------------------------------------------------------------------------
\* An admin assigns a free license to an address that holds none.
AssignRow(e) ==
    /\ \E l \in Listed : rows[l] = Free
    /\ \A m \in Held : rows[m].email # e
    /\ rows' = [rows EXCEPT ![NextFree] = [status |-> "assigned", email |-> e, owner |-> NoOwner]]
    /\ RowsMove({NextFree}, "forward")
    /\ UNCHANGED <<address, token, hadAddress>>

\* Mutant: the license is found by its activation key alone.
ActivateRowOfKey(u, l) ==
    /\ rows[l].status = "assigned"
    /\ rows' = [rows EXCEPT ![l].status = "activated", ![l].owner = u]
    /\ RowsMove({l}, "forward")
    /\ UNCHANGED <<address, token, hadAddress>>

\* A learner activates the license that was assigned to the address of his token.
ActivateRow(u, l) ==
    /\ rows[l].status = "assigned" /\ rows[l].email = token[u]
    /\ rows' = [rows EXCEPT ![l].status = "activated", ![l].owner = u]
    /\ RowsMove({l}, "forward")
    /\ UNCHANGED <<address, token, hadAddress>>

\* A license is revoked, and another one created for it.
RevokeRow(l) ==
    /\ l \in Held
    /\ \E m \in Listed : rows[m] = Absent
    /\ rows' = [rows EXCEPT ![l].status = "revoked", ![NextRow] = Free]
    /\ RowsMove({l}, "back")
    /\ UNCHANGED <<address, token, hadAddress>>

\* Auto-scaling adds a license and leaves desired_num_licenses as it was.
AddRow ==
    /\ \E m \in Listed : rows[m] = Absent
    /\ rows' = [rows EXCEPT ![NextRow] = Free]
    /\ RowsMove({}, "forward")
    /\ UNCHANGED <<address, token, hadAddress>>

\* A user takes another address that nobody has now.
NewAddress(u, e) ==
    /\ \A v \in Owners : address[v] # e
    /\ address' = [address EXCEPT ![u] = e]
    /\ hadAddress' = [hadAddress EXCEPT ![u] = @ \union {e}]
    /\ lops < MaxListOps /\ lops' = lops + 1
    /\ UNCHANGED <<rows, token, walk>>

\* The JWT of a user is renewed.
NewToken(u) ==
    /\ token[u] # address[u]
    /\ token' = [token EXCEPT ![u] = address[u]]
    /\ UNCHANGED <<rows, address, hadAddress, walk, lops>>

\* The licenses that a learner lists: those of his address, and those of his user id.
OfLearner(u) == {l \in Listed : /\ rows[l].status \in {"assigned", "activated"}
                                /\ rows[l].email = token[u] \/ rows[l].owner = u}

\* The licenses that update_user_email_for_licenses_task updates: of any plan and status.
Outdated(u) == {l \in Listed : rows[l].owner = u}

\* GET /learner-licenses, which refreshes the e-mail when a license in the list has
\* another one.
LearnerLists(u) ==
    /\ \E l \in OfLearner(u) : rows[l].email # token[u]
    /\ rows' = [l \in Listed |-> IF l \in Outdated(u) THEN [rows[l] EXCEPT !.email = token[u]]
                                 ELSE rows[l]]
    /\ RowsMove(Outdated(u), "back")
    /\ UNCHANGED <<address, token, hadAddress>>

ListingNext ==
    \/ \E filter \in {"usable", "active_only", "none"} : WalkStart(filter)
    \/ WalkPage
    \/ \E l \in Listed : RevokeRow(l) \/ \E u \in Owners : ActivateRow(u, l)
    \/ AddRow
    \/ \E e \in Addresses : AssignRow(e)
    \/ \E u \in Owners : \/ \E e \in Addresses : NewAddress(u, e)
                         \/ NewToken(u) \/ LearnerLists(u)

ListingSpec == ListingInit /\ [][ListingNext]_listingVars

-----------------------------------------------------------------------------
(***************************************************************************)
(* Assignments and activations only move rows towards the front, and so do *)
(* not hide others: a walk that reached its last page has shown every      *)
(* license that was held and left alone since the walk began, also with an *)
(* estimated total, as long as no more are held than estimated.  When      *)
(* nothing changed, it showed each of them once.                           *)
(***************************************************************************)
WalkComplete ==
    walk.pc = "done" =>
      /\ /\ walk.moved # "back"
         /\ Estimated(walk.filter) => Cardinality(Held) <= Initially
         => walk.untouched \subseteq walk.seen
      /\ walk.moved = "none" => walk.again = {}

(***************************************************************************)
(* A license never carries an address that its user never had, although    *)
(* addresses change hands, and a list shows a learner the licenses that    *)
(* others activated under the address that is now his.                     *)
(***************************************************************************)
AddressOfOwner ==
    \A l \in Listed : rows[l].owner # NoOwner => rows[l].email \in hadAddress[rows[l].owner]
=============================================================================
