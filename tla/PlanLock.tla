------------------------------ MODULE PlanLock ------------------------------
(***************************************************************************)
(* The cache entry that serves as the lock of a subscription plan.         *)
(*                                                                         *)
(* acquire_subscription_plan_lock is two calls on a shared cache: a get,   *)
(* and a set when nothing was found.  release_subscription_plan_lock       *)
(* deletes the entry whoever set it.  The entry also disappears when its   *)
(* timeout has passed, whether or not its holder still runs.               *)
(***************************************************************************)
EXTENDS FiniteSets

VARIABLE lock   \* does the cache hold the plan's entry?

LockState == {"free", "held"}

LockInit == lock = "free"

\* The get of acquire_subscription_plan_lock finds no entry.
LockMissed == lock = "free" /\ UNCHANGED lock

\* The set that follows it.
LockSet == lock' = "held"

\* release_subscription_plan_lock: delete_all_tiers.
LockReleased == lock' = "free"

\* Mutant: the entry is set without a timeout.
LockNeverTimesOut == FALSE /\ UNCHANGED lock

\* The cache drops the entry after django_cache_timeout.
LockTimesOut == lock = "held" /\ lock' = "free"
=============================================================================
