---------------------------- MODULE AutoScaling ----------------------------
(***************************************************************************)
(* process_auto_scalable_plans: a nightly command that adds licenses to    *)
(* the current plan of an agreement when few of its licenses are left.     *)
(* Every use of plan.num_licenses is a query of its own, and nothing is    *)
(* locked between them and the insertion of the new licenses.              *)
(***************************************************************************)
EXTENDS Integers, FiniteSets

CONSTANTS
    ScaledPlans,    \* plans of the agreement, numbered by their start_date
    Threshold,      \* auto_scaling_threshold_percentage
    Increment,      \* auto_scaling_increment_percentage
    MaxScaled,      \* auto_scaling_max_licenses
    MaxPlanSize,    \* how large a plan may become otherwise (bound)
    MaxMoves        \* how often plans change otherwise (bound)

\* The validators of the two percentages.
Percentages == 1..100

ASSUME ScalingAssumption ==
    /\ ScaledPlans \subseteq Nat /\ IsFiniteSet(ScaledPlans)
    /\ Threshold \in Percentages /\ Increment \in Percentages
    /\ {MaxScaled, MaxPlanSize, MaxMoves} \subseteq Nat

VARIABLES
    size,       \* plan -> num_licenses
    taken,      \* plan -> num_allocated_licenses
    usable,     \* the plans that are active and current
    scaler,     \* the command
    moves       \* other changes so far (bounded by MaxMoves)

scalingVars == <<size, taken, usable, scaler, moves>>

ScalerIdle == [pc |-> "idle", plan |-> 0, counted |-> 0, add |-> 0]

ScalingInit ==
    /\ size \in [ScaledPlans -> {0, 2, 3}]
    /\ taken = [p \in ScaledPlans |-> 0]
    /\ usable = ScaledPlans
    /\ scaler = ScalerIdle
    /\ moves = 0

Moved == moves < MaxMoves /\ moves' = moves + 1

\* Assignments and revocations: a revoked license is replaced by an unassigned one.
SeatsTaken(p, n) ==
    /\ Moved /\ n \in 0..size[p] /\ taken' = [taken EXCEPT ![p] = n]
    /\ UNCHANGED <<size, usable, scaler>>

\* provision_licenses raises a plan to its desired number; a freeze lowers it.
Resized(p, n) ==
    /\ Moved /\ n \in taken[p]..MaxPlanSize /\ size' = [size EXCEPT ![p] = n]
    /\ UNCHANGED <<taken, usable, scaler>>

\* A plan is deactivated, or reactivated, or expires.
UsableChanges(p) ==
    /\ Moved
    /\ usable' = IF p \in usable THEN usable \ {p} ELSE usable \union {p}
    /\ UNCHANGED <<size, taken, scaler>>

\* The plan with the latest start_date among the active, current ones.
CurrentPlan == CHOOSE p \in usable : \A q \in usable : q <= p

\* unallocated percentage < 100 - threshold, of a plan that has licenses.
NeedsScaling(p) ==
    /\ size[p] > 0
    /\ (size[p] - taken[p]) * 100 < (100 - Threshold) * size[p]

Lesser(a, b) == IF a < b THEN a ELSE b

\* Mutant: the hard limit is taken for the number of licenses to add.
AdditionUpTo(p) == Lesser((size[p] * Increment) \div 100, MaxScaled)

\* int(min(num_licenses * factor, difference_from_upper_limit)); int() cuts off.
Addition(p) == Lesser((size[p] * Increment) \div 100, MaxScaled - size[p])

\* Mutant: the plan that started first.
ScalerChooseFirst ==
    /\ scaler.pc = "idle"
    /\ usable # {}
    /\ LET p == CHOOSE x \in usable : \A q \in usable : x <= q
       IN  NeedsScaling(p) /\ scaler' = [pc |-> "add", plan |-> p, counted |-> size[p], add |-> Addition(p)]
    /\ UNCHANGED <<size, taken, usable, moves>>

\* handle, up to the insertion; it does nothing when there is no plan or no need.
ScalerChoose ==
    /\ scaler.pc = "idle"
    /\ usable # {}
    /\ LET p == CurrentPlan
       IN  NeedsScaling(p) /\ scaler' = [pc |-> "add", plan |-> p, counted |-> size[p], add |-> Addition(p)]
    /\ UNCHANGED <<size, taken, usable, moves>>

\* increase_num_licenses: a negative number adds nothing.
ScalerAdd ==
    /\ scaler.pc = "add"
    /\ size' = [size EXCEPT ![scaler.plan] = @ + (IF scaler.add > 0 THEN scaler.add ELSE 0)]
    /\ scaler' = ScalerIdle
    /\ UNCHANGED <<taken, usable, moves>>

ScalingNext ==
    \/ \E p \in ScaledPlans : \E n \in 0..MaxPlanSize : SeatsTaken(p, n) \/ Resized(p, n)
    \/ \E p \in ScaledPlans : UsableChanges(p)
    \/ ScalerChoose \/ ScalerAdd

ScalingSpec == ScalingInit /\ [][ScalingNext]_scalingVars

\* Cron runs the command every night.
FairScalingSpec == ScalingSpec /\ WF_scalingVars(ScalerChoose \/ ScalerAdd)

-----------------------------------------------------------------------------
(***************************************************************************)
(* The hard limit: the command never takes a plan above                    *)
(* auto_scaling_max_licenses, unless other requests have added licenses    *)
(* since the command counted them; a plan that is above it already is left *)
(* alone.                                                                  *)
(***************************************************************************)
HardLimitKept ==
    [][scaler.pc = "add" /\ scaler'.pc = "idle" =>
         \A p \in ScaledPlans : size'[p] > size[p] /\ size[p] = scaler.counted =>
            size'[p] <= MaxScaled]_scalingVars

(***************************************************************************)
(* The plan that learners get licenses from does not stay short of them:   *)
(* while more than the threshold of the current plan is allocated and      *)
(* there is room below the limit, the command makes it grow, again and     *)
(* again until one of the two ends.  Where the increment of a small plan   *)
(* is cut to zero it never grows.                                          *)
(***************************************************************************)
ShortWithRoom ==
    \E p \in usable : /\ \A q \in usable : q <= p
                      /\ taken[p] * 100 > Threshold * size[p]
                      /\ size[p] < MaxScaled /\ size[p] * Increment >= 100

CurrentPlanScaled == []<>~ShortWithRoom

(***************************************************************************)
(* The command scales up a plan that needs it until it does not, and never *)
(* above the limit.                                                        *)
(***************************************************************************)
ScalingSound == HardLimitKept /\ CurrentPlanScaled
=============================================================================
