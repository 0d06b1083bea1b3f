--------------------------- MODULE Administration ---------------------------
(***************************************************************************)
(* What administrators and the jobs that work for them do to agreements,   *)
(* plans and renewals: the catalogs of plans and the subsidies that depend *)
(* on them, the records that schedule renewals, transfer jobs and auto-    *)
(* scaling, and what admins and learners read meanwhile.                   *)
(*                                                                         *)
(* The parts share no state that these models keep, except that the        *)
(* subsidies read the catalogs; a behaviour is one of one part, chosen by  *)
(* part, while the others rest.                                            *)
(***************************************************************************)
EXTENDS TransferJobs, AutoScaling, RenewalAdmin, Subsidy, Listing

VARIABLE part   \* the part that moves

administrationVars ==
    <<part, transferVars, scalingVars, renewalAdminVars, subsidyVars, listingVars>>

Parts == {"transfers", "scaling", "renewals", "plans", "subsidy", "listing"}

\* The parts that rest stay in one initial state; for the subsidies, the plans exist.
AdministrationInit ==
    /\ part \in Parts
    /\ TransferInit
    /\ ScalingInit /\ (part # "scaling" => \A p \in ScaledPlans : size[p] = 0)
    /\ RenewalAdminInit
    /\ SubsidyInit
    /\ ListingInit
    /\ part # "listing" => address = CHOOSE given \in [Owners -> Addresses] : IsInjective(given)
    /\ CASE part = "plans" -> TRUE
         [] part = "subsidy" -> \E k \in OwnCatalogs : \A p \in PPlans : planCatalog[p] = k
         [] OTHER -> \A p \in PPlans : ~PlanExists(p)

OthersRest ==
    /\ part' = part
    /\ part # "transfers" => UNCHANGED transferVars
    /\ part # "scaling" => UNCHANGED scalingVars
    /\ part # "renewals" => UNCHANGED renewalAdminVars
    /\ part \notin {"plans", "subsidy"} => UNCHANGED subsidyVars
    /\ part = "plans" => UNCHANGED subsidyOwnVars
    /\ part # "listing" => UNCHANGED listingVars

AdministrationNext ==
    \/ part = "transfers" /\ TransferNext /\ OthersRest
    \/ part = "scaling" /\ ScalingNext /\ OthersRest
    \/ part = "renewals" /\ RenewalAdminNext /\ OthersRest
    \/ part = "plans" /\ PlanAdminNext /\ OthersRest
    \/ part = "subsidy" /\ SubsidyNext /\ OthersRest
    \/ part = "listing" /\ ListingNext /\ OthersRest

\* Cron runs process_auto_scalable_plans every night.
AdministrationProgress == part = "scaling" /\ (ScalerChoose \/ ScalerAdd) /\ OthersRest

AdministrationSpec ==
    /\ AdministrationInit
    /\ [][AdministrationNext]_administrationVars
    /\ WF_administrationVars(AdministrationProgress)
=============================================================================
