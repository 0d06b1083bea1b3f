----------------------------- MODULE PlanAdmin -----------------------------
(***************************************************************************)
(* The catalog of a subscription plan: POST and PATCH of the provisioning  *)
(* endpoints, the admin forms of plans and agreements, and the default     *)
(* catalog of the agreement, which a plan without its own takes over.      *)
(*                                                                         *)
(* A request validates its catalog with the catalog service and saves the  *)
(* whole row afterwards, so that requests overlap between the two.         *)
(***************************************************************************)
EXTENDS Naturals, FiniteSets

CONSTANTS
    PPlans,         \* titles of the agreement's plans, numbered by their expiration date
    OwnCatalogs,    \* catalogs of the agreement's customer
    OtherCatalogs,  \* catalogs of other customers
    NoCatalog,      \* NULL, or a field left blank
    Editors,        \* web workers
    MaxPOps         \* requests (bound)

ASSUME PlanAdminAssumption ==
    /\ PPlans \subseteq Nat \ {0} /\ IsFiniteSet(PPlans)
    /\ OwnCatalogs \intersect OtherCatalogs = {}
    /\ NoCatalog \notin OwnCatalogs \union OtherCatalogs
    /\ MaxPOps \in Nat

VARIABLES
    defaultCatalog, \* default_enterprise_catalog_uuid of the agreement
    planCatalog,    \* plan -> enterprise_catalog_uuid, NoCatalog when there is no plan
    preq,           \* editor -> the request it serves
    unchecked,      \* other customers' catalogs that a PATCH made the default
    pops            \* requests so far (bounded by MaxPOps)

planAdminVars == <<defaultCatalog, planCatalog, preq, unchecked, pops>>

Catalogs == OwnCatalogs \union OtherCatalogs
PIdle == [pc |-> "idle", plan |-> 0, catalog |-> NoCatalog]

PlanAdminInit ==
    /\ defaultCatalog = NoCatalog
    /\ planCatalog \in [PPlans -> OwnCatalogs \union {NoCatalog}]
    /\ preq = [w \in Editors |-> PIdle]
    /\ unchecked = {}
    /\ pops = 0

Requested == pops < MaxPOps /\ pops' = pops + 1
PlanExists(p) == planCatalog[p] # NoCatalog
Or(catalog, fallback) == IF catalog # NoCatalog THEN catalog ELSE fallback

-----------------------------------------------------------------------------
\* validate_enterprise_catalog_uuid, and the methods of the forms: the catalog
\* service knows the catalog and says that it is the customer's.  Any error of the
\* service refuses the request, so an answer is all that matters here.
ValidCatalog(catalog) == catalog \in OwnCatalogs

\* PATCH of an agreement: the serializer takes any catalog, or none.
PatchAgreement(catalog) ==
    /\ Requested
    /\ defaultCatalog' = catalog
    /\ unchecked' = unchecked \union ({catalog} \intersect OtherCatalogs)
    /\ UNCHANGED <<planCatalog, preq>>

\* The admin form of an agreement.
SaveAgreementForm(catalog) ==
    /\ Requested
    /\ catalog # NoCatalog => ValidCatalog(catalog)
    /\ defaultCatalog' = catalog
    /\ UNCHANGED <<planCatalog, preq, unchecked>>

Serve(w, pc, p, catalog) ==
    /\ Requested
    /\ preq[w] = PIdle
    /\ preq' = [preq EXCEPT ![w] = [pc |-> pc, plan |-> p, catalog |-> catalog]]
    /\ UNCHANGED <<defaultCatalog, planCatalog, unchecked>>

\* POST of a plan: the default replaces a missing catalog before it is validated.
CreatePlan(w, p, catalog) ==
    /\ ~PlanExists(p)
    /\ Or(catalog, defaultCatalog) # NoCatalog
    /\ ValidCatalog(Or(catalog, defaultCatalog))
    /\ Serve(w, "insert", p, Or(catalog, defaultCatalog))

\* Mutant: the row that was read is validated, not the catalog of the request.
PatchPlanAny(w, p, catalog) ==
    /\ PlanExists(p)
    /\ catalog # NoCatalog => ValidCatalog(planCatalog[p])
    /\ Serve(w, "update", p, Or(catalog, planCatalog[p]))

\* PATCH of a plan: the row is read, and its catalog stays unless the request names
\* one.
PatchPlan(w, p, catalog) ==
    /\ PlanExists(p)
    /\ catalog # NoCatalog => ValidCatalog(catalog)
    /\ Serve(w, "update", p, Or(catalog, planCatalog[p]))

\* The admin form of a plan, new or not, and save_model: a catalog that the form
\* names is validated, the default that replaces a blank one is not.
SavePlanForm(w, p, catalog) ==
    /\ catalog # NoCatalog => ValidCatalog(catalog)
    /\ Or(catalog, defaultCatalog) # NoCatalog
    /\ Serve(w, IF PlanExists(p) THEN "update" ELSE "insert", p, Or(catalog, defaultCatalog))

\* The whole row is written; an insert fails when the title was taken meanwhile.
SavePlan(w) ==
    LET p == preq[w].plan
    IN  /\ preq[w].pc # "idle"
        /\ planCatalog' = IF preq[w].pc = "insert" /\ PlanExists(p) THEN planCatalog
                          ELSE [planCatalog EXCEPT ![p] = preq[w].catalog]
        /\ preq' = [preq EXCEPT ![w] = PIdle]
        /\ UNCHANGED <<defaultCatalog, unchecked, pops>>

\* renew_subscription creates the next plan with the catalog of the prior plan.
RenewedCatalog(p, q) ==
    /\ Requested
    /\ PlanExists(p) /\ ~PlanExists(q)
    /\ planCatalog' = [planCatalog EXCEPT ![q] = planCatalog[p]]
    /\ UNCHANGED <<defaultCatalog, preq, unchecked>>

PlanAdminNext ==
    \/ \E catalog \in Catalogs \union {NoCatalog} : PatchAgreement(catalog) \/ SaveAgreementForm(catalog)
    \/ \E w \in Editors, p \in PPlans, catalog \in Catalogs \union {NoCatalog} :
          CreatePlan(w, p, catalog) \/ PatchPlan(w, p, catalog) \/ SavePlanForm(w, p, catalog)
    \/ \E w \in Editors : SavePlan(w)
    \/ \E p, q \in PPlans : RenewedCatalog(p, q)

PlanAdminSpec == PlanAdminInit /\ [][PlanAdminNext]_planAdminVars

-----------------------------------------------------------------------------
(***************************************************************************)
(* The catalog of another customer gets into a plan only by way of a PATCH *)
(* of the agreement, which nothing validates: neither the fallback to the  *)
(* default, nor requests that save a row they read long ago, nor a renewal *)
(* of a plan lets in another one.                                          *)
(***************************************************************************)
CatalogOfCustomer == \A p \in PPlans : planCatalog[p] \in OtherCatalogs => planCatalog[p] \in unchecked
=============================================================================
