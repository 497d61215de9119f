------------------------------ MODULE MCCaches ------------------------------
(***************************************************************************)
(* The caches for TLC, side by side: a behaviour is one of PageCache,      *)
(* RegionalCache, ComposableCache, MultiTierCache or Deployment, and the   *)
(* others stay in an initial state.  PageCache comes twice: with two sets, *)
(* one revalidation and a failure, and with one set and two revalidations  *)
(* without one.                                                            *)
(***************************************************************************)
EXTENDS PageCache, RegionalCache, ComposableCache, MultiTierCache, Deployment, TLC

CONSTANTS
    page, data, raw, \* a page, a fetch it makes with a tag, and one without
    hard, soft       \* the tag, and the tag of the page's path

VARIABLE part

MCKeys == {page, data, raw}
MCTagsOf == page :> {hard, soft} @@ data :> {hard} @@ raw :> {}
MCSoftOf == page :> {} @@ data :> {soft} @@ raw :> {soft}
MCPathOf == [k \in MCKeys |-> page]

MCInit ==
    /\ part \in {"pages", "revalidations", "region", "composable", "tiers", "deployment"}
    /\ PagesInit
    /\ RegionalInit
    /\ ComposableInit
    /\ TierInit
    /\ DeploymentInit
    /\ part \notin {"pages", "revalidations"} => mode = "nextMode"
    /\ part # "region" => purges

\* A get starts when a revalidation has returned, for it is promised nothing
\* before, and a behaviour ends with the answer.
Answers == \A g \in Gets : get[g] # "hit" /\ (get'[g] = "idle" \/ past'[g] # {})

PagesPart ==
    /\ PagesNext
    /\ Answers
    /\ part = "pages" => Cardinality({r \in Revalidations : reval'[r] # "idle"}) < 2
    /\ part = "revalidations" =>
          /\ Cardinality({s \in Sets : set'[s] # "idle"}) < 2
          /\ \A s \in Sets : set'[s] # "idle" => setKey'[s] = page
          /\ UNCHANGED faults

MCNext ==
    /\ UNCHANGED part
    /\ \/ part \in {"pages", "revalidations"} /\ PagesPart /\ UNCHANGED <<regionVars, composableVars, tierVars, deploymentVars>>
       \/ part = "region" /\ RegionalNext /\ UNCHANGED <<pageVars, composableVars, tierVars, deploymentVars>>
       \/ part = "composable" /\ ComposableNext /\ UNCHANGED <<pageVars, regionVars, tierVars, deploymentVars>>
       \/ part = "tiers" /\ TierNext /\ UNCHANGED <<pageVars, regionVars, composableVars, deploymentVars>>
       \/ part = "deployment" /\ DeploymentNext /\ UNCHANGED <<pageVars, regionVars, composableVars, tierVars>>

MCSpec == MCInit /\ [][MCNext]_<<part, pageVars, regionVars, composableVars, tierVars, deploymentVars>>

Alike == Permutations(Sets) \cup Permutations(Revalidations)

\* Every variable of the part that takes steps has its type.
CachesTypeOK ==
    /\ part \in {"pages", "revalidations"} => PagesTypeOK
    /\ part = "region" => RegionalTypeOK
    /\ part = "composable" => ComposableTypeOK
    /\ part = "tiers" => TierTypeOK
    /\ part = "deployment" => DeploymentTypeOK

=============================================================================
