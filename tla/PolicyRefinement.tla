-------------------------- MODULE PolicyRefinement --------------------------
(***************************************************************************)
(* PolicyLifecycle as an implementation of PolicyService: what the objects *)
(* in the API server and the pods mean for the users of the cluster.  The  *)
(* caches, queues, versions and reconcilers are what it takes to get there *)
(* and do not show.                                                        *)
(***************************************************************************)
EXTENDS PolicyLifecycle

PhaseOf == [p \in Policies |-> policy[p].phase]
Registered == {p \in Policies : \E k \in WebhookKinds : webhook[p][k] # 0}
ListedPolicies == {p \in Policies : configMap[ServerOf[p]].gens[p] # 0}
KnownPolicies ==
    {p \in Policies : \A pod \in pods[ServerOf[p]] : pod.ready => pod.gens[p] # 0}

Service == INSTANCE PolicyService WITH
    ByHand <- "webhookDeleted" \in Faults,
    phase <- PhaseOf, serverPhase <- server, registered <- Registered,
    listed <- ListedPolicies, known <- KnownPolicies

\* The two reconcilers, which work on lagging caches and are interrupted between
\* any two writes, do nothing that PolicyService does not allow: each of their
\* writes is one of its steps, in its order, or does not show.
KeepsPromise == Service!Spec
=============================================================================
