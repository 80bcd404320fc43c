------------------------- MODULE PolicyServiceProofs -------------------------
(***************************************************************************)
(* That PolicyLifecycle implements PolicyService, for any number of        *)
(* policies, PolicyServers, pods and writes.                               *)
(***************************************************************************)
EXTENDS PodServiceProofs, PolicyRefinement

USE DEF policyVars, serverVars, workloadVars, cacheVars, queueVars, clusterVars,
        controllerVars

\* The object a policy reconciliation is about to register has been created.
CopyExists == \A p \in Policies : pr[p].pc = "webhook" => pr[p].obj.gen # 0

\* Every step of the policy reconciler keeps it.
LEMMA PolicyStepCopyExists ==
    ASSUME Inv, CopyExists, NEW p \in Policies, ReconcilePolicy(p)
    PROVE  CopyExists'
<1>1. \A q \in Policies : q # p => pr'[q] = pr[q]
  BY DEF Inv, TypeOK, ReconcilePolicy, PolicyNotFound, PolicyScheduled, PolicyWaits,
     PolicyReachable, PolicyBegin, Proceed, ReconcileWebhook, WebhookFails, UpdateStatus,
     StatusFails, ReconcileWebhookDeletion, RemovePolicyFinalizer, PolicyFinalizeFails
<1>2. CASE PolicyReachable(p)
  BY <1>1, <1>2 DEF PolicyReachable, PolicyBegin, Proceed, Inv, TypeOK, Order,
     PolicyCacheBehind, CopyExists
<1>3. ASSUME ~PolicyReachable(p) PROVE pr'[p].pc # "webhook" \/ UNCHANGED pr
  <2>1. CASE PolicyNotFound(p)
    BY <2>1 DEF PolicyNotFound
  <2>2. CASE PolicyScheduled(p)
    BY <2>2 DEF Inv, TypeOK, PolicyScheduled, PolicyBegin, Proceed
  <2>3. CASE PolicyWaits(p)
    <3>1. PICK out : PolicyBegin(p, "status", out, TRUE)
      BY <2>3 DEF PolicyWaits
    <3> QED
      BY <3>1 DEF PolicyBegin, Inv, TypeOK, Proceed
  <2>4. CASE ReconcileWebhook(p)
    BY <2>4 DEF Inv, TypeOK, ReconcileWebhook, Proceed
  <2>5. CASE WebhookFails(p)
    BY <2>5 DEF Inv, TypeOK, WebhookFails, Proceed
  <2>6. CASE UpdateStatus(p) \/ StatusFails(p)
    <3>1. pr' = [pr EXCEPT ![p] = IdlePolicy]
      BY <2>6 DEF UpdateStatus, StatusFails
    <3> QED
      BY <3>1 DEF Inv, TypeOK, IdlePolicy
  <2>7. CASE ReconcileWebhookDeletion(p)
    BY <2>7 DEF Inv, TypeOK, ReconcileWebhookDeletion, Proceed
  <2>8. CASE RemovePolicyFinalizer(p) \/ PolicyFinalizeFails(p)
    <3>1. pr' = [pr EXCEPT ![p] = IdlePolicy]
      BY <2>8 DEF RemovePolicyFinalizer, PolicyFinalizeFails
    <3> QED
      BY <3>1 DEF Inv, TypeOK, IdlePolicy
  <2> QED
    BY <1>3, <2>1, <2>2, <2>3, <2>4, <2>5, <2>6, <2>7, <2>8 DEF ReconcilePolicy
<1> QED
  BY <1>1, <1>2, <1>3 DEF CopyExists

\* And so does every other step.
LEMMA CopyExistsHolds == ASSUME Benign PROVE Spec => []CopyExists
<1>1. Init => CopyExists
  BY DEF Init, IdlePolicy, CopyExists
<1>2. Inv /\ CopyExists /\ [Next]_vars => CopyExists'
  <2> SUFFICES ASSUME Inv, CopyExists, [Next]_vars PROVE CopyExists'
    OBVIOUS
  <2>1. CASE UNCHANGED pr
    BY <2>1 DEF CopyExists
  <2>2. CASE Crash
    BY <2>2 DEF Crash, IdlePolicy, CopyExists
  <2>3. ASSUME NEW s \in Servers, \/ InformServer(s) \/ ResyncServer(s) \/ ReconcileServer(s)
                                 \/ Kubernetes(s) \/ PodFaults(s)
        PROVE  UNCHANGED pr
    <3>1. CASE ReconcileServer(s)
      BY <3>1 DEF ReconcileServer, ServerNotFound, ServerBegin, ReconcileConfigMap,
         ReconcileDeployment, UpdateServerStatus, ServerFails, DeletePoliciesAndRequeue,
         ServerBeginFinalize, RemoveServerFinalizer, ServerFinalizeConflict
    <3>2. CASE InformServer(s) \/ ResyncServer(s)
      BY <3>2 DEF InformServer, ResyncServer, SyncServer, SyncConfigMap, SyncDeployment,
         SyncPods
    <3>3. CASE Kubernetes(s) \/ PodFaults(s)
      BY <3>3 DEF Kubernetes, PodFaults, CollectConfigMap, CollectDeployment, RollOut,
         PodReady, StopPod, CreatePod, RestartPod
    <3> QED
      BY <2>3, <3>1, <3>2, <3>3
  <2>4. ASSUME NEW p \in Policies, InformPolicy(p) \/ ResyncPolicy(p) PROVE UNCHANGED pr
    BY <2>4 DEF InformPolicy, ResyncPolicy, SyncPolicy, SyncWebhook
  <2>5. ASSUME Users PROVE UNCHANGED pr
    BY <2>5 DEF Users, CreatePolicy, UpdatePolicy, DeletePolicy, DeleteWebhook, CreateServer,
       DeleteServer
  <2> QED
    BY <2>1, <2>2, <2>3, <2>4, <2>5, PolicyStepCopyExists DEF Next, vars
<1> QED
  BY <1>1, <1>2, InvHolds, PTL DEF Spec

-----------------------------------------------------------------------------

\* At the start there is nothing to promise.
LEMMA InitPromise == Init => Service!Init
<1> SUFFICES ASSUME Init PROVE Service!Init
  OBVIOUS
<1>1. PhaseOf = [p \in Policies |-> "absent"]
  BY DEF Init, NoPolicy, PhaseOf
<1>2. Registered = {}
  BY DEF Init, NoWebhooks, Registered
<1>3. ListedPolicies = {}
  BY ConstantsAssumption DEF Init, NoConfigMap, NoPolicies, ListedPolicies
<1>4. KnownPolicies = Policies
  BY ConstantsAssumption DEF Init, KnownPolicies
<1> QED
  BY <1>1, <1>2, <1>3, <1>4 DEF Service!Init, Init

\* What does not show.
LEMMA Hidden ==
    ASSUME UNCHANGED <<policy, webhook, server, configMap, pods>>
    PROVE  UNCHANGED Service!vars
  BY DEF Service!vars, PhaseOf, Registered, ListedPolicies, KnownPolicies

-----------------------------------------------------------------------------
(* Users *)

\* A policy is created where no webhook configuration of its name is left.
LEMMA CreatePolicyPromise ==
    ASSUME Inv, Inv', Benign, NEW p \in Policies, NEW m \in MutatingValues, CreatePolicy(p, m)
    PROVE  Service!Next
<1>1. PhaseOf[p] = "absent" /\ PhaseOf' = [PhaseOf EXCEPT ![p] = "live"]
  BY DEF CreatePolicy, WritePolicy, PhaseOf, Inv, TypeOK
<1>2. p \notin Registered
  BY DEF CreatePolicy, Registered, Inv, Order, RegisteredHolds, Exists
<1>3. UNCHANGED <<server, Registered, ListedPolicies, KnownPolicies>>
  BY DEF CreatePolicy, Registered, ListedPolicies, KnownPolicies
<1>4. Service!Create(p)
  BY <1>1, <1>2, <1>3 DEF Service!Create
<1> QED
  BY <1>4 DEF Service!Next

\* A new generation of a policy does not show.
LEMMA UpdatePolicyPromise ==
    ASSUME Inv, NEW p \in Policies, NEW m \in MutatingValues, UpdatePolicy(p, m)
    PROVE  UNCHANGED Service!vars
<1>1. UNCHANGED PhaseOf
  BY DEF UpdatePolicy, WritePolicy, PhaseOf, Inv, TypeOK
<1>2. UNCHANGED <<server, Registered, ListedPolicies, KnownPolicies>>
  BY DEF UpdatePolicy, Registered, ListedPolicies, KnownPolicies
<1> QED
  BY <1>1, <1>2 DEF Service!vars

\* A user deletes one policy.
LEMMA DeletePolicyPromise ==
    ASSUME Inv, NEW p \in Policies, DeletePolicy(p)
    PROVE  Service!Next
<1>1. PhaseOf[p] = "live"
  BY DEF DeletePolicy, PhaseOf
<1>2. PhaseOf' = [q \in Policies |-> IF q \in {p} THEN "deleting" ELSE PhaseOf[q]]
  BY DEF DeletePolicy, WritePolicy, PhaseOf, Inv, TypeOK, PolicyObject
<1>3. UNCHANGED <<server, Registered, ListedPolicies, KnownPolicies>>
  BY DEF DeletePolicy, Registered, ListedPolicies, KnownPolicies
<1>4. Service!Delete({p})
  BY <1>1, <1>2, <1>3 DEF Service!Delete
<1> QED
  BY <1>4 DEF Service!Next

\* A webhook configuration goes by hand, or not at all.
LEMMA DeleteWebhookPromise ==
    ASSUME Inv, NEW p \in Policies, NEW k \in WebhookKinds, DeleteWebhook(p, k)
    PROVE  Service!Next \/ UNCHANGED Service!vars
<1>1. UNCHANGED <<PhaseOf, server, ListedPolicies, KnownPolicies>>
  BY DEF DeleteWebhook, PhaseOf, ListedPolicies, KnownPolicies
<1>2. \A q \in Policies : q # p => webhook'[q] = webhook[q]
  BY DEF DeleteWebhook, Inv, TypeOK
<1>3. \A j \in WebhookKinds : webhook'[p][j] # 0 => webhook[p][j] # 0
  BY DEF DeleteWebhook, Inv, TypeOK
<1>4. CASE p \in Registered'
  <2>1. UNCHANGED Registered
    BY <1>2, <1>3, <1>4 DEF Registered
  <2> QED
    BY <1>1, <2>1 DEF Service!vars
<1>5. CASE p \notin Registered'
  <2>1. Registered' = Registered \ {p}
    BY <1>2, <1>5 DEF Registered
  <2>2. Service!Unregister(p)
    BY <1>1, <2>1 DEF Service!Unregister, DeleteWebhook
  <2> QED
    BY <2>2 DEF Service!Next
<1> QED
  BY <1>4, <1>5

\* A PolicyServer is created.
LEMMA CreateServerPromise ==
    ASSUME Inv, NEW s \in Servers, CreateServer(s)
    PROVE  Service!Next
<1>1. UNCHANGED <<PhaseOf, Registered, ListedPolicies, KnownPolicies>>
  BY DEF CreateServer, PhaseOf, Registered, ListedPolicies, KnownPolicies
<1>2. Service!CreateServer(s)
  BY <1>1 DEF Service!CreateServer, CreateServer
<1> QED
  BY <1>2 DEF Service!Next

\* A PolicyServer is marked as deleted.
LEMMA DeleteServerPromise ==
    ASSUME Inv, NEW s \in Servers, DeleteServer(s)
    PROVE  Service!Next
<1>1. UNCHANGED <<PhaseOf, Registered, ListedPolicies, KnownPolicies>>
  BY DEF DeleteServer, PhaseOf, Registered, ListedPolicies, KnownPolicies
<1>2. Service!DeleteServer(s)
  BY <1>1 DEF Service!DeleteServer, DeleteServer
<1> QED
  BY <1>2 DEF Service!Next

-----------------------------------------------------------------------------
(* The policy reconciler *)

\* The webhook is registered for a policy that exists, is listed and is known to
\* all pods.
LEMMA ReconcileWebhookPromise ==
    ASSUME Inv, Inv', CopyExists, EveryPodServes', NEW p \in Policies, ReconcileWebhook(p)
    PROVE  Service!Next \/ UNCHANGED Service!vars
<1>1. UNCHANGED <<policy, server, configMap, pods>>
  BY DEF ReconcileWebhook
<1>2. UNCHANGED <<PhaseOf, ListedPolicies, KnownPolicies>>
  BY <1>1 DEF PhaseOf, ListedPolicies, KnownPolicies
<1>3. \A q \in Policies : q # p => webhook'[q] = webhook[q]
  BY DEF ReconcileWebhook, Inv, TypeOK
<1>4. \A j \in WebhookKinds : webhook[p][j] # 0 => webhook'[p][j] # 0
  <2>1. CASE UNCHANGED webhook
    BY <2>1
  <2>2. CASE webhook' = [webhook EXCEPT ![p][KindOf(pr[p].obj)] = pr[p].obj.gen]
             /\ pr[p].obj.gen # 0
    BY <2>2 DEF Inv, TypeOK
  <2> QED
    BY <2>1, <2>2 DEF ReconcileWebhook, CopyExists
<1>5. CASE p \notin Registered'
  <2>1. UNCHANGED Registered
    BY <1>3, <1>4, <1>5 DEF Registered
  <2> QED
    BY <1>1, <1>2, <2>1 DEF Service!vars
<1>6. CASE p \in Registered'
  <2>1. Registered' = Registered \cup {p}
    BY <1>3, <1>6 DEF Registered
  <2>2. PhaseOf'[p] # "absent" /\ p \in ListedPolicies'
    BY <1>6 DEF Registered, PhaseOf, ListedPolicies, Inv, Order, RegisteredHolds, Exists, Listed
  <2>3. p \in KnownPolicies'
    BY <1>6 DEF Registered, KnownPolicies, EveryPodServes
  <2>4. server'[ServerOf[p]] # "absent"
    <3>1. Exists(p)' /\ Listed(ServerOf[p], p)'
      BY Zenon, <1>6 DEF Registered, Inv, Order, RegisteredHolds
    <3>2. ServerOf[p] \in Servers
      BY Zenon, ConstantsAssumption
    <3>3. Gone(p)' \/ server'[ServerOf[p]] # "absent"
      BY Zenon, <3>1, <3>2 DEF Inv, Order, ListedIsKnown
    <3> QED
      BY Zenon, <3>1, <3>3 DEF Gone, Exists
  <2>5. Service!Register(p)
    BY <1>1, <1>2, <2>1, <2>2, <2>3, <2>4 DEF Service!Register
  <2> QED
    BY <2>5 DEF Service!Next
<1> QED
  BY <1>5, <1>6

\* A webhook that goes is that of a policy being deleted.
LEMMA ReconcileWebhookDeletionPromise ==
    ASSUME Inv, NEW p \in Policies, ReconcileWebhookDeletion(p)
    PROVE  Service!Next \/ UNCHANGED Service!vars
<1>1. UNCHANGED <<PhaseOf, server, ListedPolicies, KnownPolicies>>
  BY DEF ReconcileWebhookDeletion, PhaseOf, ListedPolicies, KnownPolicies
<1>2. \A q \in Policies : q # p => webhook'[q] = webhook[q]
  BY DEF ReconcileWebhookDeletion, Inv, TypeOK
<1>3. \A j \in WebhookKinds : webhook'[p][j] # 0 => webhook[p][j] # 0
  BY DEF ReconcileWebhookDeletion, RemainingWebhooks, Inv, TypeOK
<1>4. CASE p \in Registered' \/ p \notin Registered
  <2>1. UNCHANGED Registered
    BY <1>2, <1>3, <1>4 DEF Registered
  <2> QED
    BY <1>1, <2>1 DEF Service!vars
<1>5. CASE p \notin Registered' /\ p \in Registered
  <2>1. Registered' = Registered \ {p}
    BY <1>2, <1>5 DEF Registered
  <2>2. PhaseOf[p] = "deleting"
    BY <1>5 DEF ReconcileWebhookDeletion, PhaseOf, Registered, Inv, TypeOK, PolicyObject, Order,
       PolicyCacheBehind, RegisteredHolds, Exists
  <2>3. Service!Unregister(p)
    BY <1>1, <2>1, <2>2 DEF Service!Unregister
  <2> QED
    BY <2>3 DEF Service!Next
<1> QED
  BY <1>4, <1>5

\* A policy goes when its webhook is gone.
LEMMA RemovePolicyFinalizerPromise ==
    ASSUME Inv, NEW p \in Policies, RemovePolicyFinalizer(p)
    PROVE  Service!Next
<1>1. PhaseOf[p] = "deleting" /\ p \notin Registered
  BY DEF RemovePolicyFinalizer, PhaseOf, Registered, Inv, Order, PolicyReconcilerHolds
<1>2. PhaseOf' = [PhaseOf EXCEPT ![p] = "absent"]
  <2>1. policy' = [policy EXCEPT ![p] = [policy[p] EXCEPT !.phase = "absent"]]
    BY DEF RemovePolicyFinalizer, WritePolicy
  <2>2. policy \in [Policies -> PolicyObject]
    BY DEF Inv, TypeOK
  <2>3. \A q \in Policies : policy'[q].phase = IF q = p THEN "absent" ELSE policy[q].phase
    BY <2>1, <2>2 DEF PolicyObject
  <2> QED
    BY <2>3 DEF PhaseOf
<1>3. UNCHANGED <<server, Registered, ListedPolicies, KnownPolicies>>
  BY DEF RemovePolicyFinalizer, Registered, ListedPolicies, KnownPolicies
<1>4. Service!Remove(p)
  BY <1>1, <1>2, <1>3 DEF Service!Remove
<1> QED
  BY <1>4 DEF Service!Next

-----------------------------------------------------------------------------
(* The PolicyServer reconciler *)

\* The policies of a PolicyServer being deleted are deleted together.
LEMMA DeletePoliciesPromise ==
    ASSUME Inv, NEW s \in Servers, DeletePoliciesAndRequeue(s)
    PROVE  Service!Next
<1>1. PICK hit \in SUBSET Policies :
          /\ \A p \in hit : policy[p].phase = "live"
          /\ policy' = [p \in Policies |->
                 IF p \in hit THEN [policy[p] EXCEPT !.phase = "deleting"] ELSE policy[p]]
  BY DEF DeletePoliciesAndRequeue
<1>2. PhaseOf' = [p \in Policies |-> IF p \in hit THEN "deleting" ELSE PhaseOf[p]]
  BY <1>1 DEF PhaseOf, Inv, TypeOK, PolicyObject
<1>3. UNCHANGED <<server, Registered, ListedPolicies, KnownPolicies>>
  BY DEF DeletePoliciesAndRequeue, Registered, ListedPolicies, KnownPolicies
<1>4. Service!Delete(hit)
  BY <1>1, <1>2, <1>3 DEF Service!Delete, PhaseOf
<1> QED
  BY <1>4 DEF Service!Next

\* What changes the ConfigMap of one PolicyServer keeps the registered policies.
LEMMA ConfigMapPromise ==
    ASSUME Inv, Inv', NEW s \in Servers, UNCHANGED <<policy, webhook, server, pods>>,
           \A r \in Servers : r # s => configMap'[r] = configMap[r]
    PROVE  Service!Next
<1>1. UNCHANGED <<PhaseOf, Registered, KnownPolicies>>
  BY DEF PhaseOf, Registered, KnownPolicies
<1>2. \A p \in Policies : ServerOf[p] # s => (p \in ListedPolicies' <=> p \in ListedPolicies)
  BY ConstantsAssumption DEF ListedPolicies
<1>3. \A p \in Registered' : p \in ListedPolicies'
  BY DEF Registered, ListedPolicies, Inv, Order, RegisteredHolds, Listed
<1>4. ListedPolicies \subseteq Policies /\ ListedPolicies' \subseteq Policies
  BY DEF ListedPolicies
<1>5. Service!Configure(s)
  BY <1>1, <1>2, <1>3, <1>4 DEF Service!Configure, Service!Bound
<1> QED
  BY <1>5 DEF Service!Next

\* What changes the pods of one PolicyServer keeps the registered policies known.
LEMMA PodsPromise ==
    ASSUME Inv, EveryPodServes', NEW s \in Servers,
           UNCHANGED <<policy, webhook, server, configMap>>,
           \A r \in Servers : r # s => pods'[r] = pods[r]
    PROVE  Service!Next
<1>1. UNCHANGED <<PhaseOf, Registered, ListedPolicies>>
  BY DEF PhaseOf, Registered, ListedPolicies
<1>2. \A p \in Policies : ServerOf[p] # s => (p \in KnownPolicies' <=> p \in KnownPolicies)
  BY ConstantsAssumption DEF KnownPolicies
<1>3. \A p \in Registered' : p \in KnownPolicies'
  BY DEF Registered, KnownPolicies, EveryPodServes
<1>4. KnownPolicies \subseteq Policies /\ KnownPolicies' \subseteq Policies
  BY DEF KnownPolicies
<1>5. Service!ChangePods(s)
  BY <1>1, <1>2, <1>3, <1>4 DEF Service!ChangePods, Service!Bound
<1> QED
  BY <1>5 DEF Service!Next

\* A PolicyServer goes when the policies its ConfigMap lists are gone.
LEMMA RemoveServerFinalizerPromise ==
    ASSUME Inv, NEW s \in Servers, RemoveServerFinalizer(s)
    PROVE  Service!Next
<1>1. server[s] = "deleting" /\ \A p \in Policies : Listed(s, p) => Gone(p)
  BY DEF RemoveServerFinalizer, Inv, Order, ServerReconcilerKeeps
<1>2. \A p \in Service!Bound(s) \cap ListedPolicies : PhaseOf[p] = "absent"
  BY <1>1 DEF Service!Bound, ListedPolicies, PhaseOf, Listed, Gone
<1>3. UNCHANGED <<PhaseOf, Registered, ListedPolicies, KnownPolicies>>
  BY DEF RemoveServerFinalizer, PhaseOf, Registered, ListedPolicies, KnownPolicies
<1>4. Service!RemoveServer(s)
  BY <1>1, <1>2, <1>3 DEF Service!RemoveServer, RemoveServerFinalizer
<1> QED
  BY <1>4 DEF Service!Next

-----------------------------------------------------------------------------

\* Every step is one of PolicyService, or does not show.
LEMMA StepPromise ==
    ASSUME Inv, Inv', CopyExists, EveryPodServes', Benign, Next
    PROVE  Service!Next \/ UNCHANGED Service!vars
<1>1. CASE Users
  BY <1>1, CreatePolicyPromise, UpdatePolicyPromise, DeletePolicyPromise, DeleteWebhookPromise,
     CreateServerPromise, DeleteServerPromise, Zenon DEF Users
<1>2. ASSUME NEW p \in Policies, InformPolicy(p) \/ ResyncPolicy(p)
      PROVE  UNCHANGED Service!vars
  BY <1>2, Hidden DEF InformPolicy, ResyncPolicy, SyncPolicy, SyncWebhook
<1>3. ASSUME NEW p \in Policies, ReconcilePolicy(p)
      PROVE  Service!Next \/ UNCHANGED Service!vars
  <2>1. CASE ReconcileWebhook(p) \/ ReconcileWebhookDeletion(p) \/ RemovePolicyFinalizer(p)
    BY <2>1, ReconcileWebhookPromise, ReconcileWebhookDeletionPromise,
       RemovePolicyFinalizerPromise, Zenon
  <2>2. ASSUME \/ PolicyNotFound(p) \/ PolicyScheduled(p) \/ PolicyWaits(p)
               \/ PolicyReachable(p) \/ WebhookFails(p) \/ UpdateStatus(p) \/ StatusFails(p)
               \/ PolicyFinalizeFails(p)
        PROVE  UNCHANGED <<policy, webhook, server, configMap, pods>>
    BY <2>2 DEF PolicyNotFound, PolicyScheduled, PolicyWaits, PolicyReachable, PolicyBegin,
       WebhookFails, UpdateStatus, StatusFails, PolicyFinalizeFails
  <2> QED
    BY <1>3, <2>1, <2>2, Hidden, Zenon DEF ReconcilePolicy
<1>4. ASSUME NEW s \in Servers, InformServer(s) \/ ResyncServer(s)
      PROVE  UNCHANGED Service!vars
  BY <1>4, Hidden DEF InformServer, ResyncServer, SyncServer, SyncConfigMap, SyncDeployment,
     SyncPods
<1>5. ASSUME NEW s \in Servers, ReconcileServer(s)
      PROVE  Service!Next \/ UNCHANGED Service!vars
  <2>1. CASE DeletePoliciesAndRequeue(s) \/ RemoveServerFinalizer(s)
    BY <2>1, DeletePoliciesPromise, RemoveServerFinalizerPromise, Zenon
  <2>2. CASE ReconcileConfigMap(s)
    <3>1. /\ UNCHANGED <<policy, webhook, server, pods>>
          /\ \A r \in Servers : r # s => configMap'[r] = configMap[r]
      BY <2>2 DEF ReconcileConfigMap, Inv, TypeOK
    <3> QED
      BY <3>1, ConfigMapPromise
  <2>3. ASSUME \/ ServerNotFound(s) \/ ServerBegin(s) \/ ReconcileDeployment(s)
               \/ UpdateServerStatus(s) \/ ServerFails(s) \/ ServerBeginFinalize(s)
               \/ ServerFinalizeConflict(s)
        PROVE  UNCHANGED <<policy, webhook, server, configMap, pods>>
    BY <2>3 DEF ServerNotFound, ServerBegin, ReconcileDeployment, UpdateServerStatus,
       ServerFails, ServerBeginFinalize, ServerFinalizeConflict
  <2> QED
    BY <1>5, <2>1, <2>2, <2>3, Hidden, Zenon DEF ReconcileServer
<1>6. ASSUME NEW s \in Servers, Kubernetes(s) \/ PodFaults(s)
      PROVE  Service!Next
  <2>1. CASE CollectConfigMap(s)
    <3>1. /\ UNCHANGED <<policy, webhook, server, pods>>
          /\ \A r \in Servers : r # s => configMap'[r] = configMap[r]
      BY <2>1 DEF CollectConfigMap, Inv, TypeOK
    <3> QED
      BY <3>1, ConfigMapPromise
  <2>2. ASSUME CollectDeployment(s) \/ RollOut(s) \/ PodReady(s) \/ StopPod(s) \/ PodFaults(s)
        PROVE  /\ UNCHANGED <<policy, webhook, server, configMap>>
               /\ \A r \in Servers : r # s => pods'[r] = pods[r]
    <3>1. UNCHANGED <<policy, webhook, server, configMap>>
      BY <2>2 DEF CollectDeployment, RollOut, PodReady, StopPod, PodFaults, CreatePod,
         RestartPod
    <3>2. \E set : pods' = [pods EXCEPT ![s] = set]
      <4>1. CASE CollectDeployment(s) \/ RollOut(s) \/ StopPod(s)
        BY <4>1 DEF CollectDeployment, RollOut, StopPod
      <4>2. CASE PodReady(s) \/ PodFaults(s)
        BY <4>2 DEF PodReady, PodFaults, CreatePod, RestartPod
      <4> QED
        BY <2>2, <4>1, <4>2
    <3> QED
      BY <3>1, <3>2 DEF Inv, TypeOK
  <2> QED
    BY <1>6, <2>1, <2>2, PodsPromise, Zenon DEF Kubernetes
<1>7. ASSUME Crash PROVE UNCHANGED Service!vars
  BY <1>7, Hidden DEF Crash
<1> QED
  BY <1>1, <1>2, <1>3, <1>4, <1>5, <1>6, <1>7, Zenon DEF Next

\* The policy reconciler and the PolicyServer reconciler together, for any number
\* of policies and PolicyServers, with informers that lag, failed writes and
\* restarts, do only what PolicyService allows.
THEOREM LifecycleKeepsPromise == ASSUME Benign PROVE Spec => KeepsPromise
<1>1. Inv /\ Inv' /\ CopyExists /\ EveryPodServes' /\ [Next]_vars => [Service!Next]_(Service!vars)
  <2> SUFFICES ASSUME Inv, Inv', CopyExists, EveryPodServes', [Next]_vars
               PROVE  Service!Next \/ UNCHANGED Service!vars
    OBVIOUS
  <2>1. CASE UNCHANGED vars
    BY <2>1, Hidden DEF vars
  <2> QED
    BY <2>1, StepPromise
<1> QED
  BY <1>1, InitPromise, InvHolds, CopyExistsHolds, RegisteredIsServed, PTL
     DEF Spec, KeepsPromise, Service!Spec

-----------------------------------------------------------------------------
(* The condition PolicyActive *)

\* Only a registered policy is, or is about to be, shown as active.
Activation ==
    \A p \in Policies :
        /\ pr[p].pc = "webhook" => ~pr[p].out.active
        /\ webhook[p][KindOf(policy[p])] = 0 =>
               /\ policy[p].phase = "live" => ~status[p].active
               /\ pr[p].pc = "status" => ~pr[p].out.active

\* What it is about for one policy.
LEMMA ActivationFrame ==
    ASSUME Activation, UNCHANGED <<webhook, status, pr>>,
           \A p \in Policies : /\ policy'[p].mutating = policy[p].mutating
                               /\ policy'[p].phase = "live" => policy[p].phase = "live"
    PROVE  Activation'
  BY DEF Activation, KindOf

\* A step on one policy.
LEMMA ActivationStep ==
    ASSUME Inv, Activation, NEW p \in Policies, UNCHANGED policy,
           \A q \in Policies : q # p => /\ webhook'[q] = webhook[q]
                                        /\ status'[q] = status[q]
                                        /\ pr'[q] = pr[q],
           /\ pr'[p].pc = "webhook" => ~pr'[p].out.active
           /\ webhook'[p][KindOf(policy[p])] = 0 =>
                  /\ policy[p].phase = "live" => ~status'[p].active
                  /\ pr'[p].pc = "status" => ~pr'[p].out.active
    PROVE  Activation'
<1> SUFFICES ASSUME NEW q \in Policies
             PROVE  /\ pr'[q].pc = "webhook" => ~pr'[q].out.active
                    /\ webhook'[q][KindOf(policy[q])] = 0 =>
                           /\ policy[q].phase = "live" => ~status'[q].active
                           /\ pr'[q].pc = "status" => ~pr'[q].out.active
  BY DEF Activation, KindOf
<1>1. CASE q = p
  BY <1>1
<1>2. CASE q # p
  BY <1>2 DEF Activation
<1> QED
  BY <1>1, <1>2

\* A new policy is not active, and no reconciliation is about to say so.
LEMMA CreatePolicyActivation ==
    ASSUME Inv, Activation, NEW p \in Policies, NEW m \in MutatingValues, CreatePolicy(p, m)
    PROVE  Activation'
<1>1. \A q \in Policies : q # p => policy'[q] = policy[q] /\ status'[q] = status[q]
  BY DEF CreatePolicy, WritePolicy, Inv, TypeOK
<1>2. status'[p].active = FALSE
  BY DEF CreatePolicy, NoStatus, Inv, TypeOK
<1>3. UNCHANGED <<webhook, pr>>
  BY DEF CreatePolicy
<1>4. webhook[p][KindOf(policy[p])] = 0
  BY DEF CreatePolicy, Inv, Order, RegisteredHolds, Exists, KindOf, WebhookKinds
<1> QED
  BY <1>1, <1>2, <1>3, <1>4 DEF Activation, KindOf

\* A reconciliation starts from a status that is not active.
LEMMA PolicyBeginActivation ==
    ASSUME Inv, Activation, NEW p \in Policies, NEW pc, NEW out, NEW again,
           PolicyBegin(p, pc, out, again), ~out.active
    PROVE  Activation'
<1>1. pr'[p].out = out
  BY DEF PolicyBegin, Proceed, Inv, TypeOK
<1>2. \A q \in Policies : q # p => pr'[q] = pr[q]
  BY DEF PolicyBegin, Proceed, Inv, TypeOK
<1>3. UNCHANGED <<policy, webhook, status>>
  BY DEF PolicyBegin
<1>4. webhook[p][KindOf(policy[p])] = 0 => (policy[p].phase = "live" => ~status[p].active)
  BY DEF Activation
<1> QED
  BY <1>1, <1>2, <1>3, <1>4, ActivationStep

\* PolicyActive is set after the webhook was registered.
LEMMA ReconcileWebhookActivation ==
    ASSUME Inv, CopyExists, Activation, webhookCache = webhook,
           NEW p \in Policies, ReconcileWebhook(p)
    PROVE  Activation'
<1>1. UNCHANGED <<policy, status>>
  BY DEF ReconcileWebhook
<1>2. \A q \in Policies : q # p => webhook'[q] = webhook[q] /\ pr'[q] = pr[q]
  BY DEF ReconcileWebhook, Proceed, Inv, TypeOK
<1>3. pr'[p].pc = "status"
  BY DEF ReconcileWebhook, Proceed, Inv, TypeOK
<1>4. KindOf(pr[p].obj) = KindOf(policy[p]) /\ KindOf(policy[p]) \in WebhookKinds
  BY DEF ReconcileWebhook, Inv, Order, PolicyReconcilerHolds, KindOf, WebhookKinds
<1>5. webhook'[p][KindOf(policy[p])] # 0
  <2>1. pr[p].obj.gen # 0
    BY DEF ReconcileWebhook, CopyExists
  <2> QED
    BY <1>4, <2>1 DEF ReconcileWebhook, Inv, TypeOK
<1> QED
  BY <1>1, <1>2, <1>3, <1>5, ActivationStep

\* A status that is saved is that of the reconciliation.
LEMMA UpdateStatusActivation ==
    ASSUME Inv, Activation, NEW p \in Policies, UpdateStatus(p) \/ StatusFails(p)
    PROVE  Activation'
<1>1. UNCHANGED <<policy, webhook>>
  BY DEF UpdateStatus, StatusFails
<1>2. pr' = [pr EXCEPT ![p] = IdlePolicy] /\ pr[p].pc = "status"
  BY DEF UpdateStatus, StatusFails
<1>3. pr'[p].pc = "idle" /\ \A q \in Policies : q # p => pr'[q] = pr[q]
  BY <1>2 DEF IdlePolicy, Inv, TypeOK
<1>4. status'[p] \in {status[p], pr[p].out} /\ \A q \in Policies : q # p => status'[q] = status[q]
  BY DEF UpdateStatus, StatusFails, Inv, TypeOK
<1>5. webhook[p][KindOf(policy[p])] = 0 => (policy[p].phase = "live" => ~status'[p].active)
  BY <1>2, <1>4 DEF Activation
<1> QED
  BY <1>1, <1>3, <1>4, <1>5, ActivationStep

\* A failed registration leaves the policy inactive.
LEMMA WebhookFailsActivation ==
    ASSUME Inv, Activation, NEW p \in Policies, WebhookFails(p)
    PROVE  Activation'
<1>1. UNCHANGED <<policy, webhook, status>>
  BY DEF WebhookFails
<1>2. pr'[p].out = pr[p].out /\ pr[p].pc = "webhook"
  BY DEF WebhookFails, Proceed, Inv, TypeOK
<1>3. \A q \in Policies : q # p => pr'[q] = pr[q]
  BY DEF WebhookFails, Proceed, Inv, TypeOK
<1>4. /\ ~pr[p].out.active
      /\ webhook[p][KindOf(policy[p])] = 0 => (policy[p].phase = "live" => ~status[p].active)
  BY <1>2 DEF Activation
<1> QED
  BY <1>1, <1>2, <1>3, <1>4, ActivationStep

\* The webhook of a policy that is live is not removed.
LEMMA ReconcileWebhookDeletionActivation ==
    ASSUME Inv, Activation, NEW p \in Policies, ReconcileWebhookDeletion(p)
    PROVE  Activation'
<1>1. UNCHANGED <<policy, status>>
  BY DEF ReconcileWebhookDeletion
<1>2. \A q \in Policies : q # p => webhook'[q] = webhook[q] /\ pr'[q] = pr[q]
  BY DEF ReconcileWebhookDeletion, Proceed, Inv, TypeOK
<1>3. pr'[p].pc = "finalize"
  BY DEF ReconcileWebhookDeletion, Proceed, Inv, TypeOK
<1>4. policy[p].phase # "live"
  BY DEF ReconcileWebhookDeletion, Inv, Order, PolicyCacheBehind
<1> QED
  BY <1>1, <1>2, <1>3, <1>4, ActivationStep

\* The end of a deletion.
LEMMA PolicyFinalizeActivation ==
    ASSUME Inv, Activation, NEW p \in Policies,
           RemovePolicyFinalizer(p) \/ PolicyFinalizeFails(p)
    PROVE  Activation'
<1>1. UNCHANGED <<webhook, status>>
  BY DEF RemovePolicyFinalizer, PolicyFinalizeFails
<1>2. pr' = [pr EXCEPT ![p] = IdlePolicy]
  BY DEF RemovePolicyFinalizer, PolicyFinalizeFails
<1>3. pr'[p].pc = "idle" /\ \A q \in Policies : q # p => pr'[q] = pr[q]
  BY <1>2 DEF IdlePolicy, Inv, TypeOK
<1>4. UNCHANGED policy \/ policy' = [policy EXCEPT ![p] = [policy[p] EXCEPT !.phase = "absent"]]
  BY DEF RemovePolicyFinalizer, PolicyFinalizeFails, WritePolicy
<1>5. policy \in [Policies -> PolicyObject]
  BY DEF Inv, TypeOK
<1>6. \A q \in Policies : /\ policy'[q].mutating = policy[q].mutating
                          /\ policy'[q].phase = "live" => policy[q].phase = "live"
  BY <1>4, <1>5 DEF PolicyObject
<1> QED
  BY <1>1, <1>3, <1>6 DEF Activation, KindOf

\* The policy reconciler.
LEMMA PolicyStepActivation ==
    ASSUME Inv, CopyExists, Activation, webhookCache = webhook,
           NEW p \in Policies, ReconcilePolicy(p)
    PROVE  Activation'
<1>1. CASE PolicyNotFound(p)
  BY <1>1, ActivationFrame DEF PolicyNotFound
<1>2. PolicyNotActive(p) \in PolicyStatus /\ ~PolicyNotActive(p).active
  <2>1. status[p] \in PolicyStatus
    BY DEF Inv, TypeOK
  <2> QED
    BY <2>1 DEF PolicyNotActive, PolicyStatus
<1>3. /\ PendingUnlessActive(PolicyNotActive(p)) \in PolicyStatus
      /\ ~PendingUnlessActive(PolicyNotActive(p)).active
  BY <1>2 DEF PendingUnlessActive, PolicyStatus
<1>4. CASE PolicyScheduled(p)
  <2> DEFINE out == [PolicyNotActive(p) EXCEPT !.policyStatus = "scheduled"]
  <2>1. PolicyBegin(p, "status", out, FALSE)
    BY <1>4 DEF PolicyScheduled
  <2>2. ~out.active
    BY <1>2 DEF PolicyStatus
  <2> HIDE DEF out
  <2> QED
    BY <2>1, <2>2, PolicyBeginActivation
<1>5. CASE PolicyWaits(p)
  <2> DEFINE first == PendingUnlessActive(PolicyNotActive(p))
             out == [first EXCEPT !.reachable = FALSE]
  <2>1. PolicyBegin(p, "status", first, TRUE) \/ PolicyBegin(p, "status", out, TRUE)
    BY <1>5 DEF PolicyWaits
  <2>2. ~first.active /\ ~out.active
    BY <1>3 DEF PolicyStatus
  <2> HIDE DEF first, out
  <2> QED
    BY <2>1, <2>2, PolicyBeginActivation
<1>6. CASE PolicyReachable(p)
  <2> DEFINE out == [PendingUnlessActive(PolicyNotActive(p)) EXCEPT !.reachable = TRUE]
  <2>1. PolicyBegin(p, "webhook", out, FALSE)
    BY <1>6 DEF PolicyReachable
  <2>2. ~out.active
    BY <1>3 DEF PolicyStatus
  <2> HIDE DEF out
  <2> QED
    BY <2>1, <2>2, PolicyBeginActivation
<1> QED
  BY <1>1, <1>4, <1>5, <1>6, ReconcileWebhookActivation, WebhookFailsActivation,
     UpdateStatusActivation, ReconcileWebhookDeletionActivation, PolicyFinalizeActivation,
     Zenon DEF ReconcilePolicy

\* Everyone else.
LEMMA NextActivation ==
    ASSUME Inv, CopyExists, Activation, Benign, "webhookDeleted" \notin Faults, [Next]_vars
    PROVE  Activation'
<1>1. ASSUME UNCHANGED <<policy, webhook, status, pr>> PROVE Activation'
  BY <1>1, ActivationFrame
<1>2. CASE Users
  <2>1. ASSUME NEW p \in Policies, NEW m \in MutatingValues, UpdatePolicy(p, m)
        PROVE  Activation'
    <3>1. \A q \in Policies : /\ policy'[q].mutating = policy[q].mutating
                              /\ policy'[q].phase = policy[q].phase
      BY <2>1 DEF UpdatePolicy, WritePolicy, Benign, Inv, TypeOK
    <3>2. UNCHANGED <<webhook, status, pr>>
      BY <2>1 DEF UpdatePolicy
    <3> QED
      BY <3>1, <3>2, ActivationFrame
  <2>2. ASSUME NEW p \in Policies, DeletePolicy(p)
        PROVE  Activation'
    <3>1. policy' = [policy EXCEPT ![p] = [policy[p] EXCEPT !.phase = "deleting"]]
      BY <2>2 DEF DeletePolicy, WritePolicy
    <3>2. policy \in [Policies -> PolicyObject]
      BY DEF Inv, TypeOK
    <3>3. \A q \in Policies : /\ policy'[q].mutating = policy[q].mutating
                              /\ policy'[q].phase = "live" => policy[q].phase = "live"
      BY <3>1, <3>2 DEF PolicyObject
    <3>4. UNCHANGED <<webhook, status, pr>>
      BY <2>2 DEF DeletePolicy
    <3> QED
      BY <3>3, <3>4, ActivationFrame
  <2>3. ASSUME NEW s \in Servers, CreateServer(s) \/ DeleteServer(s)
        PROVE  Activation'
    BY <1>1, <2>3 DEF CreateServer, DeleteServer
  <2>4. ASSUME NEW p \in Policies, NEW k \in WebhookKinds, DeleteWebhook(p, k)
        PROVE  FALSE
    BY <2>4 DEF DeleteWebhook
  <2> QED
    BY <1>2, <2>1, <2>2, <2>3, <2>4, CreatePolicyActivation, Zenon DEF Users
<1>3. ASSUME NEW s \in Servers, DeletePoliciesAndRequeue(s) PROVE Activation'
  <2>1. PICK hit \in SUBSET Policies :
            policy' = [p \in Policies |->
                IF p \in hit THEN [policy[p] EXCEPT !.phase = "deleting"] ELSE policy[p]]
    BY <1>3 DEF DeletePoliciesAndRequeue
  <2>2. policy \in [Policies -> PolicyObject]
    BY DEF Inv, TypeOK
  <2>3. \A q \in Policies : /\ policy'[q].mutating = policy[q].mutating
                            /\ policy'[q].phase = "live" => policy[q].phase = "live"
    BY <2>1, <2>2 DEF PolicyObject
  <2>4. UNCHANGED <<webhook, status, pr>>
    BY <1>3 DEF DeletePoliciesAndRequeue
  <2> QED
    BY <2>3, <2>4, ActivationFrame
<1>4. ASSUME NEW s \in Servers,
             \/ InformServer(s) \/ ResyncServer(s) \/ Kubernetes(s) \/ PodFaults(s)
             \/ ServerNotFound(s) \/ ServerBegin(s) \/ ReconcileConfigMap(s)
             \/ ReconcileDeployment(s) \/ UpdateServerStatus(s) \/ ServerFails(s)
             \/ ServerBeginFinalize(s) \/ RemoveServerFinalizer(s) \/ ServerFinalizeConflict(s)
      PROVE  UNCHANGED <<policy, webhook, status, pr>>
  <2>1. CASE InformServer(s) \/ ResyncServer(s) \/ Kubernetes(s) \/ PodFaults(s)
    BY <2>1 DEF InformServer, ResyncServer, SyncServer, SyncConfigMap, SyncDeployment,
       SyncPods, Kubernetes, PodFaults, CollectConfigMap, CollectDeployment, RollOut,
       PodReady, StopPod, CreatePod, RestartPod
  <2> QED
    BY <1>4, <2>1 DEF ServerNotFound, ServerBegin, ReconcileConfigMap, ReconcileDeployment,
       UpdateServerStatus, ServerFails, ServerBeginFinalize, RemoveServerFinalizer,
       ServerFinalizeConflict
<1>5. ASSUME NEW p \in Policies, InformPolicy(p) \/ ResyncPolicy(p)
      PROVE  UNCHANGED <<policy, webhook, status, pr>>
  BY <1>5 DEF InformPolicy, ResyncPolicy, SyncPolicy, SyncWebhook
<1>6. ASSUME NEW p \in Policies, Informed, ReconcilePolicy(p) PROVE Activation'
  BY <1>6, PolicyStepActivation DEF Informed, Benign
<1>7. CASE Crash
  BY <1>7 DEF Crash, IdlePolicy, Activation
<1>8. CASE UNCHANGED vars
  BY <1>1, <1>8 DEF vars
<1> QED
  BY <1>1, <1>2, <1>3, <1>4, <1>5, <1>6, <1>7, <1>8, Zenon DEF Next, ReconcileServer

\* A live policy shown as active has its webhook registered, however far the
\* policy, PolicyServer, ConfigMap and pod informers lag and whatever writes fail,
\* as long as nobody deletes webhook configurations by hand.
THEOREM ActivePolicyIsRegistered ==
    ASSUME Benign, "webhookDeleted" \notin Faults PROVE Spec => []ActiveIsRegistered
<1>1. Init => Activation
  <2> SUFFICES ASSUME Init PROVE Activation
    OBVIOUS
  <2>1. \A p \in Policies : pr[p].pc = "idle" /\ status[p].active = FALSE
    BY DEF Init, IdlePolicy, NoStatus
  <2> QED
    BY <2>1 DEF Activation
<1>2. Inv /\ CopyExists /\ Activation /\ [Next]_vars => Activation'
  BY NextActivation
<1>3. Activation => ActiveIsRegistered
  BY DEF Activation, ActiveIsRegistered
<1> QED
  BY <1>1, <1>2, <1>3, InvHolds, CopyExistsHolds, PTL DEF Spec
=============================================================================
