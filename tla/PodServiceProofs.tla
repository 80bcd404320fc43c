-------------------------- MODULE PodServiceProofs --------------------------
(***************************************************************************)
(* That the pods of a PolicyServer serve every policy the API server sends *)
(* them requests for, for any number of policies, PolicyServers, pods and  *)
(* writes.  What isPolicyUniquelyReachable sees in three caches that lag   *)
(* independently holds of the pods themselves because versions only grow.  *)
(***************************************************************************)
EXTENDS PolicyLifecycleProofs

\* ConfigMap, Deployment, ReplicaSet and pods follow each other's versions.
VersionsFollow ==
    \A s \in Servers :
        /\ configMapCache[s].ver <= configMap[s].ver
        /\ deployment[s].ver <= configMap[s].ver
        /\ deployment[s].rs <= deployment[s].ver
        /\ \A pod \in pods[s] : pod.ver <= deployment[s].rs
        /\ \A pod \in podCache[s] : pod.ver <= configMap[s].ver

\* Some cached pod has at most this version.
Floor(s, v) == \E pod \in podCache[s] : pod.ver <= v

\* No pod, and no pod still to come, is older than all the cached ones.
NoOlderPod ==
    \A s \in Servers :
        podCache[s] # {} =>
            /\ \A pod \in pods[s] : Floor(s, pod.ver)
            /\ deployment[s].rs # 0 => Floor(s, deployment[s].rs)
            /\ deployment[s].ver # 0 => Floor(s, deployment[s].ver)

\* A pod serves what its ConfigMap version, or an older cached one, lists.
PodsUpToDate ==
    \A s \in Servers, p \in Policies :
        \A pod \in pods[s] :
            pod.ready =>
                /\ pod.ver = configMap[s].ver /\ Listed(s, p) => pod.gens[p] # 0
                /\ configMapCache[s].ver <= pod.ver /\ configMapCache[s].gens[p] # 0 =>
                       Gone(p) \/ pod.gens[p] # 0

\* What the reconciler saw before it registers the webhook still holds.
ReachableServes ==
    \A p \in Policies :
        pr[p].pc = "webhook" =>
            \A pod \in pods[ServerOf[p]] : pod.ready => pod.gens[p] # 0

Served ==
    /\ VersionsFollow
    /\ NoOlderPod
    /\ PodsUpToDate
    /\ ReachableServes
    /\ EveryPodServes

-----------------------------------------------------------------------------

USE DEF policyVars, serverVars, workloadVars, cacheVars, queueVars, clusterVars,
        controllerVars

\* At the start nothing is registered and there are no pods.
LEMMA InitServed == Init => Served
  BY DEF Init, NoConfigMap, NoDeployment, NoPolicies, NoWebhooks, IdlePolicy, Served,
         VersionsFollow, NoOlderPod, PodsUpToDate, ReachableServes, EveryPodServes,
         WebhookKinds

\* Versions are natural numbers.
LEMMA VersionTypes ==
    ASSUME TypeOK, NEW s \in Servers
    PROVE  /\ configMap[s].ver \in Nat /\ configMapCache[s].ver \in Nat
           /\ deployment[s].ver \in Nat /\ deployment[s].rs \in Nat
           /\ \A pod \in pods[s] : pod.ver \in Nat
           /\ \A pod \in podCache[s] : pod.ver \in Nat
  BY DEF TypeOK, ConfigMapObject, DeploymentObject, Pod

\* Steps of the policy reconciler and the users: they touch no pod, bring no
\* policy back and register only what was found reachable.
LEMMA ServedFrame ==
    ASSUME Served,
           UNCHANGED <<configMap, configMapCache, deployment, pods, podCache>>,
           \A p \in Policies :
               /\ Gone(p) => Gone(p)'
               /\ pr'[p].pc = "webhook" => pr[p].pc = "webhook"
               /\ \A k \in WebhookKinds :
                      webhook'[p][k] # 0 => webhook[p][k] # 0 \/ pr[p].pc = "webhook"
    PROVE  Served'
<1> USE DEF Served
<1>1. VersionsFollow'
  BY DEF VersionsFollow
<1>2. NoOlderPod'
  BY DEF NoOlderPod, Floor
<1>3. PodsUpToDate'
  BY DEF PodsUpToDate, Listed
<1>4. ReachableServes'
  BY DEF ReachableServes
<1>5. EveryPodServes'
  BY DEF EveryPodServes, ReachableServes
<1> QED
  BY <1>1, <1>2, <1>3, <1>4, <1>5

\* Steps that change pods: a pod that becomes ready reads the ConfigMap, so it
\* serves what is registered or about to be.
LEMMA ServedPods ==
    ASSUME Inv, Served, VersionsFollow', NoOlderPod', NEW s \in Servers,
           UNCHANGED <<policy, webhook, configMap, configMapCache, pr>>,
           \A r \in Servers : r # s => pods'[r] = pods[r],
           \A pod \in pods'[s] :
               pod.ready => pod \in pods[s] \/ pod.gens = configMap[s].gens
    PROVE  Served'
<1> USE DEF Served
<1>1. PodsUpToDate'
  BY DEF PodsUpToDate, Inv, Order, CachedEntryStays, Listed, Gone
<1>2. ReachableServes'
  BY ConstantsAssumption DEF ReachableServes, Inv, Order, PolicyReconcilerHolds, Listed
<1>3. EveryPodServes'
  BY ConstantsAssumption DEF EveryPodServes, Inv, Order, RegisteredHolds, Listed
<1> QED
  BY <1>1, <1>2, <1>3

\* Pods of a version that some cached pod does not exceed may come at any time.
LEMMA NewPodsServed ==
    ASSUME Inv, Served, NEW s \in Servers,
           UNCHANGED <<policy, webhook, configMap, configMapCache, podCache, pr>>,
           deployment'[s].ver = deployment[s].ver,
           deployment'[s].rs = deployment[s].ver, deployment[s].ver # 0,
           \A r \in Servers : r # s => deployment'[r] = deployment[r] /\ pods'[r] = pods[r],
           \A pod \in pods'[s] :
               pod \in pods[s] \/ (pod.ver = deployment[s].ver /\ ~pod.ready)
    PROVE  Served'
<1>1. deployment[s].ver <= deployment[s].ver
        /\ \A pod \in pods'[s] : pod.ver <= deployment[s].ver
  BY VersionTypes DEF Served, VersionsFollow, Inv
<1>2. VersionsFollow'
  BY <1>1 DEF Served, VersionsFollow
<1>3. NoOlderPod'
  BY DEF Served, NoOlderPod, Floor
<1> QED
  BY <1>2, <1>3, ServedPods

\* So may pods of the latest ReplicaSet, and pods that take the place of others.
LEMMA PodsChangeServed ==
    ASSUME Inv, Served, NEW s \in Servers,
           UNCHANGED <<policy, webhook, configMap, configMapCache, deployment, podCache, pr>>,
           \A r \in Servers : r # s => pods'[r] = pods[r],
           \A pod \in pods'[s] :
               \/ pod \in pods[s]
               \/ /\ \/ \E old \in pods[s] : pod.ver = old.ver
                     \/ pod.ver = deployment[s].rs /\ deployment[s].rs # 0
                  /\ pod.ready => pod.gens = configMap[s].gens
    PROVE  Served'
<1>1. deployment[s].rs <= deployment[s].rs
  BY VersionTypes DEF Inv
<1>2. VersionsFollow'
  BY <1>1 DEF Served, VersionsFollow
<1>3. NoOlderPod'
  BY DEF Served, NoOlderPod, Floor
<1> QED
  BY <1>2, <1>3, ServedPods

\* Nobody brings a policy back, and only PolicyReachable sends a reconciler to
\* register a webhook.
LEMMA PolicyStepServed ==
    ASSUME Benign, Inv, Served, NEW p \in Policies, ReconcilePolicy(p), ~PolicyReachable(p)
    PROVE  Served'
<1>1. UNCHANGED <<configMap, configMapCache, deployment, pods, podCache>>
  BY DEF ReconcilePolicy, PolicyNotFound, PolicyScheduled, PolicyWaits, PolicyBegin,
     ReconcileWebhook, WebhookFails, UpdateStatus, StatusFails, ReconcileWebhookDeletion,
     RemovePolicyFinalizer, PolicyFinalizeFails
<1>2. \A q \in Policies : Gone(q) => Gone(q)'
  <2>1. CASE RemovePolicyFinalizer(p)
    BY <2>1 DEF RemovePolicyFinalizer, WritePolicy, Gone, Inv, TypeOK, PolicyObject
  <2>2. CASE UNCHANGED policy
    BY <2>2 DEF Gone
  <2> QED
    BY <2>1, <2>2 DEF ReconcilePolicy, PolicyNotFound, PolicyScheduled, PolicyWaits,
       PolicyBegin, ReconcileWebhook, WebhookFails, UpdateStatus, StatusFails,
       ReconcileWebhookDeletion, PolicyFinalizeFails
<1>3. \A q \in Policies : pr'[q].pc = "webhook" => pr[q].pc = "webhook"
  <2>1. ASSUME NEW pc \in {"status", "finalize"}, NEW out, NEW again, Proceed(p, pc, out, again)
        PROVE  \A q \in Policies : pr'[q].pc = "webhook" => pr[q].pc = "webhook"
    BY <2>1 DEF Proceed, Inv, TypeOK
  <2>2. CASE pr' = [pr EXCEPT ![p] = IdlePolicy]
    BY <2>2 DEF IdlePolicy, Inv, TypeOK
  <2>3. CASE UNCHANGED pr
    BY <2>3
  <2>4. CASE PolicyScheduled(p) \/ PolicyWaits(p)
    BY <2>1, <2>4 DEF PolicyScheduled, PolicyWaits, PolicyBegin
  <2>5. CASE ReconcileWebhook(p) \/ WebhookFails(p) \/ ReconcileWebhookDeletion(p)
    BY <2>1, <2>5 DEF ReconcileWebhook, WebhookFails, ReconcileWebhookDeletion
  <2> QED
    BY <2>2, <2>3, <2>4, <2>5 DEF ReconcilePolicy, PolicyNotFound, UpdateStatus, StatusFails,
       RemovePolicyFinalizer, PolicyFinalizeFails
<1>4. \A q \in Policies, k \in WebhookKinds :
          webhook'[q][k] # 0 => webhook[q][k] # 0 \/ pr[q].pc = "webhook"
  <2>1. CASE ReconcileWebhook(p)
    BY <2>1 DEF ReconcileWebhook, Inv, TypeOK
  <2>2. CASE ReconcileWebhookDeletion(p)
    BY <2>2 DEF ReconcileWebhookDeletion, RemainingWebhooks, Inv, TypeOK
  <2>3. CASE UNCHANGED webhook
    BY <2>3
  <2> QED
    BY <2>1, <2>2, <2>3 DEF ReconcilePolicy, PolicyNotFound, PolicyScheduled, PolicyWaits,
       PolicyBegin, WebhookFails, UpdateStatus, StatusFails, RemovePolicyFinalizer,
       PolicyFinalizeFails
<1> QED
  BY <1>1, <1>2, <1>3, <1>4, ServedFrame

\* Every step keeps Served.
LEMMA NextServed ==
    ASSUME Benign, Inv, Inv', Served, Next
    PROVE  Served'
<1>1. ASSUME NEW s \in Servers, SyncConfigMap(s) PROVE Served'
  <2>1. \A r \in Servers : configMapCache'[r] = configMapCache[r] \/ configMapCache'[r] = configMap[r]
    BY <1>1 DEF SyncConfigMap, Inv, TypeOK
  <2>2. UNCHANGED <<policy, webhook, configMap, deployment, pods, podCache, pr>>
    BY <1>1 DEF SyncConfigMap
  <2>3. VersionsFollow' /\ NoOlderPod'
    BY <2>1, <2>2, VersionTypes DEF Served, VersionsFollow, NoOlderPod, Floor, Inv
  <2>4. \A r \in Servers : \A pod \in pods[r] :
            configMap[r].ver <= pod.ver => pod.ver = configMap[r].ver
    BY VersionTypes DEF Served, VersionsFollow, Inv
  <2>5. PodsUpToDate'
    BY <2>1, <2>2, <2>4 DEF Served, PodsUpToDate, Listed, Gone
  <2>6. ReachableServes' /\ EveryPodServes'
    BY <2>2 DEF Served, ReachableServes, EveryPodServes
  <2> QED
    BY <2>3, <2>5, <2>6 DEF Served
<1>2. ASSUME NEW s \in Servers, SyncPods(s) PROVE Served'
  <2>1. \A r \in Servers : podCache'[r] = podCache[r] \/ podCache'[r] = pods[r]
    BY <1>2 DEF SyncPods, Inv, TypeOK
  <2>2. UNCHANGED <<policy, webhook, configMap, configMapCache, deployment, pods, pr>>
    BY <1>2 DEF SyncPods
  <2>3. VersionsFollow'
    <3>1. \A r \in Servers : \A pod \in pods[r] : pod.ver <= configMap[r].ver
      BY VersionTypes DEF Served, VersionsFollow, Inv
    <3> QED
      BY <2>1, <2>2, <3>1 DEF Served, VersionsFollow
  <2>4. NoOlderPod'
    <3>1. \A r \in Servers : \A pod \in pods[r] :
              /\ pod.ver <= pod.ver
              /\ pod.ver <= deployment[r].rs
              /\ pod.ver <= deployment[r].ver
      BY VersionTypes DEF Served, VersionsFollow, Inv
    <3> QED
      BY <2>1, <2>2, <3>1 DEF Served, NoOlderPod, Floor
  <2>5. PodsUpToDate' /\ ReachableServes' /\ EveryPodServes'
    BY <2>2 DEF Served, PodsUpToDate, ReachableServes, EveryPodServes, Listed, Gone
  <2> QED
    BY <2>3, <2>4, <2>5 DEF Served
<1>3. ASSUME NEW p \in Policies, PolicyReachable(p) PROVE Served'
  <2> DEFINE s == ServerOf[p]
  <2>1. /\ podCache[s] # {}
        /\ \A pod \in podCache[s] : pod.ver = configMapCache[s].ver
        /\ configMapCache[s].gens[p] # 0
        /\ policyCache[p].phase = "live"
    BY <1>3 DEF PolicyReachable, PolicyBegin, IsPolicyUniquelyReachable
  <2>2. s \in Servers /\ ~Gone(p)
    BY <2>1, ConstantsAssumption DEF Inv, Order, PolicyCacheBehind
  <2>3. \A pod \in pods[s] : configMapCache[s].ver <= pod.ver
    BY <2>1, <2>2 DEF Served, NoOlderPod, Floor
  <2>4. \A pod \in pods[s] : pod.ready => pod.gens[p] # 0
    BY <2>1, <2>2, <2>3 DEF Served, PodsUpToDate
  <2>5. /\ \A q \in Policies : q # p => pr'[q] = pr[q]
        /\ UNCHANGED <<policy, webhook, configMap, configMapCache, deployment, pods, podCache>>
    BY <1>3 DEF PolicyReachable, PolicyBegin, Proceed, Inv, TypeOK
  <2>6. ReachableServes'
    BY <2>4, <2>5 DEF Served, ReachableServes
  <2> QED
    BY <2>5, <2>6 DEF Served, VersionsFollow, NoOlderPod, Floor, PodsUpToDate, EveryPodServes,
       Listed, Gone
<1>4. ASSUME NEW s \in Servers, ReconcileConfigMap(s) PROVE Served'
  <2>1. \A r \in Servers : configMap'[r] = configMap[r] \/ configMap'[r].ver = configMap[r].ver + 1
    BY <1>4 DEF ReconcileConfigMap, Inv, TypeOK
  <2>2. UNCHANGED <<policy, webhook, configMapCache, deployment, pods, podCache, pr>>
    BY <1>4 DEF ReconcileConfigMap
  <2>3. VersionsFollow' /\ NoOlderPod'
    BY <2>1, <2>2, VersionTypes DEF Served, VersionsFollow, NoOlderPod, Floor, Inv
  <2>4. \A r \in Servers : \A pod \in pods[r] : pod.ver # configMap[r].ver + 1
    BY VersionTypes DEF Served, VersionsFollow, Inv
  <2>5. PodsUpToDate'
    BY <2>1, <2>2, <2>4 DEF Served, PodsUpToDate, Listed, Gone
  <2>6. ReachableServes' /\ EveryPodServes'
    BY <2>2 DEF Served, ReachableServes, EveryPodServes
  <2> QED
    BY <2>3, <2>5, <2>6 DEF Served
<1>5. ASSUME NEW s \in Servers, CollectConfigMap(s) PROVE Served'
  <2>1. \A r \in Servers : /\ configMap'[r].ver = configMap[r].ver
                           /\ \A p \in Policies : Listed(r, p)' => Listed(r, p)
    BY <1>5 DEF CollectConfigMap, NoPolicies, Listed, Inv, TypeOK, ConfigMapObject
  <2>2. UNCHANGED <<policy, webhook, configMapCache, deployment, pods, podCache, pr>>
    BY <1>5 DEF CollectConfigMap
  <2>3. VersionsFollow' /\ NoOlderPod'
    BY <2>1, <2>2 DEF Served, VersionsFollow, NoOlderPod, Floor
  <2>4. PodsUpToDate'
    BY <2>1, <2>2 DEF Served, PodsUpToDate, Gone
  <2>5. ReachableServes' /\ EveryPodServes'
    BY <2>2 DEF Served, ReachableServes, EveryPodServes
  <2> QED
    BY <2>3, <2>4, <2>5 DEF Served
<1>6. ASSUME NEW s \in Servers, ReconcileDeployment(s) PROVE Served'
  <2>1. /\ PatchedVersion(s) = configMap[s].ver \/ PatchedVersion(s) = deployment[s].ver
        /\ deployment'[s].ver = PatchedVersion(s) /\ deployment'[s].rs = deployment[s].rs
        /\ \A r \in Servers : r # s => deployment'[r] = deployment[r]
    BY <1>6 DEF ReconcileDeployment, PatchedVersion, Inv, TypeOK, DeploymentObject
  <2>2. UNCHANGED <<policy, webhook, configMap, configMapCache, pods, podCache, pr>>
    BY <1>6 DEF ReconcileDeployment
  <2>3. VersionsFollow'
    BY <2>1, <2>2, VersionTypes DEF Served, VersionsFollow, Inv
  <2>4. NoOlderPod'
    <3>1. podCache[s] # {} => Floor(s, configMap[s].ver)
      BY DEF Served, VersionsFollow, Floor
    <3> QED
      BY <2>1, <2>2, <3>1 DEF Served, NoOlderPod, Floor
  <2>5. PodsUpToDate' /\ ReachableServes' /\ EveryPodServes'
    BY <2>2 DEF Served, PodsUpToDate, ReachableServes, EveryPodServes, Listed, Gone
  <2> QED
    BY <2>3, <2>4, <2>5 DEF Served
<1>7. ASSUME NEW s \in Servers, CollectDeployment(s) PROVE Served'
  <2>1. /\ deployment'[s].ver = 0 /\ deployment'[s].rs = 0 /\ pods'[s] = {}
        /\ \A r \in Servers : r # s => deployment'[r] = deployment[r] /\ pods'[r] = pods[r]
    BY <1>7 DEF CollectDeployment, NoDeployment, Inv, TypeOK
  <2>2. UNCHANGED <<policy, webhook, configMap, configMapCache, podCache, pr>>
    BY <1>7 DEF CollectDeployment
  <2>3. VersionsFollow' /\ NoOlderPod'
    BY <2>1, <2>2, VersionTypes DEF Served, VersionsFollow, NoOlderPod, Floor, Inv
  <2> QED
    BY <2>1, <2>2, <2>3, ServedPods
<1>8. ASSUME NEW s \in Servers, RollOut(s) PROVE Served'
  <2> DEFINE v == deployment[s].ver
  <2>1. /\ deployment'[s].ver = v /\ deployment'[s].rs = v
        /\ \A pod \in pods'[s] : pod \in pods[s] \/ (pod.ver = v /\ ~pod.ready)
        /\ \A r \in Servers : r # s => deployment'[r] = deployment[r] /\ pods'[r] = pods[r]
    BY <1>8 DEF RollOut, NewPod, Inv, TypeOK, DeploymentObject
  <2>2. UNCHANGED <<policy, webhook, configMap, configMapCache, podCache, pr>>
    BY <1>8 DEF RollOut
  <2>3. v # 0
    BY <1>8, VersionTypes DEF RollOut, Served, VersionsFollow, Inv
  <2> QED
    BY <2>1, <2>2, <2>3, NewPodsServed
<1>9. ASSUME NEW s \in Servers, CreatePod(s) PROVE Served'
  <2> DEFINE v == deployment[s].rs
  <2>1. /\ v # 0
        /\ \A pod \in pods'[s] : pod \in pods[s] \/ (pod.ver = v /\ ~pod.ready)
        /\ \A r \in Servers : r # s => pods'[r] = pods[r]
    BY <1>9 DEF CreatePod, NewPod, Inv, TypeOK
  <2>2. UNCHANGED <<policy, webhook, configMap, configMapCache, deployment, podCache, pr>>
    BY <1>9 DEF CreatePod
  <2> QED
    BY <2>1, <2>2, PodsChangeServed
<1>10. ASSUME NEW s \in Servers, PodReady(s) \/ RestartPod(s) \/ StopPod(s) PROVE Served'
  <2>1. /\ \A pod \in pods'[s] :
               \/ pod \in pods[s]
               \/ /\ \E old \in pods[s] : pod.ver = old.ver
                  /\ pod.ready => pod.gens = configMap[s].gens
        /\ \A r \in Servers : r # s => pods'[r] = pods[r]
    <3>1. CASE PodReady(s)
      BY <3>1 DEF PodReady, Inv, TypeOK
    <3>2. CASE RestartPod(s)
      BY <3>2 DEF RestartPod, NewPod, Inv, TypeOK
    <3>3. CASE StopPod(s)
      <4>1. PICK pod \in pods[s] : pods' = [pods EXCEPT ![s] = pods[s] \ {pod}]
        BY <3>3 DEF StopPod
      <4>2. pods \in [Servers -> SUBSET Pod]
        BY DEF Inv, TypeOK
      <4> QED
        BY <4>1, <4>2
    <3> QED
      BY <1>10, <3>1, <3>2, <3>3
  <2>2. UNCHANGED <<policy, webhook, configMap, configMapCache, deployment, podCache, pr>>
    BY <1>10 DEF PodReady, RestartPod, StopPod
  <2> QED
    BY <2>1, <2>2, PodsChangeServed
<1>11. CASE Crash
  <2>1. /\ UNCHANGED <<policy, webhook, configMap, deployment, pods>>
        /\ configMapCache' = configMap /\ podCache' = pods
        /\ \A p \in Policies : pr'[p].pc = "idle"
    BY <1>11 DEF Crash, IdlePolicy
  <2>2. \A s \in Servers :
            /\ configMap[s].ver <= configMap[s].ver
            /\ \A pod \in pods[s] : /\ pod.ver <= pod.ver
                                    /\ pod.ver <= deployment[s].rs
                                    /\ pod.ver <= deployment[s].ver
                                    /\ pod.ver <= configMap[s].ver
                                    /\ configMap[s].ver <= pod.ver => pod.ver = configMap[s].ver
    BY VersionTypes DEF Served, VersionsFollow, Inv
  <2>3. VersionsFollow' /\ NoOlderPod'
    BY <2>1, <2>2 DEF Served, VersionsFollow, NoOlderPod, Floor
  <2>4. PodsUpToDate'
    BY <2>1, <2>2 DEF Served, PodsUpToDate, Listed, Gone
  <2>5. ReachableServes' /\ EveryPodServes'
    BY <2>1 DEF Served, ReachableServes, EveryPodServes
  <2> QED
    BY <2>3, <2>4, <2>5 DEF Served
<1>12. CASE Users
  <2>1. UNCHANGED <<configMap, configMapCache, deployment, pods, podCache, pr>>
    BY <1>12 DEF Users, CreatePolicy, UpdatePolicy, DeletePolicy, DeleteWebhook, CreateServer,
       DeleteServer
  <2>2. \A p \in Policies : Gone(p) => Gone(p)'
    <3>1. ASSUME NEW q \in Policies, NEW obj, WritePolicy(q, obj), ~Gone(q)
          PROVE  \A p \in Policies : Gone(p) => Gone(p)'
      BY <3>1 DEF WritePolicy, Gone, Inv, TypeOK
    <3>2. ASSUME NEW q \in Policies, NEW m \in MutatingValues, CreatePolicy(q, m)
          PROVE  \A p \in Policies : Gone(p) => Gone(p)'
      BY <3>1, <3>2 DEF CreatePolicy, Gone, Benign
    <3>3. ASSUME NEW q \in Policies, NEW m \in MutatingValues, UpdatePolicy(q, m)
          PROVE  \A p \in Policies : Gone(p) => Gone(p)'
      BY <3>1, <3>3 DEF UpdatePolicy, Gone
    <3>4. ASSUME NEW q \in Policies, DeletePolicy(q)
          PROVE  \A p \in Policies : Gone(p) => Gone(p)'
      BY <3>1, <3>4 DEF DeletePolicy, Gone
    <3>5. CASE UNCHANGED policy
      BY <3>5 DEF Gone
    <3> QED
      BY <1>12, <3>2, <3>3, <3>4, <3>5 DEF Users, DeleteWebhook, CreateServer, DeleteServer
  <2>3. \A p \in Policies, k \in WebhookKinds : webhook'[p][k] # 0 => webhook[p][k] # 0
    <3>1. ASSUME NEW q \in Policies, NEW j \in WebhookKinds, DeleteWebhook(q, j)
          PROVE  \A p \in Policies, k \in WebhookKinds :
                     webhook'[p][k] # 0 => webhook[p][k] # 0
      BY <3>1 DEF DeleteWebhook, Inv, TypeOK
    <3>2. CASE UNCHANGED webhook
      BY <3>2
    <3> QED
      BY <1>12, <3>1, <3>2 DEF Users, CreatePolicy, UpdatePolicy, DeletePolicy, CreateServer,
         DeleteServer
  <2> QED
    BY <2>1, <2>2, <2>3, ServedFrame
<1>13. ASSUME NEW s \in Servers, DeletePoliciesAndRequeue(s) PROVE Served'
  <2>1. \A p \in Policies : Gone(p) => Gone(p)'
    BY <1>13 DEF DeletePoliciesAndRequeue, Gone
  <2> QED
    BY <1>13, <2>1, ServedFrame DEF DeletePoliciesAndRequeue
<1>14. ASSUME UNCHANGED <<policy, webhook, configMap, configMapCache, deployment, pods,
                          podCache, pr>>
       PROVE  Served'
  BY <1>14, ServedFrame DEF Gone
<1>15. ASSUME NEW s \in Servers, ReconcileServer(s) PROVE Served'
  BY <1>4, <1>6, <1>13, <1>14, <1>15 DEF ReconcileServer, ServerNotFound, ServerBegin,
     UpdateServerStatus, ServerFails, ServerBeginFinalize, RemoveServerFinalizer,
     ServerFinalizeConflict
<1>16. ASSUME NEW s \in Servers, InformServer(s) \/ ResyncServer(s) PROVE Served'
  BY <1>1, <1>2, <1>14, <1>16 DEF InformServer, ResyncServer, SyncServer, SyncDeployment
<1>17. ASSUME NEW p \in Policies, InformPolicy(p) \/ ResyncPolicy(p) PROVE Served'
  BY <1>14, <1>17 DEF InformPolicy, ResyncPolicy, SyncPolicy, SyncWebhook
<1>18. ASSUME NEW p \in Policies, ReconcilePolicy(p) PROVE Served'
  BY <1>3, <1>18, PolicyStepServed
<1> QED
  BY <1>5, <1>7, <1>8, <1>9, <1>10, <1>11, <1>12, <1>15, <1>16, <1>17, <1>18
     DEF Next, Kubernetes, PodFaults

-----------------------------------------------------------------------------

\* No request reaches a pod that does not know the policy: while a webhook is
\* registered every ready pod of its PolicyServer serves the policy, although
\* isPolicyUniquelyReachable looked at caches only and pods come and go since.
THEOREM RegisteredIsServed == ASSUME Benign PROVE Spec => []EveryPodServes
<1>1. Init => Served
  BY InitServed
<1>2. Inv /\ Inv' /\ Served /\ [Next]_vars => Served'
  <2> SUFFICES ASSUME Inv, Inv', Served, [Next]_vars PROVE Served'
    OBVIOUS
  <2>1. CASE Next
    BY <2>1, NextServed
  <2>2. CASE UNCHANGED vars
    BY <2>2, ServedFrame DEF vars, Gone
  <2> QED
    BY <2>1, <2>2
<1>3. Served => EveryPodServes
  BY DEF Served
<1> QED
  BY <1>1, <1>2, <1>3, InvHolds, PTL DEF Spec
=============================================================================
