------------------------ MODULE PolicyLifecycleProofs ------------------------
(***************************************************************************)
(* Theorems about PolicyLifecycle, for any number of policies,             *)
(* PolicyServers and writes: the steps of the PolicyServer reconciler keep *)
(* the inductive invariant too, and with it holds what the webhooks, the   *)
(* ConfigMaps and the finalizer of a PolicyServer promise.                 *)
(***************************************************************************)
EXTENDS PolicyLifecycleOrder

USE DEF policyVars, serverVars, workloadVars, cacheVars, queueVars, clusterVars,
        controllerVars

\* A reconciler that copies or drops its cached PolicyServer makes no copy current
\* that was not.
LEMMA ServerCopyKeeps ==
    ASSUME TypeOK, ServerCacheBehind, NEW s \in Servers, ServerCopyOf(s) \/ ServerForget(s)
    PROVE  \A r \in Servers :
               /\ "cache" \in serverCurrent'[r] => "cache" \in serverCurrent[r]
               /\ "reconciler" \in serverCurrent'[r] => "cache" \in serverCurrent'[r]
<1>1. CASE ServerCopyOf(s)
  BY <1>1 DEF ServerCopyOf, TypeOK, ServerCacheBehind, Copies
<1>2. CASE ServerForget(s)
  BY <1>2 DEF ServerForget, TypeOK, ServerCacheBehind
<1> QED
  BY <1>1, <1>2

\* getPolicies returns the cached policies of the server, all of them when no
\* List error is lost.
LEMMA ListsAll ==
    ASSUME Benign, NEW s \in Servers, NEW list \in GetPolicies(s), NEW p \in Policies
    PROVE  list[p] = IF ServerOf[p] = s /\ policyCache[p].phase # "absent"
                     THEN policyCache[p].gen ELSE 0
  BY DEF GetPolicies, Benign

\* A PolicyServer reconciliation ends without having written the PolicyServer,
\* or having written only its status.
LEMMA ServerDone ==
    ASSUME TypeOK, Order, NEW s \in Servers,
           \A r \in Servers :
               /\ "cache" \in serverCurrent'[r] => "cache" \in serverCurrent[r]
               /\ "reconciler" \in serverCurrent'[r] => "cache" \in serverCurrent'[r]
               /\ r # s => serverCurrent'[r] = serverCurrent[r],
           sr' = [sr EXCEPT ![s] = IdleServer],
           UNCHANGED <<policy, policyCache, current, webhook, server, serverCache,
                       configMap, configMapCache, pr>>
    PROVE  Order'
<1>1. sr'[s].pc = "idle" /\ \A r \in Servers : r # s => sr'[r] = sr[r]
  BY DEF TypeOK, IdleServer
<1>2. ServerReconcilerKeeps'
  BY <1>1 DEF Order, ServerReconcilerKeeps, Gone, Listed
<1> QED
  BY <1>2, OrderServerStep

\* An informer that delivers a PolicyServer brings the cache forward.
LEMMA SyncServerOrder ==
    ASSUME TypeOK, Order, NEW s \in Servers, SyncServer(s)
    PROVE  Order'
<1> USE DEF SyncServer, TypeOK, Order, Gone, Listed
<1>1. PolicyCacheBehind' /\ ListedIsKnown' /\ CachedEntryStays'
  BY DEF PolicyCacheBehind, ListedIsKnown, CachedEntryStays
<1>2. ServerCacheBehind'
  BY DEF ServerCacheBehind, Copies
<1>3. ServerReconcilerKeeps'
  BY DEF ServerReconcilerKeeps
<1>4. PolicyReconcilerHolds' /\ RegisteredHolds'
  BY DEF PolicyReconcilerHolds, RegisteredHolds, Exists
<1> QED
  BY <1>1, <1>2, <1>3, <1>4

\* An informer that delivers a ConfigMap brings the cache forward.
LEMMA SyncConfigMapOrder ==
    ASSUME TypeOK, Order, NEW s \in Servers, SyncConfigMap(s)
    PROVE  Order'
<1> USE DEF SyncConfigMap, Order, Gone, Listed
<1>1. PolicyCacheBehind' /\ ServerCacheBehind' /\ ListedIsKnown' /\ ServerReconcilerKeeps'
  <2>1. PolicyCacheBehind'
    BY DEF PolicyCacheBehind
  <2>2. ServerCacheBehind'
    BY DEF ServerCacheBehind
  <2>3. ListedIsKnown'
    BY DEF ListedIsKnown
  <2>4. ServerReconcilerKeeps'
    BY DEF ServerReconcilerKeeps
  <2> QED
    BY <2>1, <2>2, <2>3, <2>4
<1>2. CachedEntryStays'
  BY DEF CachedEntryStays, TypeOK
<1>3. PolicyReconcilerHolds' /\ RegisteredHolds'
  BY DEF PolicyReconcilerHolds, RegisteredHolds, Exists
<1> QED
  BY <1>1, <1>2, <1>3

\* deletePoliciesAndRequeue marks policies and leaves them in existence.
LEMMA DeletePoliciesAndRequeueOrder ==
    ASSUME TypeOK, Order, NEW s \in Servers, DeletePoliciesAndRequeue(s)
    PROVE  Order'
<1>1. PICK hit : /\ \A p \in Policies : p \in hit => policy[p].phase = "live"
                 /\ policy' = [p \in Policies |->
                        IF p \in hit THEN [policy[p] EXCEPT !.phase = "deleting"]
                        ELSE policy[p]]
                 /\ current' = [p \in Policies |->
                        IF p \in hit THEN {} ELSE current[p]]
  BY Zenon DEF DeletePoliciesAndRequeue
<1>2. \A p \in Policies : p \in hit =>
          /\ policy'[p].phase = "deleting"
          /\ policy'[p].gen = policy[p].gen
          /\ policy'[p].mutating = policy[p].mutating
          /\ policy[p].gen # 0
  BY <1>1 DEF TypeOK, PolicyObject, Order, PolicyCacheBehind
<1>3. UNCHANGED <<policyCache, webhook, server, serverCache, serverCurrent, configMap,
                  configMapCache, pr, sr>>
  BY DEF DeletePoliciesAndRequeue
<1>4. \A p \in Policies : p \notin hit => policy'[p] = policy[p] /\ current'[p] = current[p]
  BY <1>1
<1>5. \A p \in Policies : p \in hit => current'[p] = {}
  BY <1>1
<1> QED
  BY <1>1, <1>2, <1>3, <1>4, <1>5, OrderWritten, ZenonT(30) DEF Gone

\* The list a reconciliation of a PolicyServer starts from has every policy the
\* ConfigMap lists, unless it is gone.
LEMMA ServerBeginOrder ==
    ASSUME TypeOK, Order, Benign, NEW s \in Servers, ServerBegin(s)
    PROVE  Order'
<1>1. PICK list \in GetPolicies(s) :
        sr' = [sr EXCEPT ![s] = [pc |-> "configmap", list |-> list]]
  BY Zenon DEF ServerBegin
<1>2. \A p \in Policies : list[p] = IF ServerOf[p] = s /\ policyCache[p].phase # "absent"
                                   THEN policyCache[p].gen ELSE 0
  BY ListsAll
<1>3. /\ sr'[s].pc = "configmap" /\ sr'[s].list = list
      /\ \A r \in Servers : r # s => /\ sr'[r] = sr[r]
                                     /\ serverCurrent'[r] = serverCurrent[r]
  BY <1>1 DEF ServerBegin, ServerCopyOf, TypeOK
<1>4. server[s] # "absent"
  BY DEF ServerBegin, ServerDequeued, Order, ServerCacheBehind
<1>5. \A p \in Policies : list[p] # 0 => ServerOf[p] = s /\ policyCache[p].gen # 0
  BY <1>2, SMTT(20)
<1>6. \A p \in Policies : Listed(s, p) => Gone(p) \/ list[p] # 0
  <2> SUFFICES ASSUME NEW p \in Policies, Listed(s, p) PROVE Gone(p) \/ list[p] # 0
    OBVIOUS
  <2>1. ServerOf[p] = s /\ policyCache[p].gen # 0
    BY DEF Order, ListedIsKnown
  <2>2. policyCache[p].phase = "absent" => Gone(p)
    BY <2>1 DEF Order, PolicyCacheBehind
  <2> QED
    BY <1>2, <2>1, <2>2
<1>7. UNCHANGED <<policy, policyCache, current, webhook, server, serverCache, configMap,
                  configMapCache, pr>> /\ ServerCopyOf(s)
  BY DEF ServerBegin
<1>8. ServerReconcilerKeeps'
  <2> SUFFICES ASSUME NEW r \in Servers
               PROVE  /\ sr'[r].pc \in {"configmap", "deployment", "status"} =>
                             server[r] # "absent"
                      /\ sr'[r].pc = "configmap" =>
                             \A p \in Policies :
                                 /\ Listed(r, p) => Gone(p) \/ sr'[r].list[p] # 0
                                 /\ sr'[r].list[p] # 0 =>
                                        ServerOf[p] = r /\ policyCache[p].gen # 0
                      /\ sr'[r].pc = "finalize" =>
                             /\ \A p \in Policies : Listed(r, p) => Gone(p)
                             /\ "reconciler" \in serverCurrent'[r] => server[r] = "deleting"
    <3>1. UNCHANGED <<server, policyCache>> /\ \A p \in Policies : Gone(p)' = Gone(p)
      BY <1>7 DEF Gone
    <3>2. \A p \in Policies, q \in Servers : Listed(q, p)' = Listed(q, p)
      BY <1>7 DEF Listed
    <3> QED
      BY <3>1, <3>2 DEF ServerReconcilerKeeps
  <2>1. CASE r = s
    BY <1>3, <1>4, <1>5, <1>6, <2>1
  <2>2. CASE r # s
    <3>1. sr'[r] = sr[r] /\ serverCurrent'[r] = serverCurrent[r]
      BY <1>3, <2>2
    <3>2. ServerReconcilerKeeps
      BY DEF Order
    <3> QED
      BY <3>1, <3>2 DEF ServerReconcilerKeeps
  <2> QED
    BY <2>1, <2>2
<1> QED
  BY <1>7, <1>8, ServerCopyKeeps, OrderServerStep DEF Order

\* The ConfigMap drops only policies that are gone.
LEMMA ReconcileConfigMapOrder ==
    ASSUME TypeOK, Order, NEW s \in Servers, ReconcileConfigMap(s)
    PROVE  Order'
<1>1. /\ sr'[s].pc = "deployment"
      /\ \A r \in Servers : r # s => sr'[r] = sr[r] /\ configMap'[r] = configMap[r]
  BY DEF ReconcileConfigMap, TypeOK, ServerReconciler
<1>2. \/ configMap' = configMap
      \/ configMap'[s].exists /\ configMap'[s].gens = sr[s].list
  BY DEF ReconcileConfigMap, TypeOK
<1>3. UNCHANGED <<policy, policyCache, current, webhook, server, serverCache,
                  serverCurrent, configMapCache, pr>>
  BY DEF ReconcileConfigMap
<1>4. /\ server[s] # "absent"
      /\ \A p \in Policies :
             /\ Listed(s, p) => Gone(p) \/ sr[s].list[p] # 0
             /\ sr[s].list[p] # 0 => ServerOf[p] = s /\ policyCache[p].gen # 0
  BY DEF ReconcileConfigMap, Order, ServerReconcilerKeeps
<1>5. \A r \in Servers, p \in Policies : Listed(r, p) => Gone(p) \/ Listed(r, p)'
  BY <1>1, <1>2, <1>4 DEF Listed
<1>6. PolicyCacheBehind' /\ ServerCacheBehind'
  BY <1>3 DEF Order, PolicyCacheBehind, ServerCacheBehind, Gone
<1>7. ListedIsKnown'
  BY <1>1, <1>2, <1>3, <1>4 DEF Order, ListedIsKnown, Listed, Gone
<1>8. CachedEntryStays'
  BY <1>3, <1>5 DEF Order, CachedEntryStays, Gone
<1>9. ServerReconcilerKeeps'
  <2> SUFFICES ASSUME NEW r \in Servers
               PROVE  /\ sr'[r].pc \in {"configmap", "deployment", "status"} =>
                             server[r] # "absent"
                      /\ sr'[r].pc = "configmap" =>
                             \A p \in Policies :
                                 /\ Listed(r, p)' => Gone(p) \/ sr'[r].list[p] # 0
                                 /\ sr'[r].list[p] # 0 =>
                                        ServerOf[p] = r /\ policyCache[p].gen # 0
                      /\ sr'[r].pc = "finalize" =>
                             /\ \A p \in Policies : Listed(r, p)' => Gone(p)
                             /\ "reconciler" \in serverCurrent[r] => server[r] = "deleting"
    BY <1>3 DEF ServerReconcilerKeeps, Gone
  <2>1. CASE r = s
    BY <1>1, <1>4, <2>1
  <2>2. CASE r # s
    <3>1. sr'[r] = sr[r] /\ \A p \in Policies : Listed(r, p)' = Listed(r, p)
      BY <1>1, <2>2 DEF Listed
    <3> QED
      BY <3>1 DEF Order, ServerReconcilerKeeps
  <2> QED
    BY <2>1, <2>2
<1>10. PolicyReconcilerHolds' /\ RegisteredHolds'
  <2>1. PolicyReconcilerHolds'
    BY <1>3, <1>5, ConstantsAssumption DEF Order, PolicyReconcilerHolds, Exists, Gone
  <2>2. RegisteredHolds'
    BY <1>3, <1>5, ConstantsAssumption DEF Order, RegisteredHolds, Exists, Gone
  <2> QED
    BY <2>1, <2>2
<1> QED
  BY <1>6, <1>7, <1>8, <1>9, <1>10 DEF Order

\* The Deployment is written once the ConfigMap is.
LEMMA ReconcileDeploymentOrder ==
    ASSUME TypeOK, Order, NEW s \in Servers, ReconcileDeployment(s)
    PROVE  Order'
<1>1. /\ sr'[s].pc = "status" /\ sr[s].pc = "deployment"
      /\ \A r \in Servers : r # s => sr'[r] = sr[r]
  BY DEF ReconcileDeployment, TypeOK, ServerReconciler
<1>2. ServerReconcilerKeeps'
  BY <1>1 DEF ReconcileDeployment, Order, ServerReconcilerKeeps, Listed, Gone
<1> QED
  BY <1>2, OrderServerStep DEF ReconcileDeployment, Order, ServerCacheBehind

\* A status update ends the reconciliation of a PolicyServer.
LEMMA UpdateServerStatusOrder ==
    ASSUME TypeOK, Order, NEW s \in Servers, UpdateServerStatus(s)
    PROVE  Order'
<1>1. \A r \in Servers :
          /\ "cache" \in serverCurrent'[r] => "cache" \in serverCurrent[r]
          /\ "reconciler" \in serverCurrent'[r] => "cache" \in serverCurrent'[r]
          /\ r # s => serverCurrent'[r] = serverCurrent[r]
  BY DEF UpdateServerStatus, TypeOK, Order, ServerCacheBehind
<1> QED
  BY <1>1, ServerDone, Zenon DEF UpdateServerStatus

\* So does a failed write.
LEMMA ServerFailsOrder ==
    ASSUME TypeOK, Order, NEW s \in Servers, ServerFails(s)
    PROVE  Order'
<1>1. \A r \in Servers : r # s => serverCurrent'[r] = serverCurrent[r]
  BY DEF ServerFails, ServerForget, TypeOK
<1> QED
  BY <1>1, ServerCopyKeeps, ServerDone, Zenon DEF ServerFails, Order

\* So does a conflict on the removal of the finalizer.
LEMMA ServerFinalizeConflictOrder ==
    ASSUME TypeOK, Order, NEW s \in Servers, ServerFinalizeConflict(s)
    PROVE  Order'
  BY ServerDone, ZenonT(30) DEF ServerFinalizeConflict, Order, ServerCacheBehind

\* A PolicyServer is about to be let go once the cache shows none of its policies.
LEMMA ServerBeginFinalizeOrder ==
    ASSUME TypeOK, Order, Benign, NEW s \in Servers, ServerBeginFinalize(s)
    PROVE  Order'
<1>1. /\ sr'[s].pc = "finalize"
      /\ \A r \in Servers : r # s => /\ sr'[r] = sr[r]
                                     /\ serverCurrent'[r] = serverCurrent[r]
  BY DEF ServerBeginFinalize, ServerCopyOf, TypeOK
<1>2. \A p \in Policies : 0 = IF ServerOf[p] = s /\ policyCache[p].phase # "absent"
                              THEN policyCache[p].gen ELSE 0
  BY ListsAll DEF ServerBeginFinalize, NoPolicies
<1>3. \A p \in Policies : Listed(s, p) => Gone(p)
  BY <1>2 DEF Order, ListedIsKnown, PolicyCacheBehind
<1>4. "reconciler" \in serverCurrent'[s] => server[s] = "deleting"
  <2>1. "reconciler" \in serverCurrent'[s] => "cache" \in serverCurrent[s]
    BY ServerCopyKeeps DEF ServerBeginFinalize, Order
  <2> QED
    BY <2>1 DEF ServerBeginFinalize, ServerDequeued, Order, ServerCacheBehind
<1>5. UNCHANGED <<policy, policyCache, current, webhook, server, serverCache, configMap,
                  configMapCache, pr>> /\ ServerCopyOf(s)
  BY DEF ServerBeginFinalize
<1>6. ServerReconcilerKeeps'
  <2> SUFFICES ASSUME NEW r \in Servers
               PROVE  /\ sr'[r].pc \in {"configmap", "deployment", "status"} =>
                             server[r] # "absent"
                      /\ sr'[r].pc = "configmap" =>
                             \A p \in Policies :
                                 /\ Listed(r, p) => Gone(p) \/ sr'[r].list[p] # 0
                                 /\ sr'[r].list[p] # 0 =>
                                        ServerOf[p] = r /\ policyCache[p].gen # 0
                      /\ sr'[r].pc = "finalize" =>
                             /\ \A p \in Policies : Listed(r, p) => Gone(p)
                             /\ "reconciler" \in serverCurrent'[r] => server[r] = "deleting"
    <3>1. UNCHANGED <<server, policyCache>> /\ \A p \in Policies : Gone(p)' = Gone(p)
      BY <1>5 DEF Gone
    <3>2. \A p \in Policies, q \in Servers : Listed(q, p)' = Listed(q, p)
      BY <1>5 DEF Listed
    <3> QED
      BY <3>1, <3>2 DEF ServerReconcilerKeeps
  <2>1. CASE r = s
    BY <1>1, <1>3, <1>4, <2>1
  <2>2. CASE r # s
    <3>1. sr'[r] = sr[r] /\ serverCurrent'[r] = serverCurrent[r]
      BY <1>1, <2>2
    <3>2. ServerReconcilerKeeps
      BY DEF Order
    <3> QED
      BY <3>1, <3>2 DEF ServerReconcilerKeeps
  <2> QED
    BY <2>1, <2>2
<1> QED
  BY <1>5, <1>6, ServerCopyKeeps, OrderServerStep DEF Order

\* A PolicyServer goes when every policy its ConfigMap lists is gone.
LEMMA RemoveServerFinalizerOrder ==
    ASSUME TypeOK, Order, NEW s \in Servers, RemoveServerFinalizer(s)
    PROVE  Order'
<1>1. server[s] = "deleting" /\ serverCache[s] = "deleting"
  BY DEF RemoveServerFinalizer, Order, ServerReconcilerKeeps, ServerCacheBehind
<1>2. \A p \in Policies : Listed(s, p) => Gone(p)
  BY DEF RemoveServerFinalizer, Order, ServerReconcilerKeeps
<1>3. /\ server'[s] = "absent" /\ serverCurrent'[s] = {} /\ sr'[s].pc = "idle"
      /\ \A r \in Servers : r # s => /\ server'[r] = server[r]
                                     /\ serverCurrent'[r] = serverCurrent[r]
                                     /\ sr'[r] = sr[r]
  BY DEF RemoveServerFinalizer, IdleServer, TypeOK
<1>4. UNCHANGED <<policy, policyCache, current, webhook, serverCache, configMap,
                  configMapCache, pr>>
  BY DEF RemoveServerFinalizer
<1>5. PolicyCacheBehind' /\ CachedEntryStays'
  BY <1>4 DEF Order, PolicyCacheBehind, CachedEntryStays, Gone, Listed
<1>6. ServerCacheBehind'
  BY <1>1, <1>3, <1>4 DEF Order, ServerCacheBehind
<1>7. ListedIsKnown'
  BY <1>2, <1>3, <1>4 DEF Order, ListedIsKnown, Gone, Listed
<1>8. ServerReconcilerKeeps'
  BY <1>3, <1>4 DEF Order, ServerReconcilerKeeps, Gone, Listed
<1>9. PolicyReconcilerHolds' /\ RegisteredHolds'
  BY <1>4 DEF Order, PolicyReconcilerHolds, RegisteredHolds, Exists, Listed
<1> QED
  BY <1>5, <1>6, <1>7, <1>8, <1>9 DEF Order

\* The ConfigMap of a PolicyServer is collected after the PolicyServer.
LEMMA CollectConfigMapOrder ==
    ASSUME TypeOK, Order, NEW s \in Servers, CollectConfigMap(s)
    PROVE  Order'
<1>1. /\ \A p \in Policies : ~Listed(s, p)'
      /\ \A r \in Servers : r # s => configMap'[r] = configMap[r]
  BY DEF CollectConfigMap, NoPolicies, Listed, TypeOK, ConfigMapObject
<1>2. \A p \in Policies : Listed(s, p) => Gone(p)
  BY DEF CollectConfigMap, Order, ListedIsKnown
<1>3. \A r \in Servers, p \in Policies : /\ Listed(r, p) => Gone(p) \/ Listed(r, p)'
                                         /\ Listed(r, p)' => Listed(r, p) /\ r # s
  BY <1>1, <1>2 DEF Listed
<1>4. UNCHANGED <<policy, policyCache, current, webhook, server, serverCache,
                  serverCurrent, configMapCache, pr, sr>>
  BY DEF CollectConfigMap
<1>5. PolicyCacheBehind' /\ ServerCacheBehind'
  BY <1>4 DEF Order, PolicyCacheBehind, ServerCacheBehind, Gone
<1>6. ListedIsKnown' /\ CachedEntryStays'
  <2>1. ListedIsKnown'
    <3> SUFFICES ASSUME NEW r \in Servers, NEW p \in Policies, Listed(r, p)'
                 PROVE  /\ ServerOf[p] = r /\ policyCache[p].gen # 0
                        /\ configMap'[r].exists
                        /\ Gone(p) \/ server[r] # "absent"
      BY <1>4 DEF ListedIsKnown, Gone
    <3>1. Listed(r, p) /\ configMap'[r] = configMap[r]
      BY <1>1, <1>3
    <3> QED
      BY <3>1 DEF Order, ListedIsKnown
  <2>2. CachedEntryStays'
    BY <1>3, <1>4 DEF Order, CachedEntryStays, Gone
  <2> QED
    BY <2>1, <2>2
<1>7. ServerReconcilerKeeps'
  <2>1. \A p \in Policies : Gone(p) => Gone(p)'
    BY <1>4 DEF Gone
  <2> QED
    BY <1>3, <1>4, <2>1, ServerReconcilerUndisturbed DEF Order
<1>8. PolicyReconcilerHolds' /\ RegisteredHolds'
  <2>1. PolicyReconcilerHolds'
    BY <1>3, <1>4, ConstantsAssumption DEF Order, PolicyReconcilerHolds, Exists, Gone
  <2>2. RegisteredHolds'
    BY <1>3, <1>4, ConstantsAssumption DEF Order, RegisteredHolds, Exists, Gone
  <2> QED
    BY <2>1, <2>2
<1> QED
  BY <1>5, <1>6, <1>7, <1>8 DEF Order

\* What the PolicyServer informers deliver, a reconciliation of a PolicyServer
\* and what Kubernetes does with its objects keep Order.
LEMMA ServerStepOrder ==
    ASSUME Benign, Inv, NEW v \in Servers,
           \/ InformServer(v)
           \/ ReconcileServer(v)
           \/ Kubernetes(v)
           \/ PodFaults(v)
           \/ ResyncServer(v)
    PROVE  Order'
<1> USE DEF Inv
<1>1. ASSUME NEW s \in Servers,
              ServerNotFound(s) \/ SyncDeployment(s) \/ SyncPods(s) \/ ResyncServer(s)
       PROVE  Order'
  BY <1>1, OrderFrame, ZenonT(30) DEF ServerNotFound, SyncDeployment, SyncPods, ResyncServer
<1>2. ASSUME NEW s \in Servers,
              CollectDeployment(s) \/ RollOut(s) \/ PodReady(s) \/ StopPod(s) \/ PodFaults(s)
       PROVE  Order'
  BY <1>2, OrderFrame DEF CollectDeployment, RollOut, PodReady, StopPod, PodFaults,
     CreatePod, RestartPod
<1>3. ASSUME NEW s \in Servers, ReconcileServer(s) PROVE Order'
  BY DeletePoliciesAndRequeueOrder, ServerBeginOrder, ReconcileConfigMapOrder,
     ReconcileDeploymentOrder, UpdateServerStatusOrder, ServerFailsOrder,
     ServerFinalizeConflictOrder, ServerBeginFinalizeOrder, RemoveServerFinalizerOrder,
     <1>1, <1>3
     DEF ReconcileServer
<1> QED
  BY SyncServerOrder, SyncConfigMapOrder, CollectConfigMapOrder, <1>1, <1>2, <1>3
     DEF InformServer, Kubernetes

\* Every step keeps Order.
LEMMA NextOrder ==
    ASSUME Benign, Inv, Next
    PROVE  Order'
  BY PolicyStepOrder, ServerStepOrder DEF Next

\* A PolicyServer disappears only when its reconciler removes the finalizer.
LEMMA ServerLeaves ==
    ASSUME TypeOK, Next, NEW s \in Servers, server[s] # "absent", server'[s] = "absent"
    PROVE  RemoveServerFinalizer(s)
<1>1. CASE Users
  <2>1. CASE \E r \in Servers : CreateServer(r) \/ DeleteServer(r)
    BY <2>1 DEF CreateServer, DeleteServer, TypeOK
  <2> QED
    BY <1>1, <2>1, ZenonT(30) DEF Users, CreatePolicy, UpdatePolicy, DeletePolicy,
       DeleteWebhook, clusterVars
<1>2. ASSUME NEW p \in Policies, InformPolicy(p) \/ ResyncPolicy(p) PROVE FALSE
  BY <1>2 DEF InformPolicy, ResyncPolicy, SyncPolicy, SyncWebhook
<1>3. ASSUME NEW r \in Servers, InformServer(r) \/ ResyncServer(r) PROVE FALSE
  BY <1>3 DEF InformServer, ResyncServer, SyncServer, SyncConfigMap, SyncDeployment,
     SyncPods
<1>4. ASSUME NEW p \in Policies, ReconcilePolicy(p) PROVE FALSE
  BY <1>4, ZenonT(30) DEF ReconcilePolicy, PolicyNotFound, PolicyScheduled,
     PolicyWaits, PolicyReachable, PolicyBegin, ReconcileWebhook, WebhookFails,
     UpdateStatus, StatusFails, ReconcileWebhookDeletion, RemovePolicyFinalizer,
     PolicyFinalizeFails
<1>5. ASSUME NEW r \in Servers, ReconcileServer(r) PROVE RemoveServerFinalizer(s)
  <2>1. CASE RemoveServerFinalizer(r)
    BY <2>1 DEF RemoveServerFinalizer, TypeOK
  <2> QED
    BY <1>5, <2>1, ZenonT(30) DEF ReconcileServer, ServerNotFound, ServerBegin,
       ReconcileConfigMap, ReconcileDeployment, UpdateServerStatus, ServerFails,
       DeletePoliciesAndRequeue, ServerBeginFinalize, ServerFinalizeConflict
<1>6. ASSUME NEW r \in Servers, Kubernetes(r) \/ PodFaults(r) PROVE FALSE
  BY <1>6 DEF Kubernetes, PodFaults, CollectConfigMap, CollectDeployment, RollOut,
     PodReady, StopPod, CreatePod, RestartPod
<1>7. CASE Crash
  BY <1>7 DEF Crash
<1> QED
  BY <1>1, <1>2, <1>3, <1>4, <1>5, <1>6, <1>7 DEF Next

-----------------------------------------------------------------------------
(* Theorems *)

\* The inductive invariant holds when the assumptions of Benign do.
THEOREM InvHolds == ASSUME Benign PROVE Spec => []Inv
<1>1. Init => Inv
  BY InitTypeOK, InitOrder DEF Inv
<1>2. Inv /\ [Next]_vars => Inv'
  <2> SUFFICES ASSUME Inv, [Next]_vars PROVE Inv'
    OBVIOUS
  <2>1. TypeOK'
    BY NextTypeOK DEF Inv
  <2>2. CASE Next
    BY <2>1, <2>2, NextOrder DEF Inv
  <2>3. CASE UNCHANGED vars
    BY <2>1, <2>3, OrderFrame DEF Inv, vars
  <2> QED
    BY <2>2, <2>3
<1> QED
  BY <1>1, <1>2, PTL DEF Spec

\* reconcilePolicyDeletion leaves no webhook configuration behind: there is none
\* without its policy, through any interleaving, crash, conflict or failed write.
THEOREM NoWebhookIsOrphaned == ASSUME Benign PROVE Spec => []NoOrphanWebhook
<1>1. Inv => NoOrphanWebhook
  BY DEF Inv, Order, RegisteredHolds, NoOrphanWebhook
<1> QED
  BY <1>1, InvHolds, PTL

\* Whatever the two reconcilers do in between, a registered policy is listed by
\* the ConfigMap of a PolicyServer that exists.
THEOREM RegisteredStaysConfigured == ASSUME Benign PROVE Spec => []RegisteredIsConfigured
<1>1. Inv => RegisteredIsConfigured
  BY ConstantsAssumption DEF Inv, Order, RegisteredHolds, ListedIsKnown, Listed, Gone,
     Exists, RegisteredIsConfigured
<1> QED
  BY <1>1, InvHolds, PTL

\* The finalizer of a PolicyServer goes last: when the object disappears, every
\* policy its ConfigMap lists is gone already.
THEOREM ServerIsRemovedLast == ASSUME Benign PROVE Spec => ServerRemovedLast
<1> DEFINE Step == \A s \in Servers :
                      server[s] # "absent" /\ server'[s] = "absent" =>
                          \A p \in Policies : configMap[s].gens[p] # 0 => ~Exists(p)
<1>1. Inv /\ [Next]_vars => [Step]_vars
  <2> SUFFICES ASSUME Inv, Next, NEW s \in Servers, server[s] # "absent",
                      server'[s] = "absent", NEW p \in Policies, configMap[s].gens[p] # 0
               PROVE  ~Exists(p)
    OBVIOUS
  <2>1. RemoveServerFinalizer(s)
    BY ServerLeaves DEF Inv
  <2> QED
    BY <2>1 DEF RemoveServerFinalizer, Inv, Order, ServerReconcilerKeeps, Listed, Gone,
     Exists
<1> QED
  BY <1>1, InvHolds, PTL DEF Spec, ServerRemovedLast
=============================================================================
