------------------------ MODULE PolicyLifecycleOrder -------------------------
(***************************************************************************)
(* The inductive invariant of PolicyLifecycle: how far a cache, and a      *)
(* reconciler that works from it, may be behind the API server.  The steps *)
(* of users and of the policy reconciler keep it.  Type correctness, for   *)
(* any number of policies, PolicyServers and writes, any lag and any       *)
(* faults.                                                                 *)
(***************************************************************************)
EXTENDS PolicyLifecycle, TLAPS

USE DEF policyVars, serverVars, workloadVars, cacheVars, queueVars, clusterVars,
        controllerVars

-----------------------------------------------------------------------------
(* How far the caches are behind *)

\* What the safety theorems need besides the code: no List error is swallowed,
\* spec.mutating does not change, names are not used again, and a deletion does
\* not overtake the webhook informer.
Benign ==
    /\ "listError" \notin Faults
    /\ "toggle" \notin Faults
    /\ "recreate" \notin Faults
    /\ "webhook" \notin Lagging

\* The policy was created and is no more.
Gone(p) == policy[p].phase = "absent" /\ policy[p].gen # 0

Listed(s, p) == configMap[s].gens[p] # 0

\* The policy cache holds an earlier state of the object, and is not behind the
\* removal of a finalizer that only a deletion seen in the cache can start.
PolicyCacheBehind ==
    \A p \in Policies :
        /\ policy[p].phase # "absent" => policy[p].gen # 0
        /\ policyCache[p].phase # "absent" => policyCache[p].gen # 0
        /\ policyCache[p].gen # 0 => /\ policy[p].gen # 0
                                     /\ policyCache[p].mutating = policy[p].mutating
        /\ policyCache[p].phase = "absent" /\ policyCache[p].gen # 0 => Gone(p)
        /\ policyCache[p].phase = "deleting" => policy[p].phase # "live"
        /\ policyCache[p].phase = "live" => ~Gone(p)
        /\ "cache" \in current[p] => policyCache[p] = policy[p]
        /\ "reconciler" \in current[p] => "cache" \in current[p]

ServerCacheBehind ==
    \A s \in Servers :
        /\ serverCache[s] = "live" => server[s] # "absent"
        /\ "cache" \in serverCurrent[s] => serverCache[s] = server[s]
        /\ "reconciler" \in serverCurrent[s] => "cache" \in serverCurrent[s]

\* What the ConfigMap lists has been seen in the policy cache, and belongs to a
\* PolicyServer that exists as long as the policy does.
ListedIsKnown ==
    \A s \in Servers, p \in Policies :
        Listed(s, p) => /\ ServerOf[p] = s
                        /\ policyCache[p].gen # 0
                        /\ configMap[s].exists
                        /\ Gone(p) \/ server[s] # "absent"

\* An entry seen in the cached ConfigMap stays until its policy is gone.
CachedEntryStays ==
    \A s \in Servers, p \in Policies :
        configMapCache[s].gens[p] # 0 => Gone(p) \/ Listed(s, p)

\* A PolicyServer reconciliation under way will not drop a policy that is not
\* gone, and one that is about to let the PolicyServer go has none left.
ServerReconcilerKeeps ==
    \A s \in Servers :
        /\ sr[s].pc \in {"configmap", "deployment", "status"} => server[s] # "absent"
        /\ sr[s].pc = "configmap" =>
               \A p \in Policies :
                   /\ Listed(s, p) => Gone(p) \/ sr[s].list[p] # 0
                   /\ sr[s].list[p] # 0 => ServerOf[p] = s /\ policyCache[p].gen # 0
        /\ sr[s].pc = "finalize" =>
               /\ \A p \in Policies : Listed(s, p) => Gone(p)
               /\ "reconciler" \in serverCurrent[s] => server[s] = "deleting"

\* A policy reconciliation that is about to register the webhook works for a
\* policy that exists and is listed; one that is about to let the policy go has
\* removed the webhook.
PolicyReconcilerHolds ==
    \A p \in Policies :
        /\ pr[p].pc = "webhook" =>
               /\ Exists(p)
               /\ Listed(ServerOf[p], p)
               /\ pr[p].obj.mutating = policy[p].mutating
        /\ pr[p].pc = "finalize" =>
               /\ \A k \in WebhookKinds : webhook[p][k] = 0
               /\ "reconciler" \in current[p] => policy[p].phase = "deleting"

RegisteredHolds ==
    \A p \in Policies, k \in WebhookKinds :
        webhook[p][k] # 0 => /\ Exists(p)
                             /\ k = KindOf(policy[p])
                             /\ Listed(ServerOf[p], p)

\* Everything the safety properties rest on.
Order ==
    /\ PolicyCacheBehind
    /\ ServerCacheBehind
    /\ ListedIsKnown
    /\ CachedEntryStays
    /\ ServerReconcilerKeeps
    /\ PolicyReconcilerHolds
    /\ RegisteredHolds

Inv == TypeOK /\ Order

-----------------------------------------------------------------------------
(* Order *)

\* A step that touches one policy, and does not take it to its webhook, leaves
\* what the reconcilers of the others rely on.
LEMMA OtherReconcilersUndisturbed ==
    ASSUME PolicyReconcilerHolds, NEW p \in Policies,
           UNCHANGED configMap,
           \A q \in Policies : q # p => /\ pr'[q] = pr[q] /\ policy'[q] = policy[q]
                                        /\ current'[q] = current[q]
                                        /\ webhook'[q] = webhook[q],
           pr'[p].pc # "webhook",
           pr'[p].pc = "finalize" =>
               /\ \A k \in WebhookKinds : webhook'[p][k] = 0
               /\ "reconciler" \in current'[p] => policy'[p].phase = "deleting"
    PROVE  PolicyReconcilerHolds'
<1> SUFFICES ASSUME NEW q \in Policies, q # p
             PROVE  /\ pr'[q].pc = "webhook" =>
                           /\ Exists(q)'
                           /\ Listed(ServerOf[q], q)'
                           /\ pr'[q].obj.mutating = policy'[q].mutating
                    /\ pr'[q].pc = "finalize" =>
                           /\ \A k \in WebhookKinds : webhook'[q][k] = 0
                           /\ "reconciler" \in current'[q] => policy'[q].phase = "deleting"
  BY DEF PolicyReconcilerHolds
<1>1. Exists(q)' = Exists(q) /\ Listed(ServerOf[q], q)' = Listed(ServerOf[q], q)
  BY DEF Exists, Listed
<1> QED
  BY <1>1 DEF PolicyReconcilerHolds

\* A step that lists nothing new, brings no policy back and empties no cache, and
\* at most makes the copies of a PolicyServer that exists stale, leaves what the
\* PolicyServer reconciler relies on.
LEMMA ServerReconcilerStays ==
    ASSUME ServerReconcilerKeeps, UNCHANGED sr,
           \A s \in Servers :
               \/ server'[s] = server[s] /\ serverCurrent'[s] = serverCurrent[s]
               \/ serverCurrent'[s] = {} /\ server'[s] # "absent",
           \A p \in Policies : policyCache[p].gen # 0 => policyCache'[p].gen # 0,
           \A s \in Servers, p \in Policies : Listed(s, p)' => Listed(s, p),
           \A p \in Policies : Gone(p) => Gone(p)'
    PROVE  ServerReconcilerKeeps'
<1> SUFFICES ASSUME NEW s \in Servers
             PROVE  /\ sr[s].pc \in {"configmap", "deployment", "status"} =>
                           server'[s] # "absent"
                    /\ sr[s].pc = "configmap" =>
                           \A p \in Policies :
                               /\ Listed(s, p)' => Gone(p)' \/ sr[s].list[p] # 0
                               /\ sr[s].list[p] # 0 =>
                                      ServerOf[p] = s /\ policyCache'[p].gen # 0
                    /\ sr[s].pc = "finalize" =>
                           /\ \A p \in Policies : Listed(s, p)' => Gone(p)'
                           /\ "reconciler" \in serverCurrent'[s] => server'[s] = "deleting"
  BY DEF ServerReconcilerKeeps
<1>1. sr[s].pc \in {"configmap", "deployment", "status"} => server'[s] # "absent"
  BY DEF ServerReconcilerKeeps
<1>2. sr[s].pc = "configmap" =>
          \A p \in Policies :
              /\ Listed(s, p)' => Gone(p)' \/ sr[s].list[p] # 0
              /\ sr[s].list[p] # 0 => ServerOf[p] = s /\ policyCache'[p].gen # 0
  <2> SUFFICES ASSUME sr[s].pc = "configmap", NEW p \in Policies
               PROVE  /\ Listed(s, p)' => Gone(p)' \/ sr[s].list[p] # 0
                      /\ sr[s].list[p] # 0 => ServerOf[p] = s /\ policyCache'[p].gen # 0
    OBVIOUS
  <2>1. /\ Listed(s, p) => Gone(p) \/ sr[s].list[p] # 0
        /\ sr[s].list[p] # 0 => ServerOf[p] = s /\ policyCache[p].gen # 0
    BY DEF ServerReconcilerKeeps
  <2> QED
    BY <2>1
<1>3. sr[s].pc = "finalize" =>
          /\ \A p \in Policies : Listed(s, p)' => Gone(p)'
          /\ "reconciler" \in serverCurrent'[s] => server'[s] = "deleting"
  <2> SUFFICES ASSUME sr[s].pc = "finalize"
               PROVE  /\ \A p \in Policies : Listed(s, p)' => Gone(p)'
                      /\ "reconciler" \in serverCurrent'[s] => server'[s] = "deleting"
    OBVIOUS
  <2>1. /\ \A p \in Policies : Listed(s, p) => Gone(p)
        /\ "reconciler" \in serverCurrent[s] => server[s] = "deleting"
    BY DEF ServerReconcilerKeeps
  <2>2. \A p \in Policies : Listed(s, p)' => Gone(p)'
    BY <2>1
  <2>3. "reconciler" \in serverCurrent'[s] => server'[s] = "deleting"
    BY <2>1
  <2> QED
    BY <2>2, <2>3
<1> QED
  BY <1>1, <1>2, <1>3

\* In particular a step that leaves PolicyServers and the policy cache alone.
LEMMA ServerReconcilerUndisturbed ==
    ASSUME ServerReconcilerKeeps,
           UNCHANGED <<sr, server, serverCurrent, policyCache>>,
           \A s \in Servers, p \in Policies : Listed(s, p)' => Listed(s, p),
           \A p \in Policies : Gone(p) => Gone(p)'
    PROVE  ServerReconcilerKeeps'
  BY ServerReconcilerStays

\* At the start there is nothing to be in order.
LEMMA InitOrder == Init => Order
<1> SUFFICES ASSUME Init PROVE Order
  OBVIOUS
<1>1. /\ \A p \in Policies :
             /\ policy[p] = NoPolicy /\ policyCache[p] = NoPolicy
             /\ current[p] = {"cache"} /\ pr[p].pc = "idle"
             /\ \A k \in WebhookKinds : webhook[p][k] = 0
      /\ \A s \in Servers :
             /\ server[s] = "absent" /\ serverCache[s] = "absent"
             /\ serverCurrent[s] = {"cache"} /\ sr[s].pc = "idle"
             /\ \A p \in Policies : configMap[s].gens[p] = 0 /\ configMapCache[s].gens[p] = 0
  <2>1. \A p \in Policies : policy[p] = NoPolicy /\ policyCache[p] = NoPolicy
    BY Zenon DEF Init
  <2>2. \A p \in Policies : current[p] = {"cache"} /\ pr[p].pc = "idle"
    BY Zenon DEF Init, IdlePolicy
  <2>3. \A p \in Policies, k \in WebhookKinds : webhook[p][k] = 0
    BY DEF Init, NoWebhooks
  <2>4. \A s \in Servers : server[s] = "absent" /\ serverCache[s] = "absent"
    BY DEF Init
  <2>5. \A s \in Servers : serverCurrent[s] = {"cache"} /\ sr[s].pc = "idle"
    BY DEF Init, IdleServer
  <2>6. \A s \in Servers : configMap[s] = NoConfigMap /\ configMapCache[s] = NoConfigMap
    BY DEF Init
  <2>7. \A p \in Policies : NoConfigMap.gens[p] = 0
    BY DEF NoConfigMap, NoPolicies
  <2> QED
    BY <2>1, <2>2, <2>3, <2>4, <2>5, <2>6, <2>7
<1>2. PolicyCacheBehind
  <2>1. NoPolicy.phase = "absent" /\ NoPolicy.gen = 0
    BY DEF NoPolicy
  <2> QED
    BY ZenonT(30), <1>1, <2>1 DEF PolicyCacheBehind, Gone
<1>3. ServerCacheBehind
  BY <1>1 DEF ServerCacheBehind
<1>4. ListedIsKnown /\ CachedEntryStays
  BY <1>1 DEF ListedIsKnown, CachedEntryStays, Listed
<1>5. ServerReconcilerKeeps
  BY <1>1 DEF ServerReconcilerKeeps
<1>6. PolicyReconcilerHolds /\ RegisteredHolds
  BY <1>1 DEF PolicyReconcilerHolds, RegisteredHolds
<1> QED
  BY <1>2, <1>3, <1>4, <1>5, <1>6 DEF Order

\* A step that leaves alone what Order talks about keeps it: what happens to
\* Deployments, pods and queues does not matter to it.
LEMMA OrderFrame ==
    ASSUME Order,
           UNCHANGED <<policy, policyCache, current, webhook, server, serverCache,
                       serverCurrent, configMap, configMapCache, pr, sr>>
    PROVE  Order'
<1>1. PolicyCacheBehind' /\ ServerCacheBehind'
  BY DEF Order, PolicyCacheBehind, ServerCacheBehind, Gone
<1>2. ListedIsKnown'
  BY DEF Order, ListedIsKnown, Gone, Listed
<1>3. CachedEntryStays'
  BY DEF Order, CachedEntryStays, Gone, Listed
<1>4. ServerReconcilerKeeps'
  BY DEF Order, ServerReconcilerKeeps, Gone, Listed
<1>5. PolicyReconcilerHolds'
  BY DEF Order, PolicyReconcilerHolds, Exists, Listed
<1>6. RegisteredHolds'
  BY DEF Order, RegisteredHolds, Exists, Listed
<1> QED
  BY <1>1, <1>2, <1>3, <1>4, <1>5, <1>6 DEF Order

\* A write to policies that neither removes one nor brings one back keeps Order:
\* it makes the written policy's copies stale and leaves it in existence.
LEMMA OrderWritten ==
    ASSUME Order,
           \A p \in Policies :
               \/ policy'[p] = policy[p] /\ current'[p] = current[p]
               \/ /\ current'[p] = {}
                  /\ policy'[p].phase # "absent"
                  /\ policy'[p].gen # 0
                  /\ ~Gone(p)
                  /\ policy[p].phase # "absent" => policy'[p].mutating = policy[p].mutating
                  /\ policy'[p].phase = "live" => policy[p].phase \in {"absent", "live"},
           UNCHANGED <<policyCache, webhook, server, serverCache, serverCurrent,
                       configMap, configMapCache, pr, sr>>
    PROVE  Order'
<1> USE DEF Order, Gone
<1>1. PolicyCacheBehind'
  BY DEF PolicyCacheBehind
<1>2. ServerCacheBehind'
  BY DEF ServerCacheBehind
<1>3. ListedIsKnown' /\ CachedEntryStays'
  <2>1. \A p \in Policies : Gone(p) => Gone(p)'
    OBVIOUS
  <2> HIDE DEF Gone
  <2>2. ListedIsKnown'
    BY <2>1 DEF ListedIsKnown, Listed
  <2>3. CachedEntryStays'
    BY <2>1 DEF CachedEntryStays, Listed
  <2> QED
    BY <2>2, <2>3
<1>4. ServerReconcilerKeeps'
  BY ServerReconcilerUndisturbed DEF Listed
<1>5. PolicyReconcilerHolds'
  <2> SUFFICES ASSUME NEW p \in Policies
               PROVE  /\ pr[p].pc = "webhook" =>
                             /\ Exists(p)'
                             /\ Listed(ServerOf[p], p)
                             /\ pr[p].obj.mutating = policy'[p].mutating
                      /\ pr[p].pc = "finalize" =>
                             /\ \A k \in WebhookKinds : webhook[p][k] = 0
                             /\ "reconciler" \in current'[p] => policy'[p].phase = "deleting"
    BY DEF PolicyReconcilerHolds, Listed
  <2>1. /\ pr[p].pc = "webhook" =>
               /\ Exists(p)
               /\ Listed(ServerOf[p], p)
               /\ pr[p].obj.mutating = policy[p].mutating
        /\ pr[p].pc = "finalize" =>
               /\ \A k \in WebhookKinds : webhook[p][k] = 0
               /\ "reconciler" \in current[p] => policy[p].phase = "deleting"
    BY DEF PolicyReconcilerHolds
  <2>2. CASE policy'[p] = policy[p] /\ current'[p] = current[p]
    BY <2>1, <2>2 DEF Exists
  <2>3. CASE ~(policy'[p] = policy[p] /\ current'[p] = current[p])
    BY <2>1, <2>3 DEF Exists
  <2> QED
    BY <2>2, <2>3
<1>6. RegisteredHolds'
  BY DEF RegisteredHolds, Listed, Exists, KindOf
<1> QED
  BY <1>1, <1>2, <1>3, <1>4, <1>5, <1>6

\* A policy reconciliation that does not write the policy object can only
\* disturb what is said about it and about webhook configurations.
LEMMA OrderPolicyStep ==
    ASSUME Order,
           \A p \in Policies : /\ "cache" \in current'[p] => "cache" \in current[p]
                               /\ "reconciler" \in current'[p] => "cache" \in current'[p],
           UNCHANGED <<policy, policyCache, server, serverCache, serverCurrent,
                       configMap, configMapCache, sr>>,
           PolicyReconcilerHolds', RegisteredHolds'
    PROVE  Order'
<1>1. PolicyCacheBehind'
  BY DEF Order, PolicyCacheBehind, Gone
<1>2. ServerCacheBehind'
  BY DEF Order, ServerCacheBehind
<1>3. ListedIsKnown'
  BY DEF Order, ListedIsKnown, Gone, Listed
<1>4. CachedEntryStays'
  BY DEF Order, CachedEntryStays, Gone, Listed
<1>5. ServerReconcilerKeeps'
  BY DEF Order, ServerReconcilerKeeps, Gone, Listed
<1> QED
  BY <1>1, <1>2, <1>3, <1>4, <1>5 DEF Order

\* A PolicyServer reconciliation that writes neither the PolicyServer nor the
\* ConfigMap can only disturb what is said about it.
LEMMA OrderServerStep ==
    ASSUME Order,
           \A s \in Servers :
               /\ "cache" \in serverCurrent'[s] => "cache" \in serverCurrent[s]
               /\ "reconciler" \in serverCurrent'[s] => "cache" \in serverCurrent'[s],
           UNCHANGED <<policy, policyCache, current, webhook, server, serverCache,
                       configMap, configMapCache, pr>>,
           ServerReconcilerKeeps'
    PROVE  Order'
<1>1. PolicyCacheBehind'
  BY DEF Order, PolicyCacheBehind, Gone
<1>2. ServerCacheBehind'
  BY DEF Order, ServerCacheBehind
<1>3. ListedIsKnown'
  BY DEF Order, ListedIsKnown, Gone, Listed
<1>4. CachedEntryStays'
  BY DEF Order, CachedEntryStays, Gone, Listed
<1>5. PolicyReconcilerHolds'
  BY DEF Order, PolicyReconcilerHolds, Exists, Listed
<1>6. RegisteredHolds'
  BY DEF Order, RegisteredHolds, Exists, Listed
<1> QED
  BY <1>1, <1>2, <1>3, <1>4, <1>5, <1>6 DEF Order

\* Copying the cached object, and forgetting the copy, keep the copies in order.
LEMMA CopyKeeps ==
    ASSUME TypeOK, PolicyCacheBehind, NEW p \in Policies, CopyOf(p) \/ Forget(p)
    PROVE  \A q \in Policies :
               /\ "cache" \in current'[q] => "cache" \in current[q]
               /\ "reconciler" \in current'[q] => "cache" \in current'[q]
<1>1. CASE CopyOf(p)
  BY <1>1 DEF CopyOf, TypeOK, PolicyCacheBehind, Copies
<1>2. CASE Forget(p)
  BY <1>2 DEF Forget, TypeOK, PolicyCacheBehind
<1> QED
  BY <1>1, <1>2

\* A policy reconciliation ends without having written the policy object, or
\* having written only its status.
LEMMA PolicyDone ==
    ASSUME TypeOK, Order, NEW p \in Policies,
           \A q \in Policies : /\ "cache" \in current'[q] => "cache" \in current[q]
                               /\ "reconciler" \in current'[q] => "cache" \in current'[q]
                               /\ current'[q] \subseteq current[q],
           pr' = [pr EXCEPT ![p] = IdlePolicy],
           UNCHANGED <<policy, policyCache, webhook, server, serverCache, serverCurrent,
                       configMap, configMapCache, sr>>
    PROVE  Order'
<1>1. pr'[p].pc = "idle" /\ \A q \in Policies : q # p => pr'[q] = pr[q]
  BY DEF TypeOK, IdlePolicy
<1>2. PolicyReconcilerHolds'
  <2> SUFFICES ASSUME NEW q \in Policies, q # p
               PROVE  /\ pr[q].pc = "webhook" =>
                             /\ Exists(q)
                             /\ Listed(ServerOf[q], q)
                             /\ pr[q].obj.mutating = policy[q].mutating
                      /\ pr[q].pc = "finalize" =>
                             /\ \A k \in WebhookKinds : webhook[q][k] = 0
                             /\ "reconciler" \in current'[q] => policy[q].phase = "deleting"
    BY <1>1 DEF PolicyReconcilerHolds, Exists, Listed
  <2>1. PolicyReconcilerHolds
    BY DEF Order
  <2>2. "reconciler" \in current'[q] => "reconciler" \in current[q]
    OBVIOUS
  <2> QED
    BY <2>1, <2>2 DEF PolicyReconcilerHolds
<1>3. RegisteredHolds'
  BY DEF Order, RegisteredHolds, Exists, Listed
<1> QED
  BY <1>2, <1>3, OrderPolicyStep

\* An informer that delivers a policy brings the cache forward.
LEMMA SyncPolicyOrder ==
    ASSUME TypeOK, Order, NEW p \in Policies, SyncPolicy(p)
    PROVE  Order'
<1>1. /\ policyCache'[p] = policy[p]
      /\ current'[p] = current[p] \cup {"cache"}
      /\ \A q \in Policies : q # p => /\ policyCache'[q] = policyCache[q]
                                      /\ current'[q] = current[q]
  BY DEF SyncPolicy, TypeOK
<1>2. UNCHANGED <<policy, webhook, server, serverCache, serverCurrent, configMap,
                  configMapCache, pr, sr>>
  BY DEF SyncPolicy
<1>3. policyCache[p].gen # 0 => policyCache'[p].gen # 0
  BY <1>1 DEF Order, PolicyCacheBehind
<1>4. PolicyCacheBehind'
  <2> SUFFICES ASSUME NEW q \in Policies
               PROVE  /\ policy[q].phase # "absent" => policy[q].gen # 0
                      /\ policyCache'[q].phase # "absent" => policyCache'[q].gen # 0
                      /\ policyCache'[q].gen # 0 =>
                             /\ policy[q].gen # 0
                             /\ policyCache'[q].mutating = policy[q].mutating
                      /\ policyCache'[q].phase = "absent" /\ policyCache'[q].gen # 0 => Gone(q)
                      /\ policyCache'[q].phase = "deleting" => policy[q].phase # "live"
                      /\ policyCache'[q].phase = "live" => ~Gone(q)
                      /\ "cache" \in current'[q] => policyCache'[q] = policy[q]
                      /\ "reconciler" \in current'[q] => "cache" \in current'[q]
    BY <1>2 DEF PolicyCacheBehind, Gone
  <2>1. CASE q = p
    BY <1>1, <2>1 DEF Order, PolicyCacheBehind, Gone
  <2>2. CASE q # p
    BY <1>1, <2>2 DEF Order, PolicyCacheBehind
  <2> QED
    BY <2>1, <2>2
<1>5. ServerCacheBehind'
  BY <1>2 DEF Order, ServerCacheBehind
<1>6. ListedIsKnown' /\ CachedEntryStays'
  <2>1. \A q \in Policies : policyCache[q].gen # 0 => policyCache'[q].gen # 0
    BY <1>1, <1>3
  <2>2. ListedIsKnown'
    BY <1>2, <2>1 DEF Order, ListedIsKnown, Gone, Listed
  <2>3. CachedEntryStays'
    BY <1>2 DEF Order, CachedEntryStays, Gone, Listed
  <2> QED
    BY <2>2, <2>3
<1>7. ServerReconcilerKeeps'
  <2>1. \A q \in Policies : policyCache[q].gen # 0 => policyCache'[q].gen # 0
    BY <1>1, <1>3
  <2>2. /\ \A s \in Servers, q \in Policies : Listed(s, q)' => Listed(s, q)
        /\ \A q \in Policies : Gone(q) => Gone(q)'
    BY <1>2 DEF Listed, Gone
  <2> QED
    BY <1>2, <2>1, <2>2, ServerReconcilerStays DEF Order
<1>8. "reconciler" \in current'[p] => "reconciler" \in current[p]
  BY <1>1
<1>9. PolicyReconcilerHolds'
  BY <1>1, <1>2, <1>8 DEF Order, PolicyReconcilerHolds, Exists, Listed
<1>10. RegisteredHolds'
  BY <1>2 DEF Order, RegisteredHolds, Exists, Listed
<1> QED
  BY <1>4, <1>5, <1>6, <1>7, <1>9, <1>10 DEF Order

\* A policy a user creates was not there before and is not in any cache.
LEMMA CreatePolicyOrder ==
    ASSUME TypeOK, Order, Benign, NEW p \in Policies, NEW m \in MutatingValues,
           CreatePolicy(p, m)
    PROVE  Order'
<1>1. policy[p].gen = 0 /\ policy[p].gen + 1 # 0
  <2>1. policy[p].gen = 0
    BY DEF CreatePolicy, Benign
  <2> QED
    BY <2>1
<1> QED
  BY <1>1, OrderWritten DEF CreatePolicy, WritePolicy, TypeOK, Gone

\* An update of a policy by a user leaves spec.mutating alone.
LEMMA UpdatePolicyOrder ==
    ASSUME TypeOK, Order, Benign, NEW p \in Policies, NEW m \in MutatingValues,
           UpdatePolicy(p, m)
    PROVE  Order'
<1>1. m = policy[p].mutating /\ policy[p].gen + 1 # 0
  <2>1. m = policy[p].mutating
    BY DEF UpdatePolicy, Benign
  <2>2. policy[p].gen \in Nat
    BY DEF TypeOK, PolicyObject
  <2> QED
    BY <2>1, <2>2
<1> QED
  BY <1>1, OrderWritten DEF UpdatePolicy, WritePolicy, TypeOK, Gone

\* A deletion by a user marks the policy and leaves it in existence.
LEMMA DeletePolicyOrder ==
    ASSUME TypeOK, Order, NEW p \in Policies, DeletePolicy(p)
    PROVE  Order'
<1>1. policy[p].gen # 0
  BY DEF DeletePolicy, Order, PolicyCacheBehind
<1>2. policy'[p].phase = "deleting" /\ policy'[p].gen = policy[p].gen
        /\ policy'[p].mutating = policy[p].mutating
  BY DEF DeletePolicy, WritePolicy, TypeOK, PolicyObject
<1> QED
  BY <1>1, <1>2, OrderWritten DEF DeletePolicy, WritePolicy, TypeOK, Gone

\* A user who deletes a webhook configuration registers nothing.
LEMMA DeleteWebhookOrder ==
    ASSUME TypeOK, Order, NEW p \in Policies, NEW k \in WebhookKinds, DeleteWebhook(p, k)
    PROVE  Order'
<1>1. \A q \in Policies, j \in WebhookKinds : webhook'[q][j] # 0 => webhook[q][j] # 0
  BY DEF DeleteWebhook, TypeOK
<1>2. PolicyReconcilerHolds' /\ RegisteredHolds'
  BY <1>1 DEF DeleteWebhook, PolicyReconcilerHolds, RegisteredHolds, Exists,
     Listed, Order
<1>3. PolicyCacheBehind
  BY DEF Order
<1> QED
  BY <1>2, <1>3, OrderPolicyStep DEF DeleteWebhook, PolicyCacheBehind

\* A write to a PolicyServer that does not remove it keeps Order: its copies become stale.
LEMMA OrderServerWritten ==
    ASSUME Order,
           \A s \in Servers :
               \/ server'[s] = server[s] /\ serverCurrent'[s] = serverCurrent[s]
               \/ serverCurrent'[s] = {} /\ server'[s] # "absent",
           UNCHANGED <<policy, policyCache, current, webhook, serverCache, configMap,
                       configMapCache, pr, sr>>
    PROVE  Order'
<1>1. PolicyCacheBehind'
  BY DEF Order, PolicyCacheBehind, Gone
<1>2. CachedEntryStays'
  BY DEF Order, CachedEntryStays, Gone, Listed
<1>3. ServerCacheBehind'
  BY DEF Order, ServerCacheBehind
<1>4. ListedIsKnown'
  <2> SUFFICES ASSUME NEW s \in Servers, NEW p \in Policies, Listed(s, p)
               PROVE  /\ ServerOf[p] = s
                      /\ policyCache[p].gen # 0
                      /\ configMap[s].exists
                      /\ Gone(p) \/ server'[s] # "absent"
    BY DEF ListedIsKnown, Listed, Gone
  <2> QED
    BY DEF Order, ListedIsKnown
<1>5. ServerReconcilerKeeps'
  <2>1. /\ \A s \in Servers, p \in Policies : Listed(s, p)' => Listed(s, p)
        /\ \A p \in Policies : Gone(p) => Gone(p)'
    BY DEF Listed, Gone
  <2> QED
    BY <2>1, ServerReconcilerStays DEF Order
<1>6. PolicyReconcilerHolds'
  BY DEF Order, PolicyReconcilerHolds, Exists, Listed
<1>7. RegisteredHolds'
  BY DEF Order, RegisteredHolds, Exists, Listed
<1> QED
  BY <1>1, <1>2, <1>3, <1>4, <1>5, <1>6, <1>7 DEF Order

\* A PolicyServer a user creates has no entries yet that it could lose, and a
\* deletion by a user leaves it in existence.
LEMMA ServerWrittenOrder ==
    ASSUME TypeOK, Order, NEW s \in Servers, CreateServer(s) \/ DeleteServer(s)
    PROVE  Order'
<1>1. \A r \in Servers : \/ server'[r] = server[r] /\ serverCurrent'[r] = serverCurrent[r]
                         \/ serverCurrent'[r] = {} /\ server'[r] # "absent"
  BY DEF CreateServer, DeleteServer, TypeOK
<1>2. UNCHANGED <<policy, policyCache, current, webhook, serverCache, configMap,
                  configMapCache, pr, sr>>
  BY DEF CreateServer, DeleteServer
<1> QED
  BY <1>1, <1>2, OrderServerWritten

\* A reconciliation that goes straight to the status update registers nothing.
LEMMA PolicyBeginOrder ==
    ASSUME TypeOK, Order, NEW p \in Policies, NEW out, NEW again,
           PolicyBegin(p, "status", out, again)
    PROVE  Order'
<1>1. /\ pr'[p].pc = "status"
      /\ \A q \in Policies : q # p => pr'[q] = pr[q] /\ current'[q] = current[q]
  BY DEF PolicyBegin, Proceed, CopyOf, TypeOK
<1>2. CopyOf(p) /\ UNCHANGED <<policy, policyCache, webhook, server, serverCache,
                               serverCurrent, configMap, configMapCache, sr>>
  BY Zenon DEF PolicyBegin
<1>3. PolicyReconcilerHolds'
  BY ZenonT(30), <1>1, <1>2 DEF Order, PolicyReconcilerHolds, Exists, Listed
<1>4. RegisteredHolds'
  BY Zenon, <1>2 DEF Order, RegisteredHolds, Exists, Listed
<1> QED
  BY <1>2, <1>3, <1>4, CopyKeeps, OrderPolicyStep DEF Order

\* isPolicyUniquelyReachable finds the policy in the cached ConfigMap, so the
\* ConfigMap lists it when the reconciler goes on to register its webhook.
LEMMA PolicyReachableOrder ==
    ASSUME TypeOK, Order, NEW p \in Policies, PolicyReachable(p)
    PROVE  Order'
<1>1. pr'[p].pc = "webhook" /\ pr'[p].obj = policyCache[p]
        /\ \A q \in Policies : q # p => pr'[q] = pr[q] /\ current'[q] = current[q]
  BY DEF PolicyReachable, PolicyBegin, Proceed, CopyOf, TypeOK
<1>2. Exists(p) /\ policyCache[p].mutating = policy[p].mutating
  BY DEF PolicyReachable, PolicyBegin, Order, PolicyCacheBehind, Exists, Gone
<1>3. Listed(ServerOf[p], p)
  BY <1>2, ConstantsAssumption DEF PolicyReachable, PolicyBegin, IsPolicyUniquelyReachable,
     Order, CachedEntryStays, Gone, Exists
<1>4. CopyOf(p) /\ UNCHANGED <<policy, policyCache, webhook, server, serverCache,
                               serverCurrent, configMap, configMapCache, sr>>
  BY DEF PolicyReachable, PolicyBegin
<1>5. PolicyReconcilerHolds'
  BY <1>1, <1>2, <1>3, <1>4 DEF Order, PolicyReconcilerHolds, Exists, Listed
<1>6. RegisteredHolds'
  BY <1>4 DEF Order, RegisteredHolds, Exists, Listed
<1> QED
  BY <1>4, <1>5, <1>6, CopyKeeps, OrderPolicyStep DEF Order

\* The webhook is registered for a policy that exists and is still listed.
LEMMA ReconcileWebhookOrder ==
    ASSUME TypeOK, Order, NEW p \in Policies, ReconcileWebhook(p)
    PROVE  Order'
<1> DEFINE k == KindOf(pr[p].obj)
<1>1. k = KindOf(policy[p]) /\ Exists(p) /\ Listed(ServerOf[p], p)
  BY DEF ReconcileWebhook, Order, PolicyReconcilerHolds, KindOf
<1>2. pr'[p].pc = "status" /\ \A q \in Policies : q # p => pr'[q] = pr[q]
  BY DEF ReconcileWebhook, Proceed, TypeOK
<1>3. \A q \in Policies, j \in WebhookKinds :
          webhook'[q][j] = webhook[q][j] \/ (q = p /\ j = k)
  BY Zenon DEF ReconcileWebhook, TypeOK
<1>4. UNCHANGED <<policy, policyCache, current, server, serverCache, serverCurrent,
                  configMap, configMapCache, sr>>
  BY DEF ReconcileWebhook
<1> HIDE DEF k
<1>5. RegisteredHolds'
  BY <1>1, <1>3, <1>4 DEF Order, RegisteredHolds, Exists, Listed
<1>6. PolicyReconcilerHolds'
  <2> SUFFICES ASSUME NEW q \in Policies, q # p
               PROVE  /\ pr[q].pc = "webhook" =>
                             /\ Exists(q)
                             /\ Listed(ServerOf[q], q)
                             /\ pr[q].obj.mutating = policy[q].mutating
                      /\ pr[q].pc = "finalize" =>
                             /\ \A j \in WebhookKinds : webhook'[q][j] = 0
                             /\ "reconciler" \in current[q] => policy[q].phase = "deleting"
    BY <1>2, <1>4 DEF PolicyReconcilerHolds, Exists, Listed
  <2>1. \A j \in WebhookKinds : webhook'[q][j] = webhook[q][j]
    BY <1>3
  <2> QED
    BY <2>1 DEF Order, PolicyReconcilerHolds
<1> QED
  BY Zenon, <1>4, <1>5, <1>6, OrderPolicyStep DEF Order, PolicyCacheBehind

\* A failed webhook write registers nothing.
LEMMA WebhookFailsOrder ==
    ASSUME TypeOK, Order, NEW p \in Policies, WebhookFails(p)
    PROVE  Order'
<1>1. pr'[p].pc = "status" /\ \A q \in Policies : q # p => pr'[q] = pr[q]
  BY DEF WebhookFails, Proceed, TypeOK
<1>2. UNCHANGED <<policy, policyCache, current, webhook, server, serverCache,
                  serverCurrent, configMap, configMapCache, sr>>
  BY Zenon DEF WebhookFails
<1>3. PolicyReconcilerHolds' /\ RegisteredHolds'
  BY Zenon, <1>1, <1>2 DEF Order, PolicyReconcilerHolds, RegisteredHolds, Exists, Listed
<1> QED
  BY Zenon, <1>2, <1>3, OrderPolicyStep DEF Order, PolicyCacheBehind

\* A status update ends the reconciliation.
LEMMA UpdateStatusOrder ==
    ASSUME TypeOK, Order, NEW p \in Policies, UpdateStatus(p)
    PROVE  Order'
<1>1. CASE current' = [current EXCEPT ![p] = {}]
  <2>1. \A q \in Policies : /\ "cache" \in current'[q] => "cache" \in current[q]
                            /\ "reconciler" \in current'[q] => "cache" \in current'[q]
                            /\ current'[q] \subseteq current[q]
    BY <1>1 DEF TypeOK, Order, PolicyCacheBehind
  <2> QED
    BY <2>1, PolicyDone, Zenon DEF UpdateStatus
<1>2. CASE Forget(p)
  <2>1. \A q \in Policies : current'[q] \subseteq current[q]
    BY <1>2 DEF TypeOK, Forget
  <2> QED
    BY <1>2, <2>1, CopyKeeps, PolicyDone, Zenon DEF UpdateStatus, Order
<1> QED
  BY <1>1, <1>2 DEF UpdateStatus

\* So does a failed write of the status or of the finalizer.
LEMMA StatusFailsOrder ==
    ASSUME TypeOK, Order, NEW p \in Policies, StatusFails(p) \/ PolicyFinalizeFails(p)
    PROVE  Order'
<1>1. Forget(p) /\ pr' = [pr EXCEPT ![p] = IdlePolicy]
  BY ZenonT(30) DEF StatusFails, PolicyFinalizeFails
<1>2. UNCHANGED <<policy, policyCache, webhook, server, serverCache, serverCurrent,
                  configMap, configMapCache, sr>>
  BY ZenonT(30) DEF StatusFails, PolicyFinalizeFails
<1>3. \A q \in Policies : current'[q] \subseteq current[q]
  BY <1>1 DEF TypeOK, Forget
<1> QED
  BY <1>1, <1>2, <1>3, CopyKeeps, PolicyDone, Zenon DEF Order

\* reconcilePolicyDeletion has deleted the only webhook the policy can have
\* when it goes on to remove the finalizer.
LEMMA ReconcileWebhookDeletionOrder ==
    ASSUME TypeOK, Order, Benign, NEW p \in Policies, Informed,
           ReconcileWebhookDeletion(p)
    PROVE  Order'
<1>1. /\ pr'[p].pc = "finalize"
      /\ \A q \in Policies : q # p => pr'[q] = pr[q] /\ current'[q] = current[q]
  BY DEF ReconcileWebhookDeletion, Proceed, CopyOf, TypeOK
<1>2. /\ \A j \in WebhookKinds : j # KindOf(policyCache[p]) => webhook'[p][j] = webhook[p][j]
      /\ webhook'[p][KindOf(policyCache[p])] = 0
      /\ \A q \in Policies : q # p => webhook'[q] = webhook[q]
  BY DEF ReconcileWebhookDeletion, RemainingWebhooks, Informed, Benign, TypeOK, KindOf,
     WebhookKinds
<1>3. KindOf(policyCache[p]) = KindOf(policy[p])
  BY DEF ReconcileWebhookDeletion, Order, PolicyCacheBehind, KindOf
<1>4. \A j \in WebhookKinds : webhook'[p][j] = 0
  BY <1>2, <1>3 DEF Order, RegisteredHolds
<1>5. "reconciler" \in current'[p] => policy[p].phase = "deleting"
  <2>1. "reconciler" \in current'[p] => "cache" \in current[p]
    BY Zenon, CopyKeeps DEF ReconcileWebhookDeletion, Order
  <2> QED
    BY Zenon, <2>1 DEF ReconcileWebhookDeletion, Order, PolicyCacheBehind
<1>6. UNCHANGED <<policy, policyCache, server, serverCache, serverCurrent, configMap,
                  configMapCache, sr>>
  BY DEF ReconcileWebhookDeletion
<1>7. PolicyReconcilerHolds'
  BY <1>1, <1>2, <1>4, <1>5, <1>6, OtherReconcilersUndisturbed DEF Order
<1>8. RegisteredHolds'
  BY Zenon, <1>2, <1>4, <1>6 DEF Order, RegisteredHolds, Exists, Listed
<1>9. CopyOf(p)
  BY DEF ReconcileWebhookDeletion
<1> QED
  BY <1>6, <1>7, <1>8, <1>9, CopyKeeps, OrderPolicyStep DEF Order

\* The finalizer of a policy is removed once it has no webhook.
LEMMA RemovePolicyFinalizerOrder ==
    ASSUME TypeOK, Order, NEW p \in Policies, RemovePolicyFinalizer(p)
    PROVE  Order'
<1>1. /\ policyCache[p] = policy[p] /\ policy[p].phase = "deleting" /\ policy[p].gen # 0
      /\ \A k \in WebhookKinds : webhook[p][k] = 0
  BY DEF RemovePolicyFinalizer, Order, PolicyCacheBehind, PolicyReconcilerHolds
<1>2. /\ policy'[p].phase = "absent" /\ policy'[p].gen = policy[p].gen
      /\ policy'[p].mutating = policy[p].mutating
      /\ current'[p] = {} /\ pr'[p].pc = "idle"
      /\ \A q \in Policies : q # p => /\ policy'[q] = policy[q]
                                      /\ current'[q] = current[q]
                                      /\ pr'[q] = pr[q]
  BY DEF RemovePolicyFinalizer, WritePolicy, IdlePolicy, TypeOK, PolicyObject
<1>3. UNCHANGED <<policyCache, webhook, server, serverCache, serverCurrent, configMap,
                  configMapCache, sr>>
  BY DEF RemovePolicyFinalizer
<1>4. PolicyCacheBehind'
  <2> SUFFICES ASSUME NEW q \in Policies
               PROVE  /\ policy'[q].phase # "absent" => policy'[q].gen # 0
                      /\ policyCache[q].phase # "absent" => policyCache[q].gen # 0
                      /\ policyCache[q].gen # 0 => /\ policy'[q].gen # 0
                                                   /\ policyCache[q].mutating = policy'[q].mutating
                      /\ policyCache[q].phase = "absent" /\ policyCache[q].gen # 0 => Gone(q)'
                      /\ policyCache[q].phase = "deleting" => policy'[q].phase # "live"
                      /\ policyCache[q].phase = "live" => ~Gone(q)'
                      /\ "cache" \in current'[q] => policyCache[q] = policy'[q]
                      /\ "reconciler" \in current'[q] => "cache" \in current'[q]
    BY Zenon, <1>3 DEF PolicyCacheBehind
  <2>1. CASE q = p
    BY <1>1, <1>2, <2>1 DEF Gone
  <2>2. CASE q # p
    BY <1>2, <2>2 DEF Order, PolicyCacheBehind, Gone
  <2> QED
    BY <2>1, <2>2
<1>5. ServerCacheBehind'
  BY <1>3 DEF Order, ServerCacheBehind
<1>6. \A q \in Policies : Gone(q) => Gone(q)'
  BY <1>1, <1>2 DEF Gone
<1>7. ListedIsKnown' /\ CachedEntryStays'
  <2>1. \A s \in Servers, q \in Policies : Listed(s, q)' = Listed(s, q)
    BY <1>3 DEF Listed
  <2>2. ListedIsKnown'
    BY ZenonT(30), <1>3, <1>6, <2>1 DEF Order, ListedIsKnown
  <2>3. CachedEntryStays'
    BY Zenon, <1>3, <1>6, <2>1 DEF Order, CachedEntryStays
  <2> QED
    BY <2>2, <2>3
<1>8. ServerReconcilerKeeps'
  BY <1>3, <1>6, ServerReconcilerUndisturbed DEF Order, Listed
<1>9. PolicyReconcilerHolds'
  BY <1>2, <1>3, OtherReconcilersUndisturbed DEF Order
<1>10. RegisteredHolds'
  <2> SUFFICES ASSUME NEW q \in Policies, NEW k \in WebhookKinds, webhook[q][k] # 0
               PROVE  /\ Exists(q)' /\ k = KindOf(policy[q])'
                      /\ Listed(ServerOf[q], q)'
    BY <1>3 DEF RegisteredHolds
  <2>1. policy'[q] = policy[q]
    BY ZenonT(30), <1>1, <1>2
  <2>2. Exists(q) /\ k = KindOf(policy[q]) /\ Listed(ServerOf[q], q)
    BY DEF Order, RegisteredHolds
  <2> QED
    BY <1>3, <2>1, <2>2 DEF Exists, Listed, KindOf
<1> QED
  BY <1>4, <1>5, <1>7, <1>8, <1>9, <1>10 DEF Order

\* A restarted controller has fresh caches and no reconciliation under way.
LEMMA CrashOrder ==
    ASSUME TypeOK, Order, Crash
    PROVE  Order'
<1> USE DEF Crash, Order, Gone, Listed
<1>1. PolicyCacheBehind'
  BY ZenonT(30) DEF PolicyCacheBehind
<1>2. ServerCacheBehind'
  BY ZenonT(30) DEF ServerCacheBehind
<1>3. ListedIsKnown' /\ CachedEntryStays'
  BY ZenonT(30) DEF ListedIsKnown, CachedEntryStays, PolicyCacheBehind
<1>4. ServerReconcilerKeeps'
  BY ZenonT(30) DEF ServerReconcilerKeeps, IdleServer
<1>5. PolicyReconcilerHolds' /\ RegisteredHolds'
  BY Zenon DEF PolicyReconcilerHolds, RegisteredHolds, IdlePolicy, Exists
<1> QED
  BY <1>1, <1>2, <1>3, <1>4, <1>5

\* What users write, what the policy informers deliver, a reconciliation of a
\* policy and a crash keep Order.
LEMMA PolicyStepOrder ==
    ASSUME Benign, Inv,
           \/ Users
           \/ Crash
           \/ \E p \in Policies : \/ InformPolicy(p)
                                  \/ Informed /\ ReconcilePolicy(p)
                                  \/ ResyncPolicy(p)
    PROVE  Order'
<1> USE DEF Inv
<1>1. CASE Users
  BY CreatePolicyOrder, UpdatePolicyOrder, DeletePolicyOrder, DeleteWebhookOrder,
     ServerWrittenOrder, <1>1 DEF Users
<1>2. ASSUME NEW p \in Policies,
              PolicyNotFound(p) \/ SyncWebhook(p) \/ ResyncPolicy(p)
       PROVE  Order'
  BY Zenon, <1>2, OrderFrame DEF PolicyNotFound, SyncWebhook, ResyncPolicy
<1>3. ASSUME NEW p \in Policies, PolicyScheduled(p) \/ PolicyWaits(p) PROVE Order'
  BY <1>3, PolicyBeginOrder, Zenon DEF PolicyScheduled, PolicyWaits
<1>4. ASSUME NEW p \in Policies, Informed, ReconcilePolicy(p) PROVE Order'
  BY PolicyReachableOrder, ReconcileWebhookOrder, WebhookFailsOrder, UpdateStatusOrder,
     StatusFailsOrder, ReconcileWebhookDeletionOrder, RemovePolicyFinalizerOrder, <1>2,
     <1>3, <1>4
     DEF ReconcilePolicy
<1> QED
  BY SyncPolicyOrder, <1>1, <1>2, <1>4, CrashOrder DEF InformPolicy

-----------------------------------------------------------------------------
(* Types *)

\* The values the reconcilers and the API objects start from have their types.
LEMMA InitialValues ==
    /\ NoPolicies \in [Policies -> Nat]
    /\ NoWebhooks \in [WebhookKinds -> Nat]
    /\ NoPolicy \in PolicyObject
    /\ NoStatus \in PolicyStatus
    /\ NoConfigMap \in ConfigMapObject
    /\ NoDeployment \in DeploymentObject
    /\ IdlePolicy \in PolicyReconciler
    /\ IdleServer \in ServerReconciler
  BY DEF NoPolicies, NoWebhooks, NoPolicy, NoStatus, NoConfigMap, NoDeployment,
         IdlePolicy, IdleServer, PolicyObject, PolicyStatus, ConfigMapObject,
         DeploymentObject, PolicyReconciler, ServerReconciler

\* The initial state has the right types.
LEMMA InitTypeOK == Init => TypeOK
  BY InitialValues DEF Init, TypeOK, Copies

\* Handing over to the next write of a policy reconciliation keeps the types.
LEMMA ProceedTypeOK ==
    ASSUME TypeOK, NEW p \in Policies, NEW pc \in {"webhook", "status", "finalize"},
           NEW out \in PolicyStatus, NEW again \in BOOLEAN,
           Proceed(p, pc, out, again)
    PROVE  pr' \in [Policies -> PolicyReconciler]
<1>1. [pc |-> pc, out |-> out, again |-> again,
       obj |-> IF pc = "webhook" THEN policyCache[p] ELSE NoPolicy] \in PolicyReconciler
  BY InitialValues DEF TypeOK, PolicyReconciler
<1> QED
  BY <1>1 DEF TypeOK, Proceed

\* So does the start of reconcilePolicy, whatever status it computed.
LEMMA BeginTypeOK ==
    ASSUME TypeOK, NEW p \in Policies, NEW pc \in {"webhook", "status"},
           NEW out \in PolicyStatus, NEW again \in BOOLEAN,
           PolicyBegin(p, pc, out, again)
    PROVE  TypeOK'
<1>1. pr' \in [Policies -> PolicyReconciler]
  BY Zenon, ProceedTypeOK DEF PolicyBegin
<1> QED
  BY Zenon, <1>1 DEF TypeOK, PolicyBegin, CopyOf, Copies

\* Writing one field of an API object keeps its type: the phase of a policy, the
\* conditions of a status, the data of a ConfigMap that is collected.
LEMMA PhaseTypeOK ==
    ASSUME NEW o \in PolicyObject, NEW ph \in {"absent", "live", "deleting"}
    PROVE  [o EXCEPT !.phase = ph] \in PolicyObject
  BY DEF PolicyObject

LEMMA StatusTypeOK ==
    ASSUME NEW st \in PolicyStatus, NEW b \in BOOLEAN
    PROVE  /\ [st EXCEPT !.active = b] \in PolicyStatus
           /\ [st EXCEPT !.reachable = b] \in PolicyStatus
           /\ [st EXCEPT !.policyStatus = "scheduled"] \in PolicyStatus
           /\ PendingUnlessActive(st) \in PolicyStatus
  BY DEF PolicyStatus, PendingUnlessActive

LEMMA CollectedTypeOK ==
    ASSUME NEW c \in ConfigMapObject, NEW g \in [Policies -> Nat]
    PROVE  [c EXCEPT !.exists = FALSE, !.gens = g] \in ConfigMapObject
  BY Zenon DEF ConfigMapObject

\* A PolicyServer reconciliation that has written the ConfigMap drops its list.
LEMMA ListDroppedTypeOK ==
    ASSUME NEW f \in [Servers -> ServerReconciler], NEW s \in Servers
    PROVE  [f EXCEPT ![s].pc = "deployment", ![s].list = NoPolicies]
             \in [Servers -> ServerReconciler]
  BY Zenon, InitialValues DEF ServerReconciler

LEMMA VersionTypeOK == ASSUME NEW n \in Nat PROVE n + 1 \in Nat
  OBVIOUS

\* A write gives a policy a new generation.
LEMMA WrittenTypeOK ==
    ASSUME NEW o \in PolicyObject, NEW x \in {"live", o.phase}, NEW m \in BOOLEAN
    PROVE  [phase |-> x, gen |-> o.gen + 1, mutating |-> m] \in PolicyObject
  BY DEF PolicyObject

LEMMA NewPodTypeOK == ASSUME NEW n \in Nat PROVE NewPod(n) \in Pod
  BY InitialValues DEF NewPod, Pod

\* A pod that restarts keeps its version.
LEMMA RestartedTypeOK ==
    ASSUME NEW f \in [Servers -> SUBSET Pod], NEW s \in Servers, NEW pod \in f[s]
    PROVE  [f EXCEPT ![s] = (@ \ {pod}) \cup {NewPod(pod.ver)}] \in [Servers -> SUBSET Pod]
<1>1. pod \in Pod
  OBVIOUS
<1>2. NewPod(pod.ver) \in Pod
  BY <1>1, NewPodTypeOK DEF Pod
<1> QED
  BY <1>2

\* Every step keeps the types.
LEMMA NextTypeOK == ASSUME TypeOK, [Next]_vars PROVE TypeOK'
<1> USE ConstantsAssumption, InitialValues DEF TypeOK
<1>1. ASSUME NEW p \in Policies, SyncPolicy(p) PROVE TypeOK'
  BY <1>1 DEF SyncPolicy, Copies
<1>2. ASSUME NEW p \in Policies, SyncWebhook(p) PROVE TypeOK'
  BY <1>2 DEF SyncWebhook
<1>3. ASSUME NEW s \in Servers, SyncServer(s) PROVE TypeOK'
  BY <1>3 DEF SyncServer, Copies
<1>4. ASSUME NEW s \in Servers, SyncConfigMap(s) PROVE TypeOK'
  BY <1>4 DEF SyncConfigMap
<1>5. ASSUME NEW s \in Servers, SyncDeployment(s) PROVE TypeOK'
  BY <1>5 DEF SyncDeployment
<1>6. ASSUME NEW s \in Servers, SyncPods(s) PROVE TypeOK'
  BY Zenon, <1>6 DEF SyncPods, PoliciesForPods
<1>7. ASSUME NEW p \in Policies, NEW m \in MutatingValues, CreatePolicy(p, m)
      PROVE TypeOK'
  <2>1. [phase |-> "live", gen |-> policy[p].gen + 1, mutating |-> m] \in PolicyObject
    BY Zenon, WrittenTypeOK
  <2> QED
    BY ZenonT(30), <1>7, <2>1 DEF CreatePolicy, WritePolicy
<1>8. ASSUME NEW p \in Policies, NEW m \in MutatingValues, UpdatePolicy(p, m)
      PROVE TypeOK'
  <2>1. [phase |-> policy[p].phase, gen |-> policy[p].gen + 1, mutating |-> m]
          \in PolicyObject
    BY Zenon, WrittenTypeOK
  <2> QED
    BY ZenonT(30), <1>8, <2>1 DEF UpdatePolicy, WritePolicy
<1>9. ASSUME NEW p \in Policies, DeletePolicy(p) PROVE TypeOK'
  <2>1. [policy[p] EXCEPT !.phase = "deleting"] \in PolicyObject
    BY Zenon, PhaseTypeOK
  <2> QED
    BY <1>9, <2>1 DEF DeletePolicy, WritePolicy
<1>10. ASSUME NEW p \in Policies, NEW k \in WebhookKinds, DeleteWebhook(p, k)
      PROVE TypeOK'
  BY Zenon, <1>10 DEF DeleteWebhook
<1>11. ASSUME NEW s \in Servers, CreateServer(s) PROVE TypeOK'
  <2>1. serverCount[s] + 1 \in Nat
    BY Zenon, VersionTypeOK
  <2> QED
    BY ZenonT(30), <1>11, <2>1 DEF CreateServer
<1>12. ASSUME NEW s \in Servers, DeleteServer(s) PROVE TypeOK'
  BY <1>12 DEF DeleteServer
<1>13. ASSUME NEW p \in Policies, ResyncPolicy(p) PROVE TypeOK'
  BY <1>13 DEF ResyncPolicy
<1>14. ASSUME NEW s \in Servers, ResyncServer(s) PROVE TypeOK'
  BY <1>14 DEF ResyncServer
<1>15. ASSUME NEW p \in Policies, PolicyNotFound(p) PROVE TypeOK'
  BY <1>15 DEF PolicyNotFound
<1>16. ASSUME NEW p \in Policies, PolicyScheduled(p) PROVE TypeOK'
  <2>1. [PolicyNotActive(p) EXCEPT !.policyStatus = "scheduled"] \in PolicyStatus
    BY Zenon, StatusTypeOK DEF PolicyNotActive
  <2> QED
    BY Zenon, <1>16, <2>1, BeginTypeOK DEF PolicyScheduled
<1>17. ASSUME NEW p \in Policies, PolicyWaits(p) PROVE TypeOK'
  <2> DEFINE out == PendingUnlessActive(PolicyNotActive(p))
  <2>1. out \in PolicyStatus /\ [out EXCEPT !.reachable = FALSE] \in PolicyStatus
    BY Zenon, StatusTypeOK DEF PolicyNotActive
  <2> QED
    BY Zenon, <1>17, <2>1, BeginTypeOK DEF PolicyWaits
<1>18. ASSUME NEW p \in Policies, PolicyReachable(p) PROVE TypeOK'
  <2> DEFINE out == PendingUnlessActive(PolicyNotActive(p))
  <2>1. [out EXCEPT !.reachable = TRUE] \in PolicyStatus
    BY Zenon, StatusTypeOK DEF PolicyNotActive
  <2> QED
    BY Zenon, <1>18, <2>1, BeginTypeOK DEF PolicyReachable
<1>19. ASSUME NEW p \in Policies, ReconcileWebhook(p) PROVE TypeOK'
  <2>1. SetPolicyAsActive(pr[p].out) \in PolicyStatus
    BY DEF SetPolicyAsActive, PolicyReconciler, PolicyStatus
  <2>2. pr[p].obj.gen \in Nat /\ KindOf(pr[p].obj) \in WebhookKinds
    BY DEF PolicyReconciler, PolicyObject, KindOf, WebhookKinds
  <2>3. pr' \in [Policies -> PolicyReconciler]
    BY Zenon, <1>19, <2>1, ProceedTypeOK DEF ReconcileWebhook
  <2> QED
    BY Zenon, <1>19, <2>2, <2>3 DEF ReconcileWebhook
<1>20. ASSUME NEW p \in Policies, WebhookFails(p) PROVE TypeOK'
  <2>1. pr[p].out \in PolicyStatus
    BY DEF PolicyReconciler
  <2>2. pr' \in [Policies -> PolicyReconciler]
    BY Zenon, <1>20, <2>1, ProceedTypeOK DEF WebhookFails
  <2> QED
    BY <1>20, <2>2 DEF WebhookFails
<1>21. ASSUME NEW p \in Policies, UpdateStatus(p) PROVE TypeOK'
  <2>1. pr[p].out \in PolicyStatus
    BY DEF PolicyReconciler
  <2>2. current' \in [Policies -> SUBSET Copies]
    <3>1. CASE current' = [current EXCEPT ![p] = {}]
      BY <3>1
    <3>2. CASE Forget(p)
      BY <3>2 DEF Forget
    <3> QED
      BY <1>21, <3>1, <3>2 DEF UpdateStatus
  <2> QED
    BY Zenon, <1>21, <2>1, <2>2 DEF UpdateStatus, Requeue
<1>22. ASSUME NEW p \in Policies, StatusFails(p) PROVE TypeOK'
  BY ZenonT(30), <1>22 DEF StatusFails, Forget, Requeue, Copies
<1>23. ASSUME NEW p \in Policies, ReconcileWebhookDeletion(p) PROVE TypeOK'
  BY ZenonT(30), <1>23 DEF ReconcileWebhookDeletion, RemainingWebhooks, KindOf, WebhookKinds,
       Proceed, CopyOf, PolicyReconciler, Copies
<1>24. ASSUME NEW p \in Policies, RemovePolicyFinalizer(p) PROVE TypeOK'
  <2>1. [policy[p] EXCEPT !.phase = "absent"] \in PolicyObject
    BY Zenon, PhaseTypeOK
  <2> QED
    BY <1>24, <2>1 DEF RemovePolicyFinalizer, WritePolicy
<1>25. ASSUME NEW p \in Policies, PolicyFinalizeFails(p) PROVE TypeOK'
  BY ZenonT(30), <1>25 DEF PolicyFinalizeFails, Forget, Requeue, Copies
<1>26. ASSUME NEW s \in Servers, ServerNotFound(s) PROVE TypeOK'
  BY ZenonT(30), <1>26 DEF ServerNotFound
<1>27. ASSUME NEW s \in Servers, ServerBegin(s) PROVE TypeOK'
  <2>1. PICK list \in GetPolicies(s) :
          sr' = [sr EXCEPT ![s] = [pc |-> "configmap", list |-> list]]
    BY Zenon, <1>27 DEF ServerBegin
  <2>2. list \in [Policies -> Nat]
    <3>1. PICK lost : list = [p \in Policies |->
            IF ServerOf[p] = s /\ policyCache[p].phase # "absent" /\ p \notin lost
            THEN policyCache[p].gen ELSE 0]
      BY Zenon, <2>1 DEF GetPolicies
    <3> QED
      BY <3>1 DEF PolicyObject
  <2>3. sr' \in [Servers -> ServerReconciler]
    BY <2>1, <2>2 DEF ServerReconciler
  <2> QED
    BY Zenon, <1>27, <2>3 DEF ServerBegin, ServerCopyOf, Copies
<1>28. ASSUME NEW s \in Servers, ReconcileConfigMap(s) PROVE TypeOK'
  <2>1. sr[s].list \in [Policies -> Nat] /\ configMap[s].ver \in Nat
    BY DEF ServerReconciler, ConfigMapObject
  <2>2. configMap[s].ver + 1 \in Nat
    BY Zenon, <2>1, VersionTypeOK
  <2>3. [exists |-> TRUE, ver |-> configMap[s].ver + 1, gens |-> sr[s].list]
          \in ConfigMapObject
    BY Zenon, <2>1, <2>2 DEF ConfigMapObject
  <2>4. configMap' \in [Servers -> ConfigMapObject]
    BY <1>28, <2>3 DEF ReconcileConfigMap
  <2>5. sr' \in [Servers -> ServerReconciler]
    BY Zenon, <1>28, ListDroppedTypeOK DEF ReconcileConfigMap
  <2> QED
    BY <1>28, <2>4, <2>5 DEF ReconcileConfigMap
<1>29. ASSUME NEW s \in Servers, ReconcileDeployment(s) PROVE TypeOK'
  <2>1. PatchedVersion(s) \in Nat
    BY DEF PatchedVersion, DeploymentObject, ConfigMapObject
  <2>2. deployment' \in [Servers -> DeploymentObject]
    BY Zenon, <1>29, <2>1 DEF ReconcileDeployment, DeploymentObject
  <2>3. sr' \in [Servers -> ServerReconciler]
    BY Zenon, <1>29 DEF ReconcileDeployment, ServerReconciler
  <2> QED
    BY <1>29, <2>2, <2>3 DEF ReconcileDeployment
<1>30. ASSUME NEW s \in Servers, UpdateServerStatus(s) PROVE TypeOK'
  BY ZenonT(30), <1>30 DEF UpdateServerStatus, Copies
<1>31. ASSUME NEW s \in Servers, ServerFails(s) PROVE TypeOK'
  BY ZenonT(30), <1>31 DEF ServerFails, ServerForget, Copies
<1>32. ASSUME NEW s \in Servers, DeletePoliciesAndRequeue(s) PROVE TypeOK'
  <2>1. \A p \in Policies : [policy[p] EXCEPT !.phase = "deleting"] \in PolicyObject
    BY Zenon, PhaseTypeOK
  <2>2. PICK hit : /\ policy' = [p \in Policies |->
                          IF p \in hit THEN [policy[p] EXCEPT !.phase = "deleting"]
                          ELSE policy[p]]
                   /\ current' = [p \in Policies |->
                          IF p \in hit THEN {} ELSE current[p]]
    BY Zenon, <1>32 DEF DeletePoliciesAndRequeue
  <2>3. policy' \in [Policies -> PolicyObject]
          /\ current' \in [Policies -> SUBSET Copies]
    BY <2>1, <2>2
  <2> QED
    BY <1>32, <2>3 DEF DeletePoliciesAndRequeue
<1>33. ASSUME NEW s \in Servers, ServerBeginFinalize(s) PROVE TypeOK'
  BY ZenonT(30), <1>33 DEF ServerBeginFinalize, ServerCopyOf, ServerReconciler, Copies
<1>34. ASSUME NEW s \in Servers, RemoveServerFinalizer(s) PROVE TypeOK'
  BY ZenonT(30), <1>34 DEF RemoveServerFinalizer
<1>35. ASSUME NEW s \in Servers, ServerFinalizeConflict(s) PROVE TypeOK'
  BY Zenon, <1>35 DEF ServerFinalizeConflict
<1>36. ASSUME NEW s \in Servers, CollectConfigMap(s) PROVE TypeOK'
  <2>1. [configMap[s] EXCEPT !.exists = FALSE, !.gens = NoPolicies] \in ConfigMapObject
    BY Zenon, CollectedTypeOK
  <2>2. configMap' = [configMap EXCEPT ![s] =
                          [configMap[s] EXCEPT !.exists = FALSE, !.gens = NoPolicies]]
    BY Zenon, <1>36 DEF CollectConfigMap
  <2>3. configMap' \in [Servers -> ConfigMapObject]
    BY <2>1, <2>2
  <2> QED
    BY <1>36, <2>3 DEF CollectConfigMap
<1>37. ASSUME NEW s \in Servers, CollectDeployment(s) PROVE TypeOK'
  BY Zenon, <1>37 DEF CollectDeployment
<1>38. ASSUME NEW s \in Servers, RollOut(s) PROVE TypeOK'
  <2>1. deployment[s].ver \in Nat
    BY Zenon DEF DeploymentObject
  <2>2. NewPod(deployment[s].ver) \in Pod
    BY Zenon, <2>1, NewPodTypeOK
  <2>3. deployment' \in [Servers -> DeploymentObject]
    BY Zenon, <1>38, <2>1 DEF RollOut, DeploymentObject
  <2> QED
    BY <1>38, <2>2, <2>3 DEF RollOut
<1>39. ASSUME NEW s \in Servers, PodReady(s) PROVE TypeOK'
  <2>1. configMap[s].gens \in [Policies -> Nat]
    BY DEF ConfigMapObject
  <2>2. PICK pod \in pods[s] :
          pods' = [pods EXCEPT ![s] = (pods[s] \ {pod}) \cup
                     {[ver |-> pod.ver, ready |-> TRUE, gens |-> configMap[s].gens]}]
    BY Zenon, <1>39 DEF PodReady
  <2>3. pod \in Pod /\ pod.ver \in Nat
    BY DEF Pod
  <2>4. [ver |-> pod.ver, ready |-> TRUE, gens |-> configMap[s].gens] \in Pod
    BY Zenon, <2>1, <2>3 DEF Pod
  <2>5. pods' \in [Servers -> SUBSET Pod]
    BY ZenonT(30), <2>2, <2>4
  <2> QED
    BY Zenon, <1>39, <2>5 DEF PodReady
<1>40. ASSUME NEW s \in Servers, StopPod(s) PROVE TypeOK'
  <2>1. pods' \in [Servers -> SUBSET Pod]
    <3>1. PICK pod \in pods[s] : pods' = [pods EXCEPT ![s] = pods[s] \ {pod}]
      BY Zenon, <1>40 DEF StopPod
    <3>2. pods[s] \ {pod} \in SUBSET Pod
      OBVIOUS
    <3> QED
      BY <3>1, <3>2
  <2> QED
    BY Zenon, <1>40, <2>1 DEF StopPod
<1>41. ASSUME NEW s \in Servers, CreatePod(s) PROVE TypeOK'
  <2>1. NewPod(deployment[s].rs) \in Pod
    BY Zenon, NewPodTypeOK DEF DeploymentObject
  <2> QED
    BY ZenonT(30), <1>41, <2>1 DEF CreatePod
<1>42. ASSUME NEW s \in Servers, RestartPod(s) PROVE TypeOK'
  <2>1. PICK pod \in pods[s] :
          pods' = [pods EXCEPT ![s] = (@ \ {pod}) \cup {NewPod(pod.ver)}]
    BY Zenon, <1>42 DEF RestartPod
  <2>2. pods \in [Servers -> SUBSET Pod]
    BY Zenon
  <2>3. pods' \in [Servers -> SUBSET Pod]
    BY ZenonT(30), <2>1, <2>2, RestartedTypeOK
  <2> QED
    BY ZenonT(30), <1>42, <2>3 DEF RestartPod
<1>43. CASE Crash
  BY ZenonT(30), <1>43 DEF Crash, Copies
<1>44. CASE UNCHANGED vars
  BY Zenon, <1>44 DEF vars
<1> QED
  BY ZenonT(30), <1>1, <1>2, <1>3, <1>4, <1>5, <1>6, <1>7, <1>8, <1>9, <1>10, <1>11, <1>12,
       <1>13, <1>14, <1>15, <1>16, <1>17, <1>18, <1>19, <1>20, <1>21, <1>22, <1>23,
       <1>24, <1>25, <1>26, <1>27, <1>28, <1>29, <1>30, <1>31, <1>32, <1>33, <1>34,
       <1>35, <1>36, <1>37, <1>38, <1>39, <1>40, <1>41, <1>42, <1>43, <1>44
     DEF Next, Users, InformPolicy, InformServer, ReconcilePolicy, ReconcileServer,
         Kubernetes, PodFaults

\* In every behaviour, whatever fails and however far the caches lag, the
\* objects, copies and reconcilers have their types.
THEOREM TypeCorrect == Spec => []TypeOK
<1>1. Init => TypeOK
  BY InitTypeOK
<1>2. TypeOK /\ [Next]_vars => TypeOK'
  BY NextTypeOK
<1> QED
  BY <1>1, <1>2, PTL DEF Spec
=============================================================================
