--------------------------- MODULE PolicyLifecycle ---------------------------
(***************************************************************************)
(* The life of policies and PolicyServers: the policy sub-reconciler, the  *)
(* PolicyServer reconciler, the informer caches they read, the work queues *)
(* that start them, and the parts of Kubernetes they rely on (API server,  *)
(* Deployment controller, kubelet, garbage collector).                     *)
(*                                                                         *)
(* A policy of any of the four kinds is one element of Policies.  Its spec *)
(* is abstracted to a generation number: generation 0 means "never         *)
(* created" and every spec the user writes is the next generation.         *)
(***************************************************************************)
EXTENDS Naturals

CONSTANTS Policies,   \* policy names (all four kinds)
          Servers,    \* PolicyServer names
          ServerOf,   \* spec.policyServer of each policy, immutable
          MutatingValues, \* the values of spec.mutating that users write
          MaxGen,     \* bound: specs a user writes per policy name
          MaxServer,  \* bound: times a user creates a PolicyServer name
          Namespaced, \* the policies of a namespaced kind
          Lagging,    \* the informers that may be behind the API server
          Faults      \* which of the faults below may happen

Informers == {"policy", "server", "webhook", "configMap", "deployment", "pods"}

FaultKinds ==
    {"crash",          \* the controller restarts
     "apiError",       \* a write to the API server fails
     "podRestart",     \* a policy server container restarts
     "webhookDeleted", \* somebody deletes a webhook configuration
     "listError",      \* a List in getPolicies fails
     "resync",         \* the informers hand an unchanged object over again
     "toggle",         \* a user flips spec.mutating
     "recreate"}       \* a user creates a policy under a name used before

ASSUME ConstantsAssumption ==
    /\ ServerOf \in [Policies -> Servers]
    /\ Namespaced \subseteq Policies
    /\ MutatingValues \subseteq BOOLEAN
    /\ MaxGen \in Nat
    /\ MaxServer \in Nat
    /\ Lagging \subseteq Informers
    /\ Faults \subseteq FaultKinds

VARIABLES
    policy,          \* policy objects in the API server
    policyCache,     \* the informer's copies
    current,         \* which copies of a policy have the latest resourceVersion
    status,          \* status subresource of the policies
    webhook,         \* webhook configurations, by policy and kind
    webhookCache,
    server,          \* PolicyServer objects
    serverCache,
    serverCurrent,
    serverStatus,    \* whether the True conditions have been saved
    serverCount,     \* how often the name was created (bound only)
    configMap,       \* ConfigMap policy-server-<name>
    configMapCache,
    deployment,      \* Deployment policy-server-<name>
    deploymentCache,
    pods,
    podCache,
    pr,              \* policy reconciler, one per key
    sr,              \* PolicyServer reconciler, one per key
    policyQueue,
    serverQueue

policyVars == <<policy, current, status>>
serverVars == <<server, serverCurrent, serverStatus, serverCount>>
workloadVars == <<configMap, deployment, pods>>
cacheVars == <<policyCache, webhookCache, serverCache, configMapCache,
               deploymentCache, podCache>>
queueVars == <<policyQueue, serverQueue>>
clusterVars == <<serverVars, workloadVars>>
controllerVars == <<pr, sr, queueVars>>
vars == <<policyVars, webhook, serverVars, workloadVars, cacheVars, pr, sr,
          queueVars>>

-----------------------------------------------------------------------------
(* Data *)

WebhookKinds == {"validating", "mutating"}
Copies == {"cache", "reconciler"}

PolicyObject == [phase : {"absent", "live", "deleting"}, gen : Nat,
                 mutating : BOOLEAN]

\* active and reachable: conditions PolicyActive and PolicyUniquelyReachable.
\* The shown mode and the condition PolicyServerConfigurationUpToDate are left
\* out; no step reads them.
PolicyStatus == [policyStatus : {"none", "scheduled", "pending", "active"},
                 active : BOOLEAN, reachable : BOOLEAN]

\* The policies.yml entry of each policy is the generation it was built from,
\* 0 when there is no entry.  A deleted ConfigMap keeps its last version:
\* resourceVersions never come back.
ConfigMapObject == [exists : BOOLEAN, ver : Nat, gens : [Policies -> Nat]]

\* ver: config-version annotation and pod template label (always written
\* together), 0 when there is no Deployment; rs: config version of the
\* ReplicaSet that carries the Deployment's current revision.
DeploymentObject == [ver : Nat, rs : Nat]

\* gens: what the container read from the mounted policies.yml when it started.
Pod == [ver : Nat, ready : BOOLEAN, gens : [Policies -> Nat]]

PolicyReconciler == [pc : {"idle", "webhook", "status", "finalize"},
                     obj : PolicyObject, out : PolicyStatus, again : BOOLEAN]
ServerReconciler == [pc : {"idle", "configmap", "deployment", "status", "finalize"},
                     list : [Policies -> Nat]]

TypeOK ==
    /\ policy \in [Policies -> PolicyObject]
    /\ policyCache \in [Policies -> PolicyObject]
    /\ current \in [Policies -> SUBSET Copies]
    /\ status \in [Policies -> PolicyStatus]
    /\ webhook \in [Policies -> [WebhookKinds -> Nat]]
    /\ webhookCache \in [Policies -> [WebhookKinds -> Nat]]
    /\ server \in [Servers -> {"absent", "live", "deleting"}]
    /\ serverCache \in [Servers -> {"absent", "live", "deleting"}]
    /\ serverCurrent \in [Servers -> SUBSET Copies]
    /\ serverStatus \in [Servers -> BOOLEAN]
    /\ serverCount \in [Servers -> Nat]
    /\ configMap \in [Servers -> ConfigMapObject]
    /\ configMapCache \in [Servers -> ConfigMapObject]
    /\ deployment \in [Servers -> DeploymentObject]
    /\ deploymentCache \in [Servers -> DeploymentObject]
    /\ pods \in [Servers -> SUBSET Pod]
    /\ podCache \in [Servers -> SUBSET Pod]
    /\ pr \in [Policies -> PolicyReconciler]
    /\ sr \in [Servers -> ServerReconciler]
    /\ policyQueue \subseteq Policies
    /\ serverQueue \subseteq Servers

NoPolicies == [p \in Policies |-> 0]
NoWebhooks == [k \in WebhookKinds |-> 0]
NoPolicy == [phase |-> "absent", gen |-> 0, mutating |-> FALSE]
NoStatus == [policyStatus |-> "none", active |-> FALSE, reachable |-> FALSE]
NoConfigMap == [exists |-> FALSE, ver |-> 0, gens |-> NoPolicies]
NoDeployment == [ver |-> 0, rs |-> 0]
IdlePolicy == [pc |-> "idle", obj |-> NoPolicy, out |-> NoStatus, again |-> FALSE]
IdleServer == [pc |-> "idle", list |-> NoPolicies]

Init ==
    /\ policy = [p \in Policies |-> NoPolicy]
    /\ policyCache = policy
    /\ current = [p \in Policies |-> {"cache"}]
    /\ status = [p \in Policies |-> NoStatus]
    /\ webhook = [p \in Policies |-> NoWebhooks]
    /\ webhookCache = webhook
    /\ server = [s \in Servers |-> "absent"]
    /\ serverCache = server
    /\ serverCurrent = [s \in Servers |-> {"cache"}]
    /\ serverStatus = [s \in Servers |-> FALSE]
    /\ serverCount = [s \in Servers |-> 0]
    /\ configMap = [s \in Servers |-> NoConfigMap]
    /\ configMapCache = configMap
    /\ deployment = [s \in Servers |-> NoDeployment]
    /\ deploymentCache = deployment
    /\ pods = [s \in Servers |-> {}]
    /\ podCache = pods
    /\ pr = [p \in Policies |-> IdlePolicy]
    /\ sr = [s \in Servers |-> IdleServer]
    /\ policyQueue = {}
    /\ serverQueue = {}

-----------------------------------------------------------------------------
(* Users.  The admission webhooks of the controller add the finalizer and  *)
(* keep spec.policyServer immutable; they do not look at spec.mutating.    *)

\* A write to a policy object: every copy read before it is out of date.
WritePolicy(p, obj) ==
    /\ policy' = [policy EXCEPT ![p] = obj]
    /\ current' = [current EXCEPT ![p] = {}]

CreatePolicy(p, mutating) ==
    /\ policy[p].phase = "absent"
    /\ policy[p].gen # 0 => "recreate" \in Faults
    /\ policy[p].gen < MaxGen
    /\ WritePolicy(p, [phase |-> "live", gen |-> policy[p].gen + 1,
                       mutating |-> mutating])
    /\ status' = [status EXCEPT ![p] = NoStatus]
    /\ UNCHANGED <<webhook, clusterVars, cacheVars, controllerVars>>

UpdatePolicy(p, mutating) ==
    /\ policy[p].phase # "absent"
    /\ policy[p].gen < MaxGen
    /\ mutating # policy[p].mutating => "toggle" \in Faults
    /\ WritePolicy(p, [phase |-> policy[p].phase, gen |-> policy[p].gen + 1,
                       mutating |-> mutating])
    /\ UNCHANGED <<status, webhook, clusterVars, cacheVars, controllerVars>>

DeletePolicy(p) ==
    /\ policy[p].phase = "live"
    /\ WritePolicy(p, [policy[p] EXCEPT !.phase = "deleting"])
    /\ UNCHANGED <<status, webhook, clusterVars, cacheVars, controllerVars>>

CreateServer(s) ==
    /\ server[s] = "absent"
    /\ serverCount[s] < MaxServer
    /\ server' = [server EXCEPT ![s] = "live"]
    /\ serverCurrent' = [serverCurrent EXCEPT ![s] = {}]
    /\ serverStatus' = [serverStatus EXCEPT ![s] = FALSE]
    /\ serverCount' = [serverCount EXCEPT ![s] = @ + 1]
    /\ UNCHANGED <<policyVars, webhook, workloadVars, cacheVars, controllerVars>>

DeleteServer(s) ==
    /\ server[s] = "live"
    /\ server' = [server EXCEPT ![s] = "deleting"]
    /\ serverCurrent' = [serverCurrent EXCEPT ![s] = {}]
    /\ UNCHANGED <<policyVars, webhook, serverStatus, serverCount, workloadVars,
                   cacheVars, controllerVars>>

DeleteWebhook(p, k) ==
    /\ "webhookDeleted" \in Faults
    /\ webhook[p][k] # 0
    /\ webhook' = [webhook EXCEPT ![p][k] = 0]
    /\ UNCHANGED <<policyVars, clusterVars, cacheVars, controllerVars>>

-----------------------------------------------------------------------------
(* Informers: each kind is watched on its own stream, so the caches lag    *)
(* behind the API server independently.  An event also fills the queues    *)
(* of the controllers that watch the kind.                                 *)

SyncPolicy(p) ==
    /\ "cache" \notin current[p]
    /\ policyCache' = [policyCache EXCEPT ![p] = policy[p]]
    /\ current' = [current EXCEPT ![p] = @ \cup {"cache"}]
    /\ policyQueue' = policyQueue \cup {p}
    /\ serverQueue' = serverQueue \cup {ServerOf[p]}
    /\ UNCHANGED <<policy, status, webhook, clusterVars, webhookCache, serverCache,
                   configMapCache, deploymentCache, podCache, pr, sr>>

SyncServer(s) ==
    /\ "cache" \notin serverCurrent[s]
    /\ serverCache' = [serverCache EXCEPT ![s] = server[s]]
    /\ serverCurrent' = [serverCurrent EXCEPT ![s] = @ \cup {"cache"}]
    /\ serverQueue' = serverQueue \cup {s}
    /\ UNCHANGED <<policyVars, webhook, server, serverStatus, serverCount,
                   workloadVars, policyCache, webhookCache, configMapCache,
                   deploymentCache, podCache, pr, sr, policyQueue>>

SyncWebhook(p) ==
    /\ webhookCache[p] # webhook[p]
    /\ webhookCache' = [webhookCache EXCEPT ![p] = webhook[p]]
    /\ policyQueue' = policyQueue \cup {p}
    /\ UNCHANGED <<policyVars, webhook, clusterVars, policyCache, serverCache,
                   configMapCache, deploymentCache, podCache, pr, sr, serverQueue>>

\* No controller watches ConfigMaps or Deployments.
SyncConfigMap(s) ==
    /\ configMapCache[s] # configMap[s]
    /\ configMapCache' = [configMapCache EXCEPT ![s] = configMap[s]]
    /\ UNCHANGED <<policyVars, webhook, clusterVars, policyCache, webhookCache,
                   serverCache, deploymentCache, podCache, controllerVars>>

SyncDeployment(s) ==
    /\ deploymentCache[s] # deployment[s]
    /\ deploymentCache' = [deploymentCache EXCEPT ![s] = deployment[s]]
    /\ UNCHANGED <<policyVars, webhook, clusterVars, policyCache, webhookCache,
                   serverCache, configMapCache, podCache, controllerVars>>

\* The policies a pod event is mapped to: those the cached ConfigMap lists.
\* For the namespaced kinds a terminating pod is mapped to nothing.
PoliciesForPods(s) ==
    {p \in Policies : /\ configMapCache[s].gens[p] # 0
                      /\ p \notin Namespaced \/ ~(pods[s] \subseteq podCache[s])}

SyncPods(s) ==
    /\ podCache[s] # pods[s]
    /\ podCache' = [podCache EXCEPT ![s] = pods[s]]
    /\ policyQueue' = policyQueue \cup PoliciesForPods(s)
    /\ UNCHANGED <<policyVars, webhook, clusterVars, policyCache, webhookCache,
                   serverCache, configMapCache, deploymentCache, pr, sr,
                   serverQueue>>

\* The periodic resync of the informers hands every cached object over again.
ResyncPolicy(p) ==
    /\ "resync" \in Faults
    /\ policyCache[p].phase # "absent"
    /\ policyQueue' = policyQueue \cup {p}
    /\ serverQueue' = serverQueue \cup {ServerOf[p]}
    /\ UNCHANGED <<policyVars, webhook, clusterVars, cacheVars, pr, sr>>

ResyncServer(s) ==
    /\ "resync" \in Faults
    /\ serverCache[s] # "absent"
    /\ serverQueue' = serverQueue \cup {s}
    /\ UNCHANGED <<policyVars, webhook, clusterVars, cacheVars, pr, sr, policyQueue>>

-----------------------------------------------------------------------------
(* The policy sub-reconciler.  Keys are handled one at a time per policy;  *)
(* pr[p].pc is the next call that writes to the API server.                *)

KindOf(obj) == IF obj.mutating THEN "mutating" ELSE "validating"

Dequeued(p) ==
    /\ pr[p].pc = "idle"
    /\ p \in policyQueue

\* The reconciler's object has the latest resourceVersion iff the cached
\* object it was copied from has.
CopyOf(p) ==
    current' = [current EXCEPT ![p] =
        IF "cache" \in @ THEN Copies ELSE @ \ {"reconciler"}]

\* The reconciler forgets its object.
Forget(p) == current' = [current EXCEPT ![p] = @ \ {"reconciler"}]

\* Hands over to the next write, with the status computed so far.
Proceed(p, pc, out, again) ==
    pr' = [pr EXCEPT ![p] = [pc |-> pc, out |-> out, again |-> again,
               obj |-> IF pc = "webhook" THEN policyCache[p] ELSE NoPolicy]]

\* Every reconcilePolicy starts by setting PolicyActive to False.
PolicyNotActive(p) == [status[p] EXCEPT !.active = FALSE]

SetPolicyAsActive(out) ==
    [policyStatus |-> "active", active |-> TRUE, reachable |-> out.reachable]

PendingUnlessUnknown(out) ==
    [out EXCEPT !.policyStatus = IF @ = "active" THEN @ ELSE "unknown"]

PendingUnlessActive(out) ==
    [out EXCEPT !.policyStatus = IF @ = "active" THEN @ ELSE "pending"]

ReachableWithoutEntry(p) ==
    LET s == ServerOf[p]
        v == configMapCache[s].ver
    IN  /\ configMapCache[s].exists
        /\ deploymentCache[s].rs = v
        /\ podCache[s] # {}
        /\ \A pod \in podCache[s] : pod.ver = v /\ pod.ready

ReachableBySomePod(p) ==
    LET s == ServerOf[p]
        v == configMapCache[s].ver
    IN  /\ configMapCache[s].exists
        /\ configMapCache[s].gens[p] # 0
        /\ deploymentCache[s].rs = v
        /\ \E pod \in podCache[s] : pod.ver = v /\ pod.ready

\* isPolicyUniquelyReachable: the cached ConfigMap lists the policy's name,
\* the latest ReplicaSet was built for that ConfigMap version, and all pods
\* belong to that ReplicaSet and are ready.
IsPolicyUniquelyReachable(p) ==
    LET s == ServerOf[p]
        v == configMapCache[s].ver
    IN  /\ configMapCache[s].exists
        /\ configMapCache[s].gens[p] # 0
        /\ deploymentCache[s].rs = v
        /\ podCache[s] # {}
        /\ \A pod \in podCache[s] : pod.ver = v /\ pod.ready

PolicyNotFound(p) ==
    /\ Dequeued(p)
    /\ policyCache[p].phase = "absent"
    /\ policyQueue' = policyQueue \ {p}
    /\ UNCHANGED <<policyVars, webhook, clusterVars, cacheVars, pr, sr, serverQueue>>

\* reconcilePolicy up to its first write.
PolicyBegin(p, pc, out, again) ==
    /\ Dequeued(p)
    /\ policyCache[p].phase = "live"
    /\ CopyOf(p)
    /\ Proceed(p, pc, out, again)
    /\ policyQueue' = policyQueue \ {p}
    /\ UNCHANGED <<policy, status, webhook, clusterVars, cacheVars, sr, serverQueue>>

\* No PolicyServer: scheduled, and not requeued.
PolicyScheduled(p) ==
    /\ serverCache[ServerOf[p]] = "absent"
    /\ PolicyBegin(p, "status",
                   [PolicyNotActive(p) EXCEPT !.policyStatus = "scheduled"], FALSE)

\* No Deployment yet, or not uniquely reachable: pending, and requeued.
PolicyWaits(p) ==
    LET s == ServerOf[p]
        out == PendingUnlessActive(PolicyNotActive(p))
    IN  /\ serverCache[s] # "absent"
        /\ \/ /\ deploymentCache[s].ver = 0
              /\ PolicyBegin(p, "status", out, TRUE)
           \/ /\ deploymentCache[s].ver # 0
              /\ ~IsPolicyUniquelyReachable(p)
              /\ PolicyBegin(p, "status", [out EXCEPT !.reachable = FALSE], TRUE)

PolicyReachable(p) ==
    LET s == ServerOf[p]
        out == PendingUnlessActive(PolicyNotActive(p))
    IN  /\ serverCache[s] # "absent"
        /\ deploymentCache[s].ver # 0
        /\ IsPolicyUniquelyReachable(p)
        /\ PolicyBegin(p, "webhook", [out EXCEPT !.reachable = TRUE], FALSE)

\* CreateOrPatch of the webhook configuration, against the cached one: Create
\* when there is none (AlreadyExists when the cache is behind), else a merge
\* patch (NotFound when it is gone).  A configuration that is cached as wanted
\* is left alone, or patched with what it holds when the API server defaulted
\* one of its fields.
WebhookRefused(p) ==
    LET k == KindOf(pr[p].obj)
    IN  (webhookCache[p][k] = 0) # (webhook[p][k] = 0)

ReconcileWebhook(p) ==
    LET k == KindOf(pr[p].obj)
    IN  /\ pr[p].pc = "webhook"
        /\ webhookCache[p][k] = pr[p].obj.gen \/ ~WebhookRefused(p)
        /\ webhook' = IF webhookCache[p][k] = pr[p].obj.gen THEN webhook
                      ELSE [webhook EXCEPT ![p][k] = pr[p].obj.gen]
        /\ Proceed(p, "status", SetPolicyAsActive(pr[p].out), FALSE)
        /\ UNCHANGED <<policyVars, clusterVars, cacheVars, sr, queueVars>>

FailsAsActive(p) ==
    /\ pr[p].pc = "webhook"
    /\ WebhookRefused(p) \/ "apiError" \in Faults
    /\ Proceed(p, "status", [pr[p].out EXCEPT !.active = TRUE], TRUE)
    /\ UNCHANGED <<policyVars, webhook, clusterVars, cacheVars, sr, queueVars>>

\* An error of the webhook write, or of the read of the CA secret before it:
\* the status is still saved, and the key is retried.
WebhookFails(p) ==
    /\ pr[p].pc = "webhook"
    /\ WebhookRefused(p) \/ "apiError" \in Faults
    /\ Proceed(p, "status", pr[p].out, TRUE)
    /\ UNCHANGED <<policyVars, webhook, clusterVars, cacheVars, sr, queueVars>>

\* setPolicyModeStatus fails when there is a Deployment but no ConfigMap, the
\* status update when the object was written or removed since it was read.
StatusRefused(p) ==
    LET s == ServerOf[p]
    IN  \/ deploymentCache[s].ver # 0 /\ ~configMapCache[s].exists
        \/ "reconciler" \notin current[p]

Requeue(p, again) == policyQueue' = IF again THEN policyQueue \cup {p} ELSE policyQueue

\* An update that changes nothing makes no new version; what is left out of
\* PolicyStatus, or a condition's transition time, may have changed.
UpdateStatus(p) ==
    /\ pr[p].pc = "status"
    /\ ~StatusRefused(p)
    /\ status' = [status EXCEPT ![p] = pr[p].out]
    /\ \/ current' = [current EXCEPT ![p] = {}]
       \/ pr[p].out = status[p] /\ Forget(p)
    /\ pr' = [pr EXCEPT ![p] = IdlePolicy]
    /\ Requeue(p, pr[p].again)
    /\ UNCHANGED <<policy, webhook, clusterVars, cacheVars, sr, serverQueue>>

\* The status was not saved: the error puts the key back.
StatusFails(p) ==
    /\ pr[p].pc = "status"
    /\ StatusRefused(p) \/ "apiError" \in Faults
    /\ Forget(p)
    /\ pr' = [pr EXCEPT ![p] = IdlePolicy]
    /\ Requeue(p, TRUE)
    /\ UNCHANGED <<policy, status, webhook, clusterVars, cacheVars, sr, serverQueue>>

KeptWebhooks(p) == [webhook[p] EXCEPT !["mutating"] = 0]

\* The webhook configuration of the kind the copy names is deleted if the cache
\* has one.
RemainingWebhooks(p) ==
    LET k == KindOf(policyCache[p])
    IN  IF webhookCache[p][k] = 0 THEN webhook[p] ELSE [webhook[p] EXCEPT ![k] = 0]

\* reconcilePolicyDeletion up to the removal of the finalizer.
ReconcileWebhookDeletion(p) ==
    /\ Dequeued(p)
    /\ policyCache[p].phase = "deleting"
    /\ webhook' = [webhook EXCEPT ![p] = RemainingWebhooks(p)]
    /\ CopyOf(p)
    /\ Proceed(p, "finalize", NoStatus, FALSE)
    /\ policyQueue' = policyQueue \ {p}
    /\ UNCHANGED <<policy, status, clusterVars, cacheVars, sr, serverQueue>>

\* The update without the finalizer: the object is gone.
RemovePolicyFinalizer(p) ==
    /\ pr[p].pc = "finalize"
    /\ "reconciler" \in current[p]
    /\ WritePolicy(p, [policy[p] EXCEPT !.phase = "absent"])
    /\ pr' = [pr EXCEPT ![p] = IdlePolicy]
    /\ UNCHANGED <<status, webhook, clusterVars, cacheVars, sr, queueVars>>

PolicyFinalizeFails(p) ==
    /\ pr[p].pc = "finalize"
    /\ "reconciler" \notin current[p] \/ "apiError" \in Faults
    /\ Forget(p)
    /\ pr' = [pr EXCEPT ![p] = IdlePolicy]
    /\ Requeue(p, TRUE)
    /\ UNCHANGED <<policy, status, webhook, clusterVars, cacheVars, sr, serverQueue>>

-----------------------------------------------------------------------------
(* The PolicyServer reconciler *)

GetLivePolicies(s) ==
    {[p \in Policies |-> IF ServerOf[p] = s /\ policyCache[p].phase = "live"
                         THEN policyCache[p].gen ELSE 0]}

\* getPolicies: the cached policies bound to the server.  A List that fails
\* with anything but NotFound is not reported: its policies are missing.
GetPolicies(s) ==
    LET listed(lost) == [p \in Policies |->
            IF ServerOf[p] = s /\ policyCache[p].phase # "absent" /\ p \notin lost
            THEN policyCache[p].gen ELSE 0]
    IN  {listed(lost) : lost \in IF "listError" \in Faults THEN SUBSET Policies ELSE {{}}}

ServerDequeued(s, phase) ==
    /\ sr[s].pc = "idle"
    /\ s \in serverQueue
    /\ serverCache[s] = phase

ServerCopyOf(s) ==
    serverCurrent' = [serverCurrent EXCEPT ![s] =
        IF "cache" \in @ THEN Copies ELSE @ \ {"reconciler"}]

ServerForget(s) ==
    serverCurrent' = [serverCurrent EXCEPT ![s] = @ \ {"reconciler"}]

ServerNotFound(s) ==
    /\ ServerDequeued(s, "absent")
    /\ serverQueue' = serverQueue \ {s}
    /\ UNCHANGED <<policyVars, webhook, clusterVars, cacheVars, pr, sr, policyQueue>>

ServerBegin(s) ==
    /\ ServerDequeued(s, "live")
    /\ \E list \in GetPolicies(s) :
           sr' = [sr EXCEPT ![s] = [pc |-> "configmap", list |-> list]]
    /\ ServerCopyOf(s)
    /\ serverQueue' = serverQueue \ {s}
    /\ UNCHANGED <<policyVars, webhook, server, serverStatus, serverCount,
                   workloadVars, cacheVars, pr, policyQueue>>

\* CreateOrPatch of the ConfigMap.  The patch is the difference between the
\* cached data and the wanted data, so a cache that is behind may hide a
\* change that is needed.
ConfigMapRefused(s) ==
    \/ ~configMapCache[s].exists /\ configMap[s].exists
    \/ /\ configMapCache[s].exists /\ configMapCache[s].gens # sr[s].list
       /\ ~configMap[s].exists

ReconcileConfigMap(s) ==
    LET skip == \/ configMapCache[s].exists /\ configMapCache[s].gens = sr[s].list
                \/ configMap[s].exists /\ configMap[s].gens = sr[s].list
    IN  /\ sr[s].pc = "configmap"
        /\ ~ConfigMapRefused(s)
        /\ configMap' = IF skip THEN configMap
                        ELSE [configMap EXCEPT ![s] = [exists |-> TRUE, ver |-> @.ver + 1,
                                                       gens |-> sr[s].list]]
        /\ sr' = [sr EXCEPT ![s].pc = "deployment", ![s].list = NoPolicies]
        /\ UNCHANGED <<policyVars, webhook, serverVars, deployment, pods, cacheVars,
                       pr, queueVars>>

\* The Deployment gets the version of the ConfigMap, read past the cache.
DeploymentRefused(s) ==
    \/ ~configMap[s].exists
    \/ (deploymentCache[s].ver = 0) # (deployment[s].ver = 0)

CreatedVersion(s) ==
    IF deploymentCache[s].ver # 0 THEN deployment[s].ver ELSE configMap[s].ver

PatchedVersion(s) ==
    IF deploymentCache[s].ver = configMap[s].ver THEN deployment[s].ver
    ELSE configMap[s].ver

ReconcileDeployment(s) ==
    /\ sr[s].pc = "deployment"
    /\ ~DeploymentRefused(s)
    /\ deployment' = [deployment EXCEPT ![s].ver = PatchedVersion(s)]
    /\ sr' = [sr EXCEPT ![s].pc = "status"]
    /\ UNCHANGED <<policyVars, webhook, serverVars, configMap, pods, cacheVars, pr,
                   queueVars>>

UpdateServerStatus(s) ==
    /\ sr[s].pc = "status"
    /\ "reconciler" \in serverCurrent[s]
    /\ serverStatus' = [serverStatus EXCEPT ![s] = TRUE]
    /\ serverCurrent' = [serverCurrent EXCEPT ![s] =
           IF serverStatus[s] THEN @ \ {"reconciler"} ELSE {}]
    /\ sr' = [sr EXCEPT ![s] = IdleServer]
    /\ UNCHANGED <<policyVars, webhook, server, serverCount, workloadVars,
                   cacheVars, pr, queueVars>>

\* An error of any step ends the reconciliation; the key is retried.
ServerFails(s) ==
    /\ \/ sr[s].pc = "configmap" /\ ConfigMapRefused(s)
       \/ sr[s].pc = "deployment" /\ DeploymentRefused(s)
       \/ sr[s].pc = "status" /\ "reconciler" \notin serverCurrent[s]
       \/ sr[s].pc = "finalize" /\ server[s] = "absent"
       \/ sr[s].pc # "idle" /\ "apiError" \in Faults
    /\ ServerForget(s)
    /\ sr' = [sr EXCEPT ![s] = IdleServer]
    /\ serverQueue' = serverQueue \cup {s}
    /\ UNCHANGED <<policyVars, webhook, server, serverStatus, serverCount,
                   workloadVars, cacheVars, pr, policyQueue>>

\* reconcileDeletion with policies left: those not yet being deleted are
\* deleted, by name, and the key is put back.
DeletePoliciesAndRequeue(s) ==
    /\ ServerDequeued(s, "deleting")
    /\ \E list \in GetPolicies(s) :
           LET doomed == {p \in Policies : list[p] # 0 /\ policyCache[p].phase = "live"}
           IN  /\ list # NoPolicies
               /\ \E done \in IF "apiError" \in Faults THEN SUBSET doomed ELSE {doomed} :
                      LET hit == {p \in done : policy[p].phase = "live"}
                      IN  /\ policy' = [p \in Policies |->
                                 IF p \in hit THEN [policy[p] EXCEPT !.phase = "deleting"]
                                 ELSE policy[p]]
                          /\ current' = [p \in Policies |->
                                 IF p \in hit THEN {} ELSE current[p]]
    /\ UNCHANGED <<status, webhook, clusterVars, cacheVars, controllerVars>>

ServerBeginFinalize(s) ==
    /\ ServerDequeued(s, "deleting")
    /\ NoPolicies \in GetPolicies(s)
    /\ sr' = [sr EXCEPT ![s] = [pc |-> "finalize", list |-> NoPolicies]]
    /\ ServerCopyOf(s)
    /\ serverQueue' = serverQueue \ {s}
    /\ UNCHANGED <<policyVars, webhook, server, serverStatus, serverCount,
                   workloadVars, cacheVars, pr, policyQueue>>

RemoveServerFinalizer(s) ==
    /\ sr[s].pc = "finalize"
    /\ "reconciler" \in serverCurrent[s]
    /\ server' = [server EXCEPT ![s] = "absent"]
    /\ serverCurrent' = [serverCurrent EXCEPT ![s] = {}]
    /\ sr' = [sr EXCEPT ![s] = IdleServer]
    /\ UNCHANGED <<policyVars, webhook, serverStatus, serverCount, workloadVars,
                   cacheVars, pr, queueVars>>

\* A conflict counts as "previously deleted": no error, no retry.
ServerFinalizeConflict(s) ==
    /\ sr[s].pc = "finalize"
    /\ server[s] # "absent"
    /\ "reconciler" \notin serverCurrent[s]
    /\ sr' = [sr EXCEPT ![s] = IdleServer]
    /\ UNCHANGED <<policyVars, webhook, clusterVars, cacheVars, pr, queueVars>>

-----------------------------------------------------------------------------
(* Kubernetes *)

\* ConfigMap and Deployment have the PolicyServer as owner.
CollectConfigMap(s) ==
    /\ server[s] = "absent"
    /\ configMap[s].exists
    /\ configMap' = [configMap EXCEPT ![s].exists = FALSE, ![s].gens = NoPolicies]
    /\ UNCHANGED <<policyVars, webhook, serverVars, deployment, pods, cacheVars,
                   controllerVars>>

CollectDeployment(s) ==
    /\ server[s] = "absent"
    /\ deployment[s] # NoDeployment
    /\ deployment' = [deployment EXCEPT ![s] = NoDeployment]
    /\ pods' = [pods EXCEPT ![s] = {}]
    /\ UNCHANGED <<policyVars, webhook, serverVars, configMap, cacheVars,
                   controllerVars>>

NewPod(v) == [ver |-> v, ready |-> FALSE, gens |-> NoPolicies]

\* The Deployment controller makes a ReplicaSet of the new pod template, starts
\* a pod of it and gives up the old ones that are not ready.
RollOut(s) ==
    LET v == deployment[s].ver
    IN  /\ deployment[s].rs # v
        /\ deployment' = [deployment EXCEPT ![s].rs = v]
        /\ pods' = [pods EXCEPT ![s] = {pod \in @ : pod.ready} \cup {NewPod(v)}]
        /\ UNCHANGED <<policyVars, webhook, serverVars, configMap, cacheVars,
                       controllerVars>>

\* One more replica, or the replacement of an evicted one.
CreatePod(s) ==
    /\ "podRestart" \in Faults
    /\ deployment[s].rs # 0
    /\ pods' = [pods EXCEPT ![s] = @ \cup {NewPod(deployment[s].rs)}]
    /\ UNCHANGED <<policyVars, webhook, serverVars, configMap, deployment,
                   cacheVars, controllerVars>>

\* The policy server reads policies.yml once, when its container starts.
PodReady(s) ==
    /\ configMap[s].exists
    /\ \E pod \in pods[s] :
           /\ ~pod.ready
           /\ pods' = [pods EXCEPT ![s] = (@ \ {pod}) \cup
                          {[ver |-> pod.ver, ready |-> TRUE, gens |-> configMap[s].gens]}]
    /\ UNCHANGED <<policyVars, webhook, serverVars, configMap, deployment,
                   cacheVars, controllerVars>>

RestartPod(s) ==
    /\ "podRestart" \in Faults
    /\ \E pod \in pods[s] :
           /\ pod.ready
           /\ pods' = [pods EXCEPT ![s] = (@ \ {pod}) \cup {NewPod(pod.ver)}]
    /\ UNCHANGED <<policyVars, webhook, serverVars, configMap, deployment,
                   cacheVars, controllerVars>>

\* A rolling update removes an old pod once a new one is ready.
StopPod(s) ==
    /\ \E pod \in pods[s] :
           /\ pod.ver # deployment[s].rs
           /\ \E new \in pods[s] : new.ready /\ new.ver = deployment[s].rs
           /\ pods' = [pods EXCEPT ![s] = @ \ {pod}]
    /\ UNCHANGED <<policyVars, webhook, serverVars, configMap, deployment,
                   cacheVars, controllerVars>>

\* The controller restarts: reconciliations under way are lost, the caches
\* are listed anew and every object is queued.
Crash ==
    /\ "crash" \in Faults
    /\ pr' = [p \in Policies |-> IdlePolicy]
    /\ sr' = [s \in Servers |-> IdleServer]
    /\ policyCache' = policy
    /\ webhookCache' = webhook
    /\ serverCache' = server
    /\ configMapCache' = configMap
    /\ deploymentCache' = deployment
    /\ podCache' = pods
    /\ current' = [p \in Policies |-> {"cache"}]
    /\ serverCurrent' = [s \in Servers |-> {"cache"}]
    /\ policyQueue' = {p \in Policies : policy[p].phase # "absent"}
    /\ serverQueue' = {s \in Servers : server[s] # "absent"}
    /\ UNCHANGED <<policy, status, webhook, server, serverStatus, serverCount,
                   workloadVars>>

-----------------------------------------------------------------------------

Users ==
    \/ \E p \in Policies :
           \/ \E m \in MutatingValues : CreatePolicy(p, m) \/ UpdatePolicy(p, m)
           \/ DeletePolicy(p)
           \/ \E k \in WebhookKinds : DeleteWebhook(p, k)
    \/ \E s \in Servers : CreateServer(s) \/ DeleteServer(s)

InformPolicy(p) == SyncPolicy(p) \/ SyncWebhook(p)
InformServer(s) ==
    SyncServer(s) \/ SyncConfigMap(s) \/ SyncDeployment(s) \/ SyncPods(s)

\* The informers that do not lag have delivered what happened last.
Informed ==
    /\ "policy" \notin Lagging => \A p \in Policies : "cache" \in current[p]
    /\ "server" \notin Lagging => \A s \in Servers : "cache" \in serverCurrent[s]
    /\ "webhook" \notin Lagging => webhookCache = webhook
    /\ "configMap" \notin Lagging => configMapCache = configMap
    /\ "deployment" \notin Lagging => deploymentCache = deployment
    /\ "pods" \notin Lagging => podCache = pods

ReconcilePolicy(p) ==
    \/ PolicyNotFound(p) \/ PolicyScheduled(p) \/ PolicyWaits(p) \/ PolicyReachable(p)
    \/ ReconcileWebhook(p) \/ WebhookFails(p)
    \/ UpdateStatus(p) \/ StatusFails(p)
    \/ ReconcileWebhookDeletion(p) \/ RemovePolicyFinalizer(p) \/ PolicyFinalizeFails(p)

ReconcileServer(s) ==
    \/ ServerNotFound(s) \/ ServerBegin(s) \/ ReconcileConfigMap(s)
    \/ ReconcileDeployment(s) \/ UpdateServerStatus(s) \/ ServerFails(s)
    \/ DeletePoliciesAndRequeue(s) \/ ServerBeginFinalize(s)
    \/ RemoveServerFinalizer(s) \/ ServerFinalizeConflict(s)

Kubernetes(s) ==
    CollectConfigMap(s) \/ CollectDeployment(s) \/ RollOut(s) \/ PodReady(s) \/ StopPod(s)

PodFaults(s) == CreatePod(s) \/ RestartPod(s)

Next ==
    \/ \E p \in Policies : InformPolicy(p)
    \/ \E s \in Servers : InformServer(s)
    \/ /\ Informed
       /\ \/ Users
          \/ \E p \in Policies : ResyncPolicy(p) \/ ReconcilePolicy(p)
          \/ \E s \in Servers :
                 \/ ResyncServer(s) \/ ReconcileServer(s)
                 \/ Kubernetes(s) \/ PodFaults(s)
          \/ Crash

Spec == Init /\ [][Next]_vars

\* Watches deliver, work queues hand out their keys and Kubernetes runs its own
\* controllers.  Where an informer does not lag the other steps wait for it, so
\* being enabled again and again has to be enough.
Fairness ==
    /\ \A p \in Policies : /\ WF_vars(SyncPolicy(p)) /\ WF_vars(SyncWebhook(p))
                           /\ SF_vars(Informed /\ ReconcilePolicy(p))
    /\ \A s \in Servers :
           /\ WF_vars(SyncServer(s)) /\ WF_vars(SyncConfigMap(s))
           /\ WF_vars(SyncDeployment(s)) /\ WF_vars(SyncPods(s))
           /\ SF_vars(Informed /\ ReconcileServer(s))
           /\ SF_vars(Informed /\ Kubernetes(s))

FairSpec == Spec /\ Fairness

-----------------------------------------------------------------------------
(* Safety *)

Exists(p) == policy[p].phase # "absent"

\* The API server calls a policy's webhook only while there is a policy:
\* reconcilePolicyDeletion removes the configuration before the finalizer.
NoOrphanWebhook ==
    \A p \in Policies, k \in WebhookKinds : webhook[p][k] # 0 => Exists(p)

\* A webhook configuration points to a PolicyServer that still exists and whose
\* ConfigMap lists the policy: the two controllers, which share nothing but the
\* API server, add and remove things in an order that keeps this true.
RegisteredIsConfigured ==
    \A p \in Policies, k \in WebhookKinds :
        webhook[p][k] # 0 => LET s == ServerOf[p]
                             IN  /\ server[s] # "absent"
                                 /\ configMap[s].exists
                                 /\ configMap[s].gens[p] # 0

\* No request reaches a policy server that does not know the policy: from the
\* registration of the webhook to its removal, every pod that can answer has
\* loaded a policies.yml with the policy.
EveryPodServes ==
    \A p \in Policies, k \in WebhookKinds :
        webhook[p][k] # 0 =>
            \A pod \in pods[ServerOf[p]] : pod.ready => pod.gens[p] # 0

\* PolicyActive on a live policy means that its webhook is registered, although
\* the condition is computed from caches and saved after the registration.
ActiveIsRegistered ==
    \A p \in Policies :
        policy[p].phase = "live" /\ status[p].active =>
            webhook[p][KindOf(policy[p])] # 0

\* A PolicyServer is let go only after the policies it was told to serve.
ServerRemovedLast ==
    [][\A s \in Servers :
           server[s] # "absent" /\ server'[s] = "absent" =>
               \A p \in Policies : configMap[s].gens[p] # 0 => ~Exists(p)]_vars

\* After PolicyUniquelyReachable is set for a policy, only its latest instance
\* can be reached: the pods serve the generation the reconciler looked at.
ReachableMeansLatest ==
    [][\A p \in Policies :
           ~status[p].reachable /\ status'[p].reachable =>
               \A pod \in pods[ServerOf[p]] :
                   pod.ready => pod.gens[p] = policy[p].gen]_vars

-----------------------------------------------------------------------------
(* Liveness *)

\* What a policy and its PolicyServer look like when there is nothing left to
\* do for them.
Converged(p) ==
    LET s == ServerOf[p]
        g == policy[p].gen
    IN  \/ /\ policy[p].phase = "live"
           /\ server[s] = "live"
           /\ webhook[p][KindOf(policy[p])] = g
           /\ status[p].policyStatus = "active"
           /\ status[p].active
           /\ status[p].reachable
           /\ pods[s] # {}
           /\ \A pod \in pods[s] : pod.ready /\ pod.gens[p] = g
        \/ /\ policy[p].phase = "live"
           /\ server[s] = "absent"
           /\ status[p].policyStatus = "scheduled"
        \/ /\ policy[p].phase = "absent"
           /\ webhook[p] = NoWebhooks
           /\ server[s] # "deleting"
           /\ \A pod \in pods[s] : pod.gens[p] = 0

\* Users write finitely often; afterwards every policy comes to rest: the live
\* one is registered and served in its last version, the one without a server
\* is scheduled, and what was deleted is gone from the pods as well.
Convergence == \A p \in Policies : <>[]Converged(p)
=============================================================================
