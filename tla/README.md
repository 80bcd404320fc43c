# Verification of the Kubewarden controller

TLA+ models of the controller in `src/`, TLC configurations that check them on
small instances, and theorems checked by TLAPS for every instance.  The models
are translated from the Go code; a path such as `policy_subreconciler.go` is
relative to `src/internal/controller/`, one such as `policy_validation.go` to
`src/api/policies/v1/`.

## The system

| Part | State | Operations | What makes it hard |
|---|---|---|---|
| Policy sub-reconciler, one for the four policy kinds (`policy_subreconciler*.go`, `*policy*_controller.go`) | status, finalizer, one webhook configuration per policy | decide whether a policy is scheduled, pending or active; register and remove its webhook | reads ConfigMap, ReplicaSets, pods and webhook configurations from informers that lag independently; the configuration must outlive neither the policy nor the pods that serve it |
| PolicyServer reconciler (`policyserver_controller*.go`) | ConfigMap, Deployment, Service, certificate secret, PodDisruptionBudget, conditions, finalizer | write all of these from the list of policies; on deletion delete the policies, wait, remove the finalizer | the list comes from a cache; each write may fail; deletion has to wait for another controller |
| Certificate reconciler (`cert_controller.go`, `internal/certs`) | CA secret with new and old CA, bundles of the webhook configurations, serving certificates | rotate the CA, inject bundles, remove the old CA, renew serving certificates, every twelve hours | five kinds of objects change one after the other while servers load certificates and the other reconcilers write bundles |
| Admission webhooks (`*_webhook.go`, `policy_validation.go`, `policygroup_validation.go`) | the stored objects | default and validate creation and update | they also judge the controller's own updates |
| Kubernetes (external) | pods, ReplicaSets, garbage, caches, queues | roll out, restart, collect, deliver events | any order, any delay |

The two main reconcilers share nothing but the API server.  A policy becomes
active along a chain: policy in the ConfigMap, ConfigMap version on the
Deployment, ReplicaSet, ready pods, webhook, status.  It goes away along the
reverse chain: webhook, finalizer, ConfigMap, pods; the PolicyServer comes last.

`PROJECT.json` lists all components, the hazards at their lines, and for every
definition the lines it models.

## Modules

### PolicyLifecycle

Policies of any kind and PolicyServers, from creation to removal.

* *API objects*: `policy` (phase, generation standing for the spec,
  `spec.mutating`), `status`, `webhook` (per policy and kind, the generation it
  was built from), `server`, `configMap` (version, and the generation of each
  entry of `policies.yml`), `deployment` (config version, and that of the current
  ReplicaSet), `pods` (version, readiness, what the container loaded).
* *Caches*: one per object kind.  `current` says which copies of a policy, the
  cache's and the reconciler's, have the latest resourceVersion: a write from
  another copy is a conflict.  An informer in `Lagging` may stay behind;
  for the others every step waits for delivery (`Informed`).
* *Reconcilers*: `pr` and `sr`, one per key, with a `pc` between any two writes to
  the API server.  The reads of one part of a reconciliation are one step.  Since
  each cache lags on its own, reading them at once shows the same combinations as
  reading them one after the other.
* *Actions*: one per part of `reconcile`, `reconcilePolicy`,
  `reconcilePolicyDeletion`, `PolicyServerReconciler.Reconcile` and
  `reconcileDeletion` that ends in a write, and one for each way it can fail;
  users; the delivery of each informer together with the watch's map function
  (`SyncPods` queues the policies of the cached ConfigMap, for pods that are being
  terminated only the cluster-wide ones); Deployment controller, kubelet, garbage
  collector; a restart of the controller (`Crash`).
* *Faults* are switched on by `Faults`.

`spec.policyServer` is the constant `ServerOf`, which Admission justifies.  The
status "unscheduled" is unreachable, since the defaulters fill in a PolicyServer.

### CertRotation

Time in ticks of the reconciler.  A CA is identified by the time it expires at, a
serving certificate by its CA and its expiry, a bundle by the set of its CAs.
`caSecret` and its cache, `bundle`, `serverSecret`, what each server has
`loaded`, and the reconciler `cr` with the configurations left to patch and the
secrets left to renew.  An action is one write, so restarts and errors fall
between any two.  `ReconcileBundle` and `CreateServerCert` are the uses of the CA
secret by the policy and PolicyServer reconcilers.  Validating and mutating
configurations are listed as one.  A tick is long compared with the delivery of a
secret, so `Tick` waits for the caches and the mounted certificates.

### Admission

One object of any of the five kinds, its stored version, and the image pull
secret of a PolicyServer: a webhook looks at nothing else.  Writes go through the
default of the CRD for `mode`, the defaulter and the validator; the removal of
the finalizer by the reconcilers is such a write.  The validators are translated
check by check.  Rules are sets; a resource is its path; of a match condition the
model has the name and whether the expression compiles; of a group's expression
the type and the members it calls.

### PolicyServerObjects, with PolicyServerDeployment and PolicyConfiguration

One live PolicyServer, reconciled again and again.  PolicyLifecycle has the order
of its ConfigMap and Deployment among the other objects; here is what the
reconciliation writes.

* `PolicyServerObjects` has the state: `spec` and `conditions` with the informer's
  copy, the five objects in `api` and in `cache`, the `version` of the ConfigMap,
  the flags of the running controller (`options`), and the reconciliation `sr`.
  `Begin`, `ReconcileObject(kind)` in the order of `After`, `ObjectFails`,
  `UpdateStatus` and `StatusFails` are `PolicyServerReconciler.Reconcile`.
  `CreateOrPatch` is what makes it hard: a patch is the difference between a
  cached and the wanted object, so a field that differs in the API server but not
  in the cache keeps its value.  `Restart` brings the controller back, maybe with
  other flags.  `sr.fresh` is a history variable.
* `PolicyServerDeployment` is the pod template as a function of spec, flags and
  environment: one operator per function of `policyserver_controller_deployment.go`.
  The environment of the container is the function from each variable to the values
  given for it in order, of which the container sees the last: the code appends
  without looking (`AddEnv`) or replaces the first (`SetEnv`).  `spec.env` names no
  variable twice, but may name those the controller sets.
* `PolicyConfiguration` is what becomes of a policy of each kind: its entry in
  `policies.yml` through `MarshalJSON` and `UnmarshalJSON`, the mode and the
  condition PolicyServerConfigurationUpToDate its reconciler derives from it, the
  reconcile requests the watches make of it, and its webhook configuration with
  the namespace selector.

### PolicyService and PolicyRefinement

`PolicyService` is what the controller promises, in five variables and without
caches, versions, queues or reconcilers: the phase of policies and PolicyServers,
which policies are registered, which are listed, and which are known to all ready
pods.  A policy is registered only when it exists, is listed and known and its
PolicyServer exists; nothing registered is dropped from a list or unknown to a
pod; the controller takes no webhook away from a live policy; a policy goes after
its webhook, a PolicyServer after the policies it lists.  `PolicyRefinement` maps
PolicyLifecycle to it; `KeepsPromise` is its specification under that mapping.

### MC modules

`MCPolicyLifecycle`, `MCCertRotation`, `MCAdmission` and `MCPolicyServerObjects`
give the constants values; the `.cfg` files choose lag, faults and bounds.

## Runs

| Run | Checks | Instance |
|---|---|---|
| `lagging_caches` | `TypeOK`, `NoOrphanWebhook`, `RegisteredIsConfigured`, `EveryPodServes`, `ServerRemovedLast`, `KeepsPromise` | policy, PolicyServer, ConfigMap and pod informers lag; webhook configurations are deleted by hand |
| `faults` | `NoOrphanWebhook`, `RegisteredIsConfigured`, `EveryPodServes`, `ActiveIsRegistered` | restarts of the controller and of pods, failed writes, resyncs; policy and PolicyServer informers lag |
| `convergence` | `Convergence` | two versions of a mutating policy, no lag |
| `toggled_mutating` | `NoOrphanWebhook` violated | a user flips `spec.mutating` |
| `swallowed_list_error` | `ServerRemovedLast` violated | a List fails in `getPolicies` |
| `reachable_latest` | `ReachableMeansLatest` violated | a policy is updated |
| `cert_rotation` | `CertTypeOK`, `InjectedWebhooksTrusted`, `PolicyTrustReturns` | one PolicyServer, one own and one policy webhook, six ticks, all faults |
| `injection_aborted` | `OwnWebhooksTrusted` violated | a listed configuration is deleted |
| `admission` | `AdmissionTypeOK`, `FinalizerIsRemovable`, `LiveHasFinalizer`, `PolicyKeepsServerAndMode`, `DeletionCompletes` | all kinds, rules and conditions on both sides of each check |
| `pull_secret_gone` | `ServerDeletionCompletes` violated | the same |
| `server_objects` | `ObjectsTypeOK`, `MountedObjectsExist`, `PodTemplateIsValid`, `TelemetryIsEffective`, `RolledOutTogether`, `AtRestApplied`, `EntriesAreUnderstood`, `WebhooksAreAnswered`, `StatusMeansApplied` | three specs, two sets of flags, policies of all four kinds; a slow PolicyServer, ConfigMap or PodDisruptionBudget informer; two edits and one fault |
| `selector_labels` | `SelectorIsHonoured` violated | a cluster-wide policy with `matchLabels` |

What they show:

* the order of registration and removal is right under any lag of the policy,
  PolicyServer, ConfigMap and pod informers, restarts and failed writes: no
  request is sent to a policy that is gone, to a missing PolicyServer or to a pod
  that does not know the policy, PolicyActive is not shown without a webhook, and
  every write is a step of PolicyService;
* policies come to rest when informers deliver before the next step;
* the pod template is valid for all combinations of spec and flags; the Deployment
  follows what it mounts; a roll-out never pairs a new ConfigMap with an old
  template; a PolicyServer at rest has everything its spec wants; and the status
  update, through its conflict, guards against writing from an old spec;
* what the PolicyServer reconciler writes about a policy is what the policy
  reconcilers, the watches and the webhook configuration take it for;
* old and new bundles and certificates overlap enough for the controller's own
  webhooks to stay callable through rotations whose injection completes; the
  webhook of a policy may be uncallable for a moment, since its reconciler writes
  the new CA alone, and becomes callable again;
* the validators accept what they accepted before, so the controller can always
  finalize a policy.

### Bounds

`MaxGen` and `MaxServer` bound how often users write, so that TLC terminates; in
the runs with lag one life of a policy and of a PolicyServer gives three versions
of each (created, deleted, gone) for a copy to be stale.  The
proofs have no bounds and any number of policies and PolicyServers.
In `cert_rotation` a CA lives for 4 ticks, a serving certificate for 3, the
look-ahead is 2 and `MaxTime` 6: two rotations, the expiry of an old CA, and
renewals without rotation all happen.  `MaxMissed` is the assumption that a
reconciliation completes once per look-ahead (60 days).  In Admission
`maxMatchConditionsCount` is 2 instead of 64 and there is one compute resource;
the checks of one resource do not look at another.
In `server_objects` `MaxEdits` is 2 and `MaxFaults` 1: a field may change and
change back while a copy is stale, with a failed write or a restart in between.
The specs differ in the fields that some condition of the code looks at, the flags
in telemetry by sidecar and to a remote collector with certificates and mutual TLS.

The PolicyLifecycle and PolicyServerObjects runs do not check for deadlock: when
users have written what the bounds allow and everything is at rest, nothing is
left to do.  `Convergence` says that rest is reached, `AtRestApplied` what it is.

### Fairness

Watches deliver (WF on the informer steps).  A queued key is reconciled, and the
Deployment controller, kubelet and garbage collector do their work (SF, because a
step that waits for a cache that does not lag is enabled only now and then).
Users, faults, resyncs and restarts have no fairness.  In CertRotation the ticker
goes on and a write tried again at each tick succeeds at last.  In Admission a
reconciler retries the removal of the finalizer, as controller-runtime does after
an error.

## Findings

Each is a violation run; `PROJECT.json` quotes the comment or the test.

1. `toggled_mutating`: only the configuration of the current kind is deleted
   with the policy, so flipping `spec.mutating` leaves the other one behind.
2. `swallowed_list_error`: `getPolicies` returns only NotFound errors; any other
   error reads as "no policies", and the PolicyServer is let go before them.
3. `reachable_latest`: PolicyUniquelyReachable is True after an update while the
   pods still serve the version before.
4. `injection_aborted`: an injection that fails half-way is not taken up again,
   since the new CA is already saved and valid.
5. `pull_secret_gone`: a PolicyServer whose pull secret was deleted cannot lose
   its finalizer, because its update is refused.

6. `selector_labels`: of the `namespaceSelector` of a cluster-wide policy only the
   `matchExpressions` reach the webhook configuration, so that the webhook also
   runs in namespaces its `matchLabels` exclude.

Observations without a run of their own; the first three can be reproduced by
changing constants:

* with `"webhook" \in Lagging`, `NoOrphanWebhook` fails: a deletion reconciled
  before the informer has seen the new configuration finds nothing to delete;
* with `"recreate" \in Faults`, a policy created again under its name while its
  PolicyServer is finalized can be shown as active with no pod serving it;
* with `"configMap" \in Lagging`, `Convergence` fails: a policy
  can stay scheduled although its PolicyServer exists, since no policy
  controller watches PolicyServers, until the periodic resync of the informers;
* `GetUniqueName` joins kind, namespace and name with hyphens, so different
  policies can have the same unique name: policy `b` of namespace `team-a` and
  `a-b` of `team`, or ClusterAdmissionPolicy `group-x` and
  ClusterAdmissionPolicyGroup `x`.  The later one in the list takes the entry of
  the other;
* `UnmarshalJSON` reads an entry with neither module nor members as an error, and
  then no entry of the ConfigMap is found; a policy with the module `""` is not
  refused;
* two telemetry certificates in one directory, or in one that the policy server uses,
  would give two mounts with one path;
* when a step of the PolicyServer reconciliation fails, its condition is set to
  False in memory only: `Reconcile` returns before `Status().Update`, and the
  stored condition keeps its former value;
* with a slow ConfigMap informer `RolledOutTogether` does not hold: a sources.yml
  that was changed and changed back may keep the value in between until the next
  reconciliation with an up-to-date cache;
* `validateRulesField` passes the API versions of a rule where the called
  functions name API groups; the model does the same.

## Proofs

All for arbitrary sets of policies, PolicyServers, webhooks, specs and flags, and
arbitrary bounds.

**PolicyLifecycleOrder, PolicyLifecycleProofs.**  `TypeCorrect` needs nothing but
`ConstantsAssumption`.  The safety theorems `NoWebhookIsOrphaned`, `RegisteredStaysConfigured` and `ServerIsRemovedLast`
assume `Benign`: no swallowed List error, no flipped `spec.mutating`, no name used
again, and a webhook informer that has delivered.  All other lag and faults are
allowed.  The properties are not inductive, because steps are taken from stale
copies.  `Inv` (in PolicyLifecycleOrder, with the steps of users and of the policy
reconciler) adds how stale they can be: a cache holds an earlier state and never
misses a deletion it depends on (`PolicyCacheBehind`, `ServerCacheBehind`), a
listed policy has been seen by the cache (`ListedIsKnown`), an entry seen in the
cached ConfigMap stays until the policy is gone (`CachedEntryStays`), and what a
reconciler has decided remains true until it writes (`ServerReconcilerKeeps`,
`PolicyReconcilerHolds`).

**PodServiceProofs.**  `RegisteredIsServed`: `Spec => []EveryPodServes`.  What
`isPolicyUniquelyReachable` sees in three caches holds of the pods themselves,
because versions only grow: no pod is older than all cached ones (`NoOlderPod`)
and a pod whose version is at least that of a cached ConfigMap serves its entries
(`PodsUpToDate`).

**PolicyServiceProofs.**  `LifecycleKeepsPromise`: under `Benign`,
`Spec => KeepsPromise`.  The initial states map to the initial state, and one
lemma per action shows its step to be one of PolicyService or not to show
(`Hidden`).  The steps need `Inv` before and after, `EveryPodServes` after (a
registered policy is known to the pods) and `CopyExists` (a reconciliation about
to register a webhook holds the copy of an object that was created).
`ActivePolicyIsRegistered`: `Spec => []ActiveIsRegistered` under `Benign` and
without configurations deleted by hand.  `Activation` says of a policy without a
webhook that it is neither shown as active nor about to be; the registration comes
before the condition is set, and a deletion starts only when the policy is no
longer live.

**PolicyServerObjectsProofs**: what the reconciliations of a PolicyServer keep.

* `FreshReconciliationApplies` (`StatusMeansApplied`), `DeploymentComesAfter`
  (`MountedObjectsExist`) and `ObjectsTypeCorrect`.  `FreshPatch` is the fact about
  `CreateOrPatch`: from an up-to-date copy the patch yields the wanted object, map
  fields included.  `Applied` follows a fresh reconciliation: what it has written is
  as wanted, what it has not is as cached; it uses that only the Deployment depends
  on the version, which the earlier write of the ConfigMap changes.  A copy with the
  latest resourceVersion holds the present spec, so an accepted status update means
  that spec.  `Created`: nothing but the budget is ever deleted.
* `NothingIsLost` (`AtRestApplied`).  `Kept`: with no slow object informer every
  reconciliation is fresh, and it knows the latest policies or its key is queued
  again.  So the one after which nothing is queued has applied everything
  (`Applied`), and neither an edit nor a restart leaves the queue empty.
* `ConfigAndTemplateAgree` (`RolledOutTogether`).  `RolledOut`: the version on the
  Deployment is never ahead of that of the ConfigMap, so a write that changes the
  ConfigMap parts the two until the Deployment follows; and what a reconciliation
  has written to the ConfigMap is still there when it writes the Deployment, since
  nobody else writes it.
* `StoredTemplatesAreValid` (`PodTemplateIsValid`) and `TelemetryReachesContainers`
  (`TelemetryIsEffective`).  `Templated`: whatever copy a patch was computed from, the
  stored template is the whole of one that some spec and flags ask for, because the
  template is always sent in full.  The rest is about that function.
* `ConfigurationIsUnderstood` (`EntriesAreUnderstood`) and `WebhooksLeadToEntries`
  (`WebhooksAreAnswered`), from `AtRestApplied` and facts about `policies.yml`.
* `SelectorsWithoutLabels`: without `matchLabels`, `SelectorIsHonoured` holds for all
  kinds and all `matchExpressions`; finding 6 is all that is lost.

**PolicyServerContentProofs**: the lemmas about operators these rest on.  Mounts and
volumes are both images of one set of names (`MountsByName`), the paths of which
differ (`PathsDiffer`); one lemma per function that edits the environment says which
variables it changes and what the container sees (`AddedEnvContent`,
`SetEnvContent`, `TemplateEnvContent`); an entry is read back as it was written
(`EntryContent`, `EntriesReadBack`).

Their assumptions: replicated variables are not among those the controller sets
(`OtelNames`, the list in `replicateOtelEnvVars`); cluster-wide policies have no
namespace and groups have members (`PoliciesAssumption`, the CRDs and
`validatePolicyGroupMembers`); namespaces carry the label with their name
(`NamespacesAssumption`, the API server); and the two telemetry certificates are in
directories of their own (`CertificateDirectories`).  Nothing in the code checks the
last one: it holds between the two since the controller's pod mounts both, and it is
up to the administrator that they are none of the policy server's directories.
`EntriesAreUnderstood` and `WebhooksAreAnswered` say in `Distinguished` which policies
they are about: their unique names differ and single policies have a module.

**CertRotationProofs.**  `RotationKeepsTrust`, `CertTypeCorrect` and, without
faults that cut an injection short, `OwnWebhooksStayTrusted`.  The invariant is
about time: a complete reconciliation leaves CA and certificate valid for a
look-ahead and the next one completes within it.  It needs a CA validity of at
least two look-aheads and a serving certificate validity of at least one
(`CertAssumption`; the code has ten years, one year and 60 days).

**AdmissionProofs.**  `PolicyFinalizerIsRemovable`, `LiveObjectsHaveFinalizer`,
`PolicyKeeps` and `AdmissionTypeCorrect`.  The invariant says that a stored policy
satisfies all that the validators of creation and update have in common, and that
defaulting a stored object changes nothing.

Only model-checked: `Convergence`, `PolicyTrustReturns` and `DeletionCompletes`,
as liveness under fairness is out of the prover's reach.  Every safety property of
the passing runs is also a theorem.

## Not modelled

* Fields that are copied without being looked at: image, affinity, tolerations,
  resources and service account of the pods (one field stands for them), settings,
  expressions, messages, timeouts and failure policies of policies.
* Keys, PEM and X.509 encodings; a certificate is its issuer and its expiry.
* The API version v1alpha2, which has types and no code that runs; generated deep
  copies; factories for tests.
* Metrics, feature gates and flag parsing.
* Several replicas of the controller: leader election lets one of them work, and a
  change of leader is a restart.
