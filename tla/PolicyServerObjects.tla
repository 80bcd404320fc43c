------------------------- MODULE PolicyServerObjects -------------------------
(***************************************************************************)
(* One reconciliation after the other of one live PolicyServer: the        *)
(* Secret, ConfigMap, PodDisruptionBudget, Deployment and Service it       *)
(* writes, one at a time and each as the difference to a cached copy, and  *)
(* the conditions it shows at the end.  Users change the spec meanwhile,   *)
(* writes fail, and the controller is restarted with other flags.          *)
(*                                                                         *)
(* The policies, and the deletion of a PolicyServer, are modelled by       *)
(* PolicyLifecycle; the content of the Secret by CertRotation.             *)
(***************************************************************************)
EXTENDS PolicyConfiguration

CONSTANTS Specs,        \* PolicyServer specs that users write, env naming no variable twice
          Options,      \* flags and environments of the controller
          PolicyLists,  \* the policies bound to the PolicyServer, in the order they are listed
          Namespaces,   \* namespaces of the cluster: [name, labels]
          SlowInformers,\* the sets of informers that may be slow together
          MaxEdits,     \* bound: changes of the spec and of the policies
          MaxFaults     \* bound: restarts of the controller and writes that fail
                        \* for no reason of ours

Kinds == {"secret", "configMap", "pdb", "deployment", "service"}

ASSUME ObjectsAssumption ==
    /\ \A slow \in SlowInformers : slow \subseteq Kinds \cup {"server"}
    /\ MaxEdits \in Nat /\ MaxFaults \in Nat
    /\ \A sp \in Specs : sp.minAvailable = 0 \/ sp.maxUnavailable = 0

\* The variables that are replicated are named OTEL_..., the others KUBEWARDEN_....
ASSUME OtelNames == \A opts \in Options : DOMAIN opts.otelEnv \cap OwnEnv = {}

\* The certificates of telemetry are Secrets that the controller's own pod mounts at the
\* same paths, two volumes never at one; that these are not directories the policy
\* server uses for something else is left to the administrator.
ASSUME CertificateDirectories ==
    \A opts \in Options :
        LET server == OtelCertificate(opts)
            client == OtelClientCertificate(opts)
        IN  /\ server.secret # "" => server.path \notin OwnDirectories
            /\ client.secret # "" => client.path \notin OwnDirectories
            /\ server.secret # "" /\ client.secret # "" => server.path # client.path

\* The API server labels every namespace with its name.
ASSUME NamespacesAssumption ==
    \A ns \in Namespaces : NameLabel \in DOMAIN ns.labels /\ ns.labels[NameLabel] = ns.name

\* Policies as they are admitted: only the namespaced kinds have a namespace, and a
\* group has a member.
ASSUME PoliciesAssumption ==
    \A list \in PolicyLists :
        /\ list \in Seq(Range(list))
        /\ \A p \in Range(list) :
               /\ p.kind \in PolicyKinds
               /\ IsNamespaced(p) <=> p.namespace # <<>>
               /\ IsGroup(p) => DOMAIN p.members # {}

VARIABLES
    spec, conditions,       \* the PolicyServer in the API server
    cachedServer,           \* the informer's copy: [spec, conditions]
    current,                \* the copies with the latest resourceVersion
    policies,               \* the policies bound to the server
    api,                    \* the five objects in the API server
    cache,                  \* the informers' copies of them
    version,                \* resourceVersion of the ConfigMap
    clientCA,               \* whether the client CA ConfigMap exists
    options,                \* flags of the running controller
    slow,                   \* which informers lag in this behaviour
    sr,                     \* the reconciliation under way
    queued,                 \* whether the work queue holds the key
    edits, faults           \* what counts against the bounds

serverVars == <<spec, conditions, current>>
objectVars == <<api, version>>
inputVars == <<policies, clientCA, options, slow>>
boundVars == <<edits, faults>>
vars == <<serverVars, cachedServer, objectVars, cache, inputVars, sr, queued, boundVars>>

-----------------------------------------------------------------------------
(* What the reconciler wants the objects to be *)

Absent == [exists |-> FALSE]

AuthoritiesForgotten(sp) ==
    [insecure |-> sp.insecureSources, authorities |-> [uri \in {} |-> <<>>]]

\* sources.yml; the certificates of an authority become entries of type Data.
BuildSourcesMap(sp) ==
    [insecure |-> sp.insecureSources,
     authorities |-> [uri \in DOMAIN sp.sourceAuthorities |->
        [i \in DOMAIN sp.sourceAuthorities[uri] |->
            [type |-> "Data", data |-> sp.sourceAuthorities[uri][i]]]]]

UpdateConfigMapData(sp, list) ==
    [exists |-> TRUE, policies |-> PoliciesYML(list), sources |-> BuildSourcesMap(sp)]

\* The wanted budget: minAvailable if it is given, and one of the two alone.
ReconcilePodDisruptionBudget(sp) ==
    [exists |-> TRUE, min |-> sp.minAvailable,
     max |-> IF sp.minAvailable # 0 THEN 0 ELSE sp.maxUnavailable]

WantsBudget(sp) == sp.minAvailable # 0 \/ sp.maxUnavailable # 0

UpdatePolicyServerDeployment(sp, opts, ver) ==
    [exists |-> TRUE, replicas |-> sp.replicas, version |-> ver,
     annotations |-> TemplateAnnotations(sp, opts), pod |-> PodTemplate(sp, opts)]

GetMetricsPort(opts) == IF opts.metricsPort = 0 THEN 8080 ELSE opts.metricsPort

UpdateService(opts) ==
    [exists |-> TRUE,
     ports |-> {8443} \cup IF opts.metricsEnabled THEN {GetMetricsPort(opts)} ELSE {}]

ServerSecret == [exists |-> TRUE, cert |-> "tls.crt"]

Desired(kind, sp, list, opts, ver) ==
    CASE kind = "secret" -> ServerSecret
      [] kind = "configMap" -> UpdateConfigMapData(sp, list)
      [] kind = "pdb" -> IF WantsBudget(sp) THEN ReconcilePodDisruptionBudget(sp) ELSE Absent
      [] kind = "deployment" -> UpdatePolicyServerDeployment(sp, opts, ver)
      [] kind = "service" -> UpdateService(opts)

-----------------------------------------------------------------------------
(* controllerutil.CreateOrPatch: Create when the cache has no object, else *)
(* a merge patch with the difference between the cached and the wanted     *)
(* object.  A field that is not in the difference keeps whatever value it  *)
(* has in the API server.                                                  *)

\* Lists whose items hold defaults of the API server (containers, volumes)
\* always differ from what the reconciler builds, so they are always sent.
AlwaysSent == {"pod"}

\* A map is patched key by key.
PatchedKeys(stored, cached, wanted) ==
    {k \in stored \cup wanted : IF (k \in cached) # (k \in wanted) THEN k \in wanted
                                ELSE k \in stored}

Patched(stored, cached, wanted) ==
    [f \in DOMAIN wanted |->
        IF f = "annotations" THEN PatchedKeys(stored[f], cached[f], wanted[f])
        ELSE IF f \in AlwaysSent \/ cached[f] # wanted[f] THEN wanted[f]
        ELSE stored[f]]

NothingToPatch(cached, wanted) == cached = wanted /\ AlwaysSent \cap DOMAIN wanted = {}

\* What is stored afterwards.
CreateOrPatch(stored, cached, wanted) ==
    IF ~wanted.exists THEN Absent
    ELSE IF ~cached.exists THEN wanted
    ELSE IF NothingToPatch(cached, wanted) THEN stored
    ELSE Patched(stored, cached, wanted)

BothBudgets(object) == "min" \in DOMAIN object /\ object.min # 0 /\ object.max # 0

\* AlreadyExists, NotFound, or a PodDisruptionBudget with both fields, which
\* the API server does not accept.  A Delete that finds nothing is no error.
Refused(stored, cached, wanted) ==
    /\ wanted.exists
    /\ \/ ~cached.exists /\ stored.exists
       \/ cached.exists /\ ~NothingToPatch(cached, wanted) /\
              (~stored.exists \/ BothBudgets(Patched(stored, cached, wanted)))

Wanted(kind) == Desired(kind, sr.spec, sr.policies, options, version)

-----------------------------------------------------------------------------

ConditionValues == {"none", "True", "False"}
NoConditions == [k \in Kinds |-> "none"]
Idle == [pc |-> "idle"]
Server == [spec : Specs, conditions : [Kinds -> ConditionValues]]
Reconciliation == [pc : Kinds \cup {"status"}, spec : Specs, policies : PolicyLists,
                   conditions : [Kinds -> ConditionValues], fresh : BOOLEAN]

ObjectsTypeOK ==
    /\ spec \in Specs
    /\ conditions \in [Kinds -> ConditionValues]
    /\ cachedServer \in Server
    /\ current \subseteq {"cache", "reconciler"}
    /\ policies \in PolicyLists
    /\ \A k \in Kinds : api[k].exists \in BOOLEAN /\ cache[k].exists \in BOOLEAN
    /\ version \in Nat
    /\ clientCA \in BOOLEAN
    /\ options \in Options
    /\ slow \in SlowInformers
    /\ sr = Idle \/ sr \in Reconciliation
    /\ queued \in BOOLEAN
    /\ edits \in 0..MaxEdits /\ faults \in 0..MaxFaults

\* A PolicyServer that was just created, and the controller with any flags.
Init ==
    /\ spec \in Specs
    /\ conditions = NoConditions
    /\ cachedServer = [spec |-> spec, conditions |-> conditions]
    /\ current = {"cache"}
    /\ policies \in PolicyLists
    /\ api = [k \in Kinds |-> Absent]
    /\ cache = api
    /\ version = 0
    /\ clientCA = FALSE
    /\ options \in Options
    /\ slow \in SlowInformers
    /\ sr = Idle
    /\ queued = TRUE
    /\ edits = 0 /\ faults = 0

-----------------------------------------------------------------------------
(* Users, administrators and informers *)

UpdateSpec ==
    /\ edits < MaxEdits
    /\ spec' \in Specs \ {spec}
    /\ current' = {}
    /\ edits' = edits + 1
    /\ UNCHANGED <<conditions, cachedServer, objectVars, cache, inputVars, sr, queued,
                   faults>>

\* The policy watches of the PolicyServer controller queue the key.
UpdatePolicies ==
    /\ edits < MaxEdits
    /\ policies' \in PolicyLists \ {policies}
    /\ queued' = TRUE
    /\ edits' = edits + 1
    /\ UNCHANGED <<serverVars, cachedServer, objectVars, cache, clientCA, options, slow,
                   sr, faults>>

\* Nobody watches the client CA ConfigMap.
CreateClientCA ==
    /\ ~clientCA
    /\ clientCA' = TRUE
    /\ UNCHANGED <<serverVars, cachedServer, objectVars, cache, policies, options, slow,
                   sr, queued, boundVars>>

\* The controller stops between any two calls and comes back, maybe with other
\* flags: caches are filled anew and every PolicyServer is queued.
Restart ==
    /\ faults < MaxFaults
    /\ options' \in Options
    /\ cachedServer' = [spec |-> spec, conditions |-> conditions]
    /\ current' = {"cache"}
    /\ cache' = api
    /\ sr' = Idle
    /\ queued' = TRUE
    /\ faults' = faults + 1
    /\ UNCHANGED <<spec, conditions, objectVars, policies, clientCA, slow, edits>>

SyncServer ==
    /\ "cache" \notin current
    /\ cachedServer' = [spec |-> spec, conditions |-> conditions]
    /\ current' = current \cup {"cache"}
    /\ queued' = TRUE
    /\ UNCHANGED <<spec, conditions, objectVars, cache, inputVars, sr, boundVars>>

\* The PolicyServer controller watches none of the objects it writes.
SyncObject(kind) ==
    /\ cache[kind] # api[kind]
    /\ cache' = [cache EXCEPT ![kind] = api[kind]]
    /\ UNCHANGED <<serverVars, cachedServer, objectVars, inputVars, sr, queued, boundVars>>

Resync ==
    /\ ~queued
    /\ queued' = TRUE
    /\ UNCHANGED <<serverVars, cachedServer, objectVars, cache, inputVars, sr, boundVars>>

\* The informers that are not slow have delivered what happened last.
Informed ==
    /\ "server" \in slow \/ "cache" \in current
    /\ \A k \in Kinds \ slow : cache[k] = api[k]

-----------------------------------------------------------------------------
(* Reconcile *)

BeginWithConfigMap ==
    /\ sr = Idle
    /\ queued
    /\ sr' = [pc |-> "configMap", spec |-> cachedServer.spec, policies |-> policies,
              conditions |-> cachedServer.conditions, fresh |-> cache = api]
    /\ current' = IF "cache" \in current THEN {"cache", "reconciler"} ELSE {}
    /\ queued' = FALSE
    /\ UNCHANGED <<spec, conditions, cachedServer, objectVars, cache, inputVars, boundVars>>

\* fresh is no state of the program: it records that all caches were up to date
\* when the reconciliation started.
Begin ==
    /\ sr = Idle
    /\ queued
    /\ sr' = [pc |-> "secret", spec |-> cachedServer.spec, policies |-> policies,
              conditions |-> cachedServer.conditions, fresh |-> cache = api]
    /\ current' = IF "cache" \in current THEN {"cache", "reconciler"} ELSE {}
    /\ queued' = FALSE
    /\ UNCHANGED <<spec, conditions, cachedServer, objectVars, cache, inputVars, boundVars>>

NoStatusUpdate == [secret |-> "configMap", configMap |-> "pdb", pdb |-> "deployment",
                   deployment |-> "service", service |-> "idle"]

After == [secret |-> "configMap", configMap |-> "pdb", pdb |-> "deployment",
          deployment |-> "service", service |-> "status"]

\* The Deployment needs the version of the ConfigMap, read past the cache, and
\* with mutual TLS the client CA ConfigMap.
DeploymentFails ==
    \/ ~api["configMap"].exists
    \/ options.clientCAConfigMapName # "" /\ ~clientCA

WriteFails(kind) ==
    \/ Refused(api[kind], cache[kind], Wanted(kind))
    \/ kind = "deployment" /\ DeploymentFails

\* A write that changes nothing makes no new version.
ReconcileObject(kind) ==
    LET stored == CreateOrPatch(api[kind], cache[kind], Wanted(kind))
    IN  /\ sr.pc = kind
        /\ ~WriteFails(kind)
        /\ api' = [api EXCEPT ![kind] = stored]
        /\ version' = IF kind = "configMap" /\ stored # api[kind] THEN version + 1 ELSE version
        /\ sr' = [sr EXCEPT !.pc = After[kind], !.conditions[kind] = "True"]
        /\ UNCHANGED <<serverVars, cachedServer, cache, inputVars, queued, boundVars>>

EndQuietly ==
    /\ sr' = Idle
    /\ queued' = queued
    /\ current' = current \ {"reconciler"}
    /\ UNCHANGED <<spec, cachedServer, objectVars, cache, inputVars, edits>>

\* The reconciliation ends and the key is retried.
Abandon ==
    /\ sr' = Idle
    /\ queued' = TRUE
    /\ current' = current \ {"reconciler"}
    /\ UNCHANGED <<spec, cachedServer, objectVars, cache, inputVars, edits>>

\* Reconcile sets the condition to False in its copy of the PolicyServer, and
\* returns without saving it.
ObjectFails(kind) ==
    /\ sr.pc = kind
    /\ \/ WriteFails(kind) /\ UNCHANGED faults
       \/ faults < MaxFaults /\ faults' = faults + 1
    /\ Abandon
    /\ UNCHANGED conditions

\* The update carries the resourceVersion of the copy; it makes a new one if it
\* changes anything.
UpdateAnyway ==
    /\ sr.pc = "status"
    /\ conditions' = sr.conditions
    /\ current' = IF conditions' = conditions THEN current \ {"reconciler"} ELSE {}
    /\ sr' = Idle
    /\ UNCHANGED <<spec, cachedServer, objectVars, cache, inputVars, queued, boundVars>>

UpdateStatus ==
    /\ sr.pc = "status"
    /\ "reconciler" \in current
    /\ conditions' = sr.conditions
    /\ current' = IF conditions' = conditions THEN current \ {"reconciler"} ELSE {}
    /\ sr' = Idle
    /\ UNCHANGED <<spec, cachedServer, objectVars, cache, inputVars, queued, boundVars>>

StatusFails ==
    /\ sr.pc = "status"
    /\ \/ "reconciler" \notin current /\ UNCHANGED faults
       \/ faults < MaxFaults /\ faults' = faults + 1
    /\ Abandon
    /\ UNCHANGED conditions

Reconcile ==
    \/ Begin
    \/ \E k \in Kinds : ReconcileObject(k) \/ ObjectFails(k)
    \/ UpdateStatus \/ StatusFails

Next ==
    \/ SyncServer
    \/ \E k \in Kinds : SyncObject(k)
    \/ /\ Informed
       /\ UpdateSpec \/ UpdatePolicies \/ CreateClientCA \/ Restart \/ Resync \/ Reconcile

Spec == Init /\ [][Next]_vars

-----------------------------------------------------------------------------
(* Safety *)

\* The Deployment is created after the Secret and the ConfigMap its pods mount,
\* so no roll-out waits for objects that a failed reconciliation left out.
MountedObjectsExist ==
    api["deployment"].exists =>
        \A v \in api["deployment"].pod.volumes :
            v.source = NameWithPrefix =>
                IF v.kind = "Secret" THEN api["secret"].exists ELSE api["configMap"].exists

\* The value a container sees for a variable: the last one given.
Effective(env, name) == env[name][Len(env[name])]

\* Mounts are added to the container before the volumes they name, by other
\* functions and under conditions of their own.  In every stored template each
\* mount has one volume, each volume is mounted, no two mounts share a path, and of
\* the two configuration files that are mounted on demand the policy server is told,
\* whatever variables the user gave.
PodTemplateIsValid ==
    api["deployment"].exists =>
        LET pod == api["deployment"].pod
            told(volume, name) ==
                \A m \in pod.mounts : m.name = volume =>
                    name \in DOMAIN pod.env /\ Dir(Effective(pod.env, name)) = m.path
        IN  /\ {m.name : m \in pod.mounts} = {v.name : v \in pod.volumes}
            /\ \A m, n \in pod.mounts : m.name = n.name \/ m.path = n.path => m = n
            /\ \A v, w \in pod.volumes : v.name = w.name => v = w
            /\ told("sources", "KUBEWARDEN_SOURCES_PATH")
            /\ told("verification", "KUBEWARDEN_VERIFICATION_CONFIG_PATH")

\* What the controller wants the container to see of telemetry.
TelemetryEnv(opts) ==
    LET sent == IF opts.otelSidecarEnabled THEN SidecarEnv ELSE OtelEnv(opts)
    IN  IF ~Telemetry(opts) THEN {}
        ELSE {<<n, EnabledEnv(opts)[n]>> : n \in DOMAIN EnabledEnv(opts)}
             \cup {<<n, sent[n]>> : n \in DOMAIN sent}

\* replicateOtelEnvVars and its callers edit a list that already holds the user's
\* variables.  In a Deployment just written the container sees the controller's
\* telemetry settings, and every variable of spec.env that the controller does not
\* set by itself as the user gave it.
TelemetryIsEffective ==
    sr.pc = "service" =>
        LET env == api["deployment"].pod.env
            telemetry == TelemetryEnv(options)
            users == {n \in DOMAIN sr.spec.env \ AddedEnv : \A t \in telemetry : t[1] # n}
        IN  /\ \A t \in telemetry : t[1] \in DOMAIN env /\ Effective(env, t[1]) = t[2]
            /\ \A n \in users : n \in DOMAIN env /\ Effective(env, n) = sr.spec.env[n]

\* A roll-out is complete: when the template of the Deployment is labelled with
\* the version of the stored ConfigMap, the pods mount sources.yml exactly if
\* the ConfigMap has sources, whatever edits, failures and restarts came between
\* the two writes.  It takes a ConfigMap informer that is not slow.
RolledOutTogether ==
    /\ "configMap" \notin slow
    /\ api["deployment"].exists
    /\ api["deployment"].version = version
    => LET sources == api["configMap"].sources
       IN  (\E v \in api["deployment"].pod.volumes : v.name = "sources")
               = (sources.insecure # {} \/ DOMAIN sources.authorities # {})

\* A reconciliation that starts with caches that are up to date repairs whatever
\* earlier ones left behind: patches computed from stale copies, half of the
\* writes of a crashed one, other flags.  When its status update is accepted all
\* objects are as the spec of that moment wants them, since an edit after the
\* read makes the update conflict.
StatusMeansApplied ==
    [][UpdateStatus /\ sr.fresh =>
           \A k \in Kinds : api[k] = Desired(k, spec, sr.policies, options, version)]_vars

\* The key of the PolicyServer is neither queued nor being reconciled, and no
\* object informer is slow.
AtRest == ~queued /\ sr = Idle /\ "cache" \in current /\ slow \subseteq {"server"}

\* No change is lost: a PolicyServer at rest has all objects as its spec, its policies
\* and the controller's flags want them, and its conditions say so.
AtRestApplied ==
    AtRest =>
        /\ \A k \in Kinds : api[k] = Desired(k, spec, policies, options, version)
        /\ \A k \in Kinds : conditions[k] = "True"

\* The policies have names of their own.  GetUniqueName joins its parts with dashes, so
\* that two policies may get the same name; an empty module, which makes the whole map
\* unreadable, is not refused either.
Distinguished(list) ==
    /\ \A i, j \in DOMAIN list : GetUniqueName(list[i]) = GetUniqueName(list[j]) => i = j
    /\ \A i \in DOMAIN list : IsGroup(list[i]) \/ list[i].module # ""

\* updateConfigMapData and getPolicyMapFromConfigMap agree: what the reconcilers of
\* the policies read back from the ConfigMap of a PolicyServer at rest is the entry
\* of every policy of the four kinds with all that was written, the mode shown in the
\* status is the one of the spec and said to be up to date, and an event of a pod
\* reaches every policy.
EntriesAreUnderstood ==
    AtRest /\ Distinguished(policies) =>
        LET configMap == api["configMap"]
            listed == Range(policies)
            named(kinds) == {NamespacedName(p) : p \in {q \in listed : q.kind \in kinds}}
        IN  /\ \A p \in listed :
                   /\ IsPolicyInConfigMap(configMap, GetUniqueName(p))
                   /\ GetPolicyMapFromConfigMap(configMap).entries[GetUniqueName(p)]
                          = PolicyServerConfigEntry(p)
                   /\ SetPolicyModeStatus(configMap, p) = p.mode
            /\ SetPolicyConfigurationCondition(api["deployment"], version)
            /\ ToAdmissionPolicyReconcileRequests(configMap)
                   = named({"AdmissionPolicy", "AdmissionPolicyGroup"})
            /\ ToClusterAdmissionPolicyReconcileRequests(configMap)
                   = named({"ClusterAdmissionPolicy", "ClusterAdmissionPolicyGroup"})

\* The policy reconciler and the PolicyServer reconciler name the same things: at rest
\* the webhook configuration of a policy sends requests to a port of the Service and
\* to the path of an entry that is this policy's own, a mutating webhook only for an
\* entry that may mutate, and an event of the configuration leads back to the policy.
WebhooksAreAnswered ==
    AtRest /\ Distinguished(policies) =>
        \A p \in Range(policies) :
            LET webhook == WebhookConfiguration(p, options)
                entries == GetPolicyMapFromConfigMap(api["configMap"]).entries
                key == webhook.path[2]
            IN  /\ webhook.port \in api["service"].ports
                /\ key \in DOMAIN entries
                /\ entries[key].namespacedName = NamespacedName(p)
                /\ entries[key].allowedToMutate = webhook.mutating
                /\ NamespacedName(p) \in
                       IF IsNamespaced(p) THEN FindPolicyForWebhookConfiguration(webhook)
                       ELSE FindClusterPolicyForWebhookConfiguration(webhook)

\* The namespaces whose requests a policy is meant for: the policy's own, or those
\* that its namespaceSelector matches, without that of the policy servers.
MeantFor(p, ns) ==
    IF IsNamespaced(p) THEN ns.name = p.namespace
    ELSE ns.name # DeploymentsNamespace /\ Matches(p.namespaceSelector, ns.labels)

\* "NamespaceSelector decides whether to run the webhook on an object based on whether
\* the namespace for that object matches the selector": at rest, the webhook of a
\* policy runs in the namespaces the policy is meant for and in no others.
SelectorIsHonoured ==
    AtRest =>
        \A p \in Range(policies), ns \in Namespaces :
            Matches(WebhookConfiguration(p, options).namespaceSelector, ns.labels)
                = MeantFor(p, ns)
=============================================================================
