---------------------- MODULE PolicyServerObjectsProofs ----------------------
(***************************************************************************)
(* What the reconciliations of a PolicyServer keep, for any specs,         *)
(* policies, flags, slow informers and number of edits and faults.         *)
(***************************************************************************)
EXTENDS PolicyServerContentProofs

USE DEF serverVars, objectVars, inputVars, boundVars

\* The kinds a reconciliation has written when it is about to do pc.
Written == [secret |-> {}, configMap |-> {"secret"}, pdb |-> {"secret", "configMap"},
            deployment |-> {"secret", "configMap", "pdb"},
            service |-> Kinds \ {"service"}, status |-> Kinds]

\* There is an object, or none, of each kind.
Shape ==
    /\ api = [k \in Kinds |-> api[k]]
    /\ cache = [k \in Kinds |-> cache[k]]

\* What a copy of the PolicyServer with the latest resourceVersion holds, and how
\* far a reconciliation that started with up-to-date caches has come.
Applied ==
    /\ "cache" \in current => cachedServer.spec = spec
    /\ sr # Idle /\ "reconciler" \in current => sr.spec = spec
    /\ sr # Idle /\ sr.fresh =>
           \A k \in Kinds :
               IF k \in Written[sr.pc]
               THEN api[k] = Desired(k, sr.spec, sr.policies, options, version)
               ELSE cache[k] = api[k]

\* Nothing but a PodDisruptionBudget is ever deleted, and the Deployment is written
\* after the Secret and the ConfigMap.
Created ==
    /\ \A k \in Kinds \ {"pdb"} : cache[k].exists => api[k].exists
    /\ sr # Idle /\ sr.pc # "secret" => api["secret"].exists
    /\ api["deployment"].exists => api["secret"].exists /\ api["configMap"].exists

ObjectsInv == ObjectsTypeOK /\ Shape /\ Applied /\ Created

\* The stored template is one that some spec and some flags ask for, and the one of
\* the reconciliation under way once this has written it.
Templated ==
    /\ api["deployment"].exists =>
           \E sp \in Specs, opts \in Options : api["deployment"].pod = PodTemplate(sp, opts)
    /\ sr # Idle /\ sr.pc \in {"service", "status"} =>
           api["deployment"].pod = PodTemplate(sr.spec, options)

\* The label of a template is never ahead of the ConfigMap, and the ConfigMap that a
\* reconciliation has written is still there when it writes the template.
RolledOut ==
    /\ api["deployment"].exists =>
           api["deployment"].version \in Nat /\ api["deployment"].version <= version
    /\ "configMap" \notin slow /\ sr # Idle /\ "configMap" \in Written[sr.pc] =>
           api["configMap"] = UpdateConfigMapData(sr.spec, sr.policies)
    /\ RolledOutTogether

\* Every reconciliation is fresh when no object informer is slow, and knows the latest
\* policies unless the key is queued again.
Kept ==
    slow \subseteq {"server"} =>
        /\ sr # Idle =>
               /\ sr.fresh
               /\ \A k \in Written[sr.pc] : sr.conditions[k] = "True"
               /\ ~queued => sr.policies = policies
        /\ AtRestApplied

-----------------------------------------------------------------------------
(* Objects and patches *)

\* An object, or none.
IsObject(d) ==
    /\ d = [f \in DOMAIN d |-> d[f]]
    /\ "exists" \in DOMAIN d
    /\ d.exists = TRUE \/ d = Absent

\* Only the budget may be unwanted.
LEMMA DesiredObject ==
    ASSUME NEW k \in Kinds, NEW sp, NEW list, NEW opts, NEW ver
    PROVE  /\ IsObject(Desired(k, sp, list, opts, ver))
           /\ k # "pdb" => Desired(k, sp, list, opts, ver).exists = TRUE
<1> DEFINE d == Desired(k, sp, list, opts, ver)
<1>1. CASE k = "secret"
  <2>1. d = ServerSecret
    BY <1>1 DEF Desired
  <2> QED
    BY <2>1 DEF ServerSecret, IsObject
<1>2. CASE k = "configMap"
  <2>1. d = UpdateConfigMapData(sp, list)
    BY <1>2 DEF Desired
  <2> QED
    BY <2>1 DEF UpdateConfigMapData, IsObject
<1>3. CASE k = "pdb"
  <2>1. d = ReconcilePodDisruptionBudget(sp) \/ d = Absent
    BY <1>3 DEF Desired
  <2> QED
    BY <1>3, <2>1 DEF ReconcilePodDisruptionBudget, Absent, IsObject
<1>4. CASE k = "deployment"
  <2>1. d = UpdatePolicyServerDeployment(sp, opts, ver)
    BY <1>4 DEF Desired
  <2> QED
    BY <2>1 DEF UpdatePolicyServerDeployment, IsObject
<1>5. CASE k = "service"
  <2>1. d = UpdateService(opts)
    BY <1>5 DEF Desired
  <2> DEFINE ports == {8443} \cup IF opts.metricsEnabled THEN {GetMetricsPort(opts)} ELSE {}
  <2>2. UpdateService(opts) = [exists |-> TRUE, ports |-> ports]
    BY DEF UpdateService
  <2> HIDE DEF ports
  <2> QED
    BY <2>1, <2>2 DEF IsObject
<1> QED
  BY <1>1, <1>2, <1>3, <1>4, <1>5 DEF Kinds

\* The version of the ConfigMap shows in the Deployment alone.
LEMMA VersionShowsInDeployment ==
    ASSUME NEW k \in Kinds \ {"deployment"}, NEW sp, NEW list, NEW opts, NEW v, NEW w
    PROVE  Desired(k, sp, list, opts, v) = Desired(k, sp, list, opts, w)
  BY DEF Desired, Kinds

\* A patch computed from an up-to-date copy yields what was wanted.
LEMMA FreshPatch ==
    ASSUME NEW stored, NEW wanted, IsObject(wanted)
    PROVE  CreateOrPatch(stored, stored, wanted) = wanted
<1>1. CASE ~wanted.exists
  BY <1>1 DEF CreateOrPatch, Absent, IsObject
<1>2. CASE wanted.exists /\ (~stored.exists \/ NothingToPatch(stored, wanted))
  BY <1>2 DEF CreateOrPatch, NothingToPatch
<1>3. CASE wanted.exists /\ stored.exists /\ ~NothingToPatch(stored, wanted)
  <2>1. \A f \in DOMAIN wanted : PatchedKeys(stored[f], stored[f], wanted[f]) = wanted[f]
    BY DEF PatchedKeys
  <2>2. Patched(stored, stored, wanted) = [f \in DOMAIN wanted |-> wanted[f]]
    BY <2>1 DEF Patched
  <2> QED
    BY <1>3, <2>2 DEF CreateOrPatch, IsObject
<1> QED
  BY <1>1, <1>2, <1>3

\* A write that is not refused leaves an object if one is wanted.
LEMMA PatchedObject ==
    ASSUME NEW stored, NEW cached, NEW wanted, ~Refused(stored, cached, wanted),
           IsObject(wanted), stored.exists \in BOOLEAN, cached.exists \in BOOLEAN
    PROVE  /\ CreateOrPatch(stored, cached, wanted).exists \in BOOLEAN
           /\ wanted.exists /\ (cached.exists => stored.exists) =>
                  CreateOrPatch(stored, cached, wanted).exists
<1>1. CASE ~wanted.exists
  BY <1>1 DEF CreateOrPatch, Absent, IsObject
<1>2. CASE wanted.exists /\ ~cached.exists
  BY <1>2 DEF CreateOrPatch, Absent, IsObject
<1>3. CASE wanted.exists /\ cached.exists /\ NothingToPatch(cached, wanted)
  BY <1>3 DEF CreateOrPatch
<1>4. CASE wanted.exists /\ cached.exists /\ ~NothingToPatch(cached, wanted)
  <2>1. CreateOrPatch(stored, cached, wanted) = Patched(stored, cached, wanted)
    BY <1>4 DEF CreateOrPatch
  <2>2. stored.exists
    BY <1>4 DEF Refused
  <2>3. wanted.exists = TRUE
    BY <1>4 DEF Absent, IsObject
  <2>4. Patched(stored, cached, wanted).exists = TRUE
    BY <2>2, <2>3 DEF Patched, IsObject
  <2> QED
    BY <2>1, <2>4
<1> QED
  BY <1>1, <1>2, <1>3, <1>4

-----------------------------------------------------------------------------
(* Types *)

\* A write of one kind, whatever is stored.
LEMMA ReconcileObjectShape ==
    ASSUME ObjectsTypeOK, Shape, NEW kind \in Kinds, ReconcileObject(kind)
    PROVE  /\ sr \in Reconciliation /\ sr # Idle /\ sr.pc = kind
           /\ api' = [k \in Kinds |-> api'[k]]
           /\ api'[kind] = CreateOrPatch(api[kind], cache[kind], Wanted(kind))
           /\ \A k \in Kinds : k # kind => api'[k] = api[k]
           /\ ~Refused(api[kind], cache[kind], Wanted(kind))
           /\ sr' \in Reconciliation /\ sr' # Idle
           /\ sr'.pc = After[kind] /\ sr'.spec = sr.spec /\ sr'.policies = sr.policies
           /\ sr'.fresh = sr.fresh
           /\ version' \in Nat /\ (kind # "configMap" => version' = version)
           /\ UNCHANGED <<serverVars, cachedServer, cache, inputVars, queued, boundVars>>
<1>1. sr.pc = kind /\ kind # "idle"
  BY DEF ReconcileObject, Kinds
<1>2. sr \in Reconciliation /\ sr # Idle
  BY <1>1 DEF ObjectsTypeOK, Idle
<1>3. /\ api' = [api EXCEPT ![kind] = CreateOrPatch(api[kind], cache[kind], Wanted(kind))]
      /\ ~Refused(api[kind], cache[kind], Wanted(kind))
      /\ UNCHANGED <<serverVars, cachedServer, cache, inputVars, queued, boundVars>>
  BY DEF ReconcileObject, WriteFails
<1>4. /\ api' = [k \in Kinds |-> api'[k]]
      /\ api'[kind] = CreateOrPatch(api[kind], cache[kind], Wanted(kind))
      /\ \A k \in Kinds : k # kind => api'[k] = api[k]
  BY <1>3 DEF Shape
<1>5. version' \in Nat /\ (kind # "configMap" => version' = version)
  <2>1. version' \in {version, version + 1} /\ (kind # "configMap" => version' = version)
    BY DEF ReconcileObject
  <2> QED
    BY <2>1 DEF ObjectsTypeOK
<1>6. sr' = [sr EXCEPT !.pc = After[kind], !.conditions[kind] = "True"]
  BY DEF ReconcileObject
<1>7. After[kind] \in Kinds \cup {"status"} /\ After[kind] # "idle"
  BY DEF After, Kinds
<1>8. /\ sr' \in Reconciliation
      /\ sr'.pc = After[kind] /\ sr'.spec = sr.spec /\ sr'.policies = sr.policies
      /\ sr'.fresh = sr.fresh
  BY <1>2, <1>6, <1>7 DEF Reconciliation, ConditionValues
<1>9. sr' # Idle
  BY <1>7, <1>8 DEF Idle
<1> QED
  BY <1>1, <1>2, <1>3, <1>4, <1>5, <1>8, <1>9

\* The object a reconciliation wants.
LEMMA WantedObject ==
    ASSUME NEW k \in Kinds
    PROVE  IsObject(Wanted(k)) /\ (k # "pdb" => Wanted(k).exists = TRUE)
  BY DesiredObject DEF Wanted

\* A PolicyServer that was just created.
LEMMA InitObjectsInv == Init => ObjectsInv
<1> SUFFICES ASSUME Init PROVE ObjectsInv
  OBVIOUS
<1>1. ObjectsTypeOK
  <2>1. conditions \in [Kinds -> ConditionValues]
    BY DEF Init, NoConditions, ConditionValues
  <2>2. cachedServer \in Server
    BY <2>1 DEF Init, Server
  <2>3. \A k \in Kinds : api[k].exists \in BOOLEAN /\ cache[k].exists \in BOOLEAN
    BY DEF Init, Absent
  <2>4. edits \in 0..MaxEdits /\ faults \in 0..MaxFaults /\ version \in Nat
    BY ObjectsAssumption DEF Init
  <2> QED
    BY <2>1, <2>2, <2>3, <2>4 DEF Init, ObjectsTypeOK
<1>2. Shape /\ Applied /\ Created
  BY DEF Init, Shape, Applied, Created, Absent, Kinds
<1> QED
  BY <1>1, <1>2 DEF ObjectsInv

\* A write keeps the types.
LEMMA ReconcileObjectTypeOK ==
    ASSUME ObjectsInv, NEW kind \in Kinds, ReconcileObject(kind)
    PROVE  ObjectsTypeOK' /\ Shape'
<1> USE DEF ObjectsInv
<1>1. CreateOrPatch(api[kind], cache[kind], Wanted(kind)).exists \in BOOLEAN
  BY ReconcileObjectShape, WantedObject, PatchedObject DEF ObjectsTypeOK
<1>2. \A k \in Kinds : api'[k].exists \in BOOLEAN /\ cache'[k].exists \in BOOLEAN
  BY <1>1, ReconcileObjectShape DEF ObjectsTypeOK
<1>3. ObjectsTypeOK'
  BY <1>2, ReconcileObjectShape DEF ObjectsTypeOK
<1>4. Shape'
  BY ReconcileObjectShape DEF Shape
<1> QED
  BY <1>3, <1>4

\* The write of a kind with an up-to-date copy makes it as wanted, and changes none
\* of what was written before.
LEMMA ReconcileObjectApplied ==
    ASSUME ObjectsInv, NEW kind \in Kinds, ReconcileObject(kind)
    PROVE  Applied'
<1> USE DEF ObjectsInv
<1> DEFINE want(k) == Desired(k, sr.spec, sr.policies, options, version)
<1>1. ASSUME sr.fresh PROVE api'[kind] = want(kind)
  <2>1. kind \notin Written[kind]
    BY DEF Written, Kinds
  <2>2. cache[kind] = api[kind]
    BY <1>1, <2>1, ReconcileObjectShape DEF Applied
  <2>3. CreateOrPatch(api[kind], api[kind], Wanted(kind)) = Wanted(kind)
    BY WantedObject, FreshPatch
  <2> QED
    BY <2>2, <2>3, ReconcileObjectShape DEF Wanted
<1>2. ASSUME sr.fresh, NEW k \in Kinds, k \in Written[After[kind]]
      PROVE  api'[k] = want(k)
  <2>1. CASE k = kind
    BY <1>1, <1>2, <2>1
  <2>2. CASE k # kind
    <3>1. k \in Written[kind]
      BY <1>2, <2>2 DEF Written, After, Kinds
    <3> QED
      BY <1>2, <2>2, <3>1, ReconcileObjectShape DEF Applied
  <2> QED
    BY <2>1, <2>2
<1>3. ASSUME NEW k \in Kinds, k \in Written[After[kind]]
      PROVE  want(k) = Desired(k, sr.spec, sr.policies, options, version')
  <2>1. CASE kind = "configMap"
    <3>1. k \in Kinds \ {"deployment"}
      BY <1>3, <2>1 DEF Written, After, Kinds
    <3> QED
      BY <3>1, VersionShowsInDeployment
  <2>2. CASE kind # "configMap"
    BY <2>2, ReconcileObjectShape
  <2> QED
    BY <2>1, <2>2
<1>4. ASSUME sr.fresh, NEW k \in Kinds, k \notin Written[After[kind]]
      PROVE  cache'[k] = api'[k]
  <2>1. k # kind /\ k \notin Written[kind]
    BY <1>4 DEF Written, After, Kinds
  <2> QED
    BY <1>4, <2>1, ReconcileObjectShape DEF Applied
<1> HIDE DEF want
<1>5. sr'.fresh =>
          \A k \in Kinds :
              IF k \in Written[sr'.pc]
              THEN api'[k] = Desired(k, sr'.spec, sr'.policies, options', version')
              ELSE cache'[k] = api'[k]
  BY <1>2, <1>3, <1>4, ReconcileObjectShape
<1>6. ("cache" \in current' => cachedServer'.spec = spec')
      /\ ("reconciler" \in current' => sr'.spec = spec')
  BY ReconcileObjectShape DEF Applied
<1> QED
  BY <1>5, <1>6 DEF Applied

\* The Deployment is written when the Secret was, and with a ConfigMap.
LEMMA ReconcileObjectCreated ==
    ASSUME ObjectsInv, NEW kind \in Kinds, ReconcileObject(kind)
    PROVE  Created'
<1> USE DEF ObjectsInv
<1>1. ASSUME kind # "pdb" PROVE api'[kind].exists
  <2>1. ~Refused(api[kind], cache[kind], Wanted(kind))
    BY ReconcileObjectShape
  <2>2. /\ api[kind].exists \in BOOLEAN /\ cache[kind].exists \in BOOLEAN
        /\ cache[kind].exists => api[kind].exists
    BY <1>1 DEF ObjectsTypeOK, Created
  <2>3. IsObject(Wanted(kind)) /\ Wanted(kind).exists
    BY <1>1, WantedObject
  <2>4. CreateOrPatch(api[kind], cache[kind], Wanted(kind)).exists
    BY <2>1, <2>2, <2>3, PatchedObject
  <2> QED
    BY <2>4, ReconcileObjectShape
<1>2. \A k \in Kinds \ {"pdb"} : api[k].exists => api'[k].exists
  BY <1>1, ReconcileObjectShape
<1>3. \A k \in Kinds \ {"pdb"} : cache'[k].exists => api'[k].exists
  BY <1>2, ReconcileObjectShape DEF Created
<1>4. api'["secret"].exists
  BY <1>1, <1>2, ReconcileObjectShape DEF Created, Kinds
<1>5. kind = "deployment" => api["configMap"].exists
  BY DEF ReconcileObject, WriteFails, DeploymentFails
<1>6. api'["deployment"].exists => api'["configMap"].exists
  <2>1. CASE kind = "deployment"
    BY <1>2, <1>5, <2>1 DEF Kinds
  <2>2. CASE kind # "deployment"
    BY <1>2, <2>2, ReconcileObjectShape DEF Created, Kinds
  <2> QED
    BY <2>1, <2>2
<1> QED
  BY <1>3, <1>4, <1>6 DEF Created

\* A reconciliation starts from the cached PolicyServer.
LEMMA BeginObjectsInv == ASSUME ObjectsInv, Begin PROVE ObjectsInv'
<1> USE DEF ObjectsInv
<1>1. /\ sr' = [pc |-> "secret", spec |-> cachedServer.spec, policies |-> policies,
                conditions |-> cachedServer.conditions, fresh |-> cache = api]
      /\ UNCHANGED <<spec, conditions, cachedServer, objectVars, cache, inputVars, boundVars>>
      /\ queued' = FALSE
      /\ current' = IF "cache" \in current THEN {"cache", "reconciler"} ELSE {}
  BY DEF Begin
<1>2. sr' \in Reconciliation /\ sr' # Idle
  BY <1>1 DEF ObjectsTypeOK, Server, Reconciliation, Idle, Kinds
<1>3. /\ sr'.pc = "secret" /\ sr'.spec = cachedServer.spec
      /\ sr'.fresh => cache = api
  BY <1>1
<1>4. ObjectsTypeOK'
  BY <1>1, <1>2 DEF ObjectsTypeOK
<1>5. Shape' /\ Created'
  BY <1>1, <1>3 DEF Shape, Created
<1>6. Applied'
  <2>1. Written["secret"] = {}
    BY DEF Written
  <2>2. sr'.fresh => \A k \in Kinds : cache'[k] = api'[k]
    BY <1>1, <1>3
  <2>3. /\ "cache" \in current' => cachedServer'.spec = spec'
        /\ "reconciler" \in current' => sr'.spec = spec'
    BY <1>1, <1>3 DEF Applied
  <2> QED
    BY <1>3, <2>1, <2>2, <2>3 DEF Applied
<1> QED
  BY <1>4, <1>5, <1>6

\* A reconciliation ends, or is given up.
LEMMA EndObjectsInv ==
    ASSUME ObjectsInv, UpdateStatus \/ StatusFails \/ \E k \in Kinds : ObjectFails(k)
    PROVE  ObjectsInv'
<1> USE DEF ObjectsInv
<1>1. /\ sr' = Idle
      /\ UNCHANGED <<spec, cachedServer, objectVars, cache, inputVars, edits>>
      /\ current' \subseteq current
      /\ queued' \in BOOLEAN
      /\ faults' \in 0..MaxFaults
  <2>1. faults' = faults \/ (faults < MaxFaults /\ faults' = faults + 1)
    BY DEF UpdateStatus, StatusFails, ObjectFails
  <2>2. faults' \in 0..MaxFaults
    BY <2>1, ObjectsAssumption DEF ObjectsTypeOK
  <2>3. CASE UpdateStatus
    BY <2>2, <2>3 DEF UpdateStatus, ObjectsTypeOK
  <2>4. CASE Abandon
    BY <2>2, <2>4 DEF Abandon
  <2> QED
    BY <2>3, <2>4 DEF StatusFails, ObjectFails
<1>2. conditions' \in [Kinds -> ConditionValues]
  <2>1. CASE UpdateStatus
    <3>1. sr \in Reconciliation
      BY <2>1 DEF UpdateStatus, ObjectsTypeOK, Idle
    <3> QED
      BY <2>1, <3>1 DEF UpdateStatus, Reconciliation
  <2>2. CASE StatusFails \/ \E k \in Kinds : ObjectFails(k)
    BY <2>2 DEF StatusFails, ObjectFails, ObjectsTypeOK
  <2> QED
    BY <2>1, <2>2
<1>3. ObjectsTypeOK'
  BY <1>1, <1>2 DEF ObjectsTypeOK
<1>4. Shape' /\ Applied' /\ Created'
  BY <1>1 DEF Shape, Applied, Created
<1> QED
  BY <1>3, <1>4

\* Informers and the controller's restart.
LEMMA InformObjectsInv ==
    ASSUME ObjectsInv, SyncServer \/ Restart \/ \E k \in Kinds : SyncObject(k)
    PROVE  ObjectsInv'
<1> USE DEF ObjectsInv
<1>1. CASE SyncServer
  <2>1. cachedServer' \in Server /\ cachedServer'.spec = spec
    BY <1>1 DEF SyncServer, Server, ObjectsTypeOK
  <2>2. ObjectsTypeOK'
    BY <1>1, <2>1 DEF SyncServer, ObjectsTypeOK
  <2> QED
    BY <1>1, <2>1, <2>2 DEF SyncServer, Shape, Applied, Created
<1>2. CASE Restart
  <2>1. cachedServer' \in Server /\ cachedServer'.spec = spec
    BY <1>2 DEF Restart, Server, ObjectsTypeOK
  <2>2. faults' \in 0..MaxFaults
    BY <1>2, ObjectsAssumption DEF Restart, ObjectsTypeOK
  <2>3. ObjectsTypeOK'
    BY <1>2, <2>1, <2>2 DEF Restart, ObjectsTypeOK
  <2> QED
    BY <1>2, <2>1, <2>3 DEF Restart, Shape, Applied, Created
<1>3. ASSUME NEW kind \in Kinds, SyncObject(kind) PROVE ObjectsInv'
  <2>1. /\ cache' = [k \in Kinds |-> cache'[k]]
        /\ cache'[kind] = api[kind] /\ \A k \in Kinds : k # kind => cache'[k] = cache[k]
    BY <1>3 DEF SyncObject, Shape
  <2>2. UNCHANGED <<serverVars, cachedServer, objectVars, inputVars, sr, queued, boundVars>>
    BY <1>3 DEF SyncObject
  <2>3. ObjectsTypeOK'
    BY <2>1, <2>2 DEF ObjectsTypeOK
  <2>4. Applied'
    BY <2>1, <2>2 DEF Applied
  <2> QED
    BY <2>1, <2>2, <2>3, <2>4 DEF Shape, Created
<1> QED
  BY <1>1, <1>2, <1>3

\* Users and administrators.
LEMMA UserObjectsInv ==
    ASSUME ObjectsInv, UpdateSpec \/ UpdatePolicies \/ CreateClientCA \/ Resync
    PROVE  ObjectsInv'
<1> USE DEF ObjectsInv
<1>1. edits' \in 0..MaxEdits
  BY ObjectsAssumption DEF UpdateSpec, UpdatePolicies, CreateClientCA, Resync, ObjectsTypeOK
<1>2. ObjectsTypeOK'
  BY <1>1 DEF UpdateSpec, UpdatePolicies, CreateClientCA, Resync, ObjectsTypeOK
<1>3. /\ current' = {} \/ UNCHANGED <<current, spec>>
      /\ UNCHANGED <<cachedServer, objectVars, cache, options, sr>>
  BY DEF UpdateSpec, UpdatePolicies, CreateClientCA, Resync
<1> QED
  BY <1>2, <1>3 DEF Shape, Applied, Created

-----------------------------------------------------------------------------
(* Templates and roll-outs *)

\* The template is sent with every write of the Deployment; its label is the version
\* of the ConfigMap or stays.
LEMMA DeploymentWrite ==
    ASSUME ObjectsInv, ReconcileObject("deployment")
    PROVE  /\ api'["deployment"].pod = PodTemplate(sr.spec, options)
           /\ \/ api'["deployment"].version = version
              \/ api["deployment"].exists
                 /\ api'["deployment"].version = api["deployment"].version
<1> DEFINE stored == api["deployment"]
           cached == cache["deployment"]
           wanted == UpdatePolicyServerDeployment(sr.spec, options, version)
<1>1. Wanted("deployment") = wanted
  BY DEF Wanted, Desired
<1>2. /\ "deployment" \in Kinds
      /\ api'["deployment"] = CreateOrPatch(stored, cached, wanted)
      /\ ~Refused(stored, cached, wanted)
  BY <1>1, ReconcileObjectShape DEF ObjectsInv, Kinds
<1>3. /\ DOMAIN wanted = {"exists", "replicas", "version", "annotations", "pod"}
      /\ wanted.exists = TRUE /\ wanted.version = version
      /\ wanted.pod = PodTemplate(sr.spec, options)
  BY DEF UpdatePolicyServerDeployment
<1> HIDE DEF stored, cached, wanted
<1>4. ~NothingToPatch(cached, wanted)
  BY <1>3 DEF NothingToPatch, AlwaysSent
<1>5. CASE ~cached.exists
  <2>1. CreateOrPatch(stored, cached, wanted) = wanted
    BY <1>3, <1>5 DEF CreateOrPatch
  <2> QED
    BY <1>2, <1>3, <2>1
<1>6. CASE cached.exists
  <2>1. CreateOrPatch(stored, cached, wanted) = Patched(stored, cached, wanted)
    BY <1>3, <1>4, <1>6 DEF CreateOrPatch
  <2>2. stored.exists
    BY <1>2, <1>3, <1>4, <1>6 DEF Refused
  <2>3. /\ Patched(stored, cached, wanted).pod = wanted.pod
        /\ Patched(stored, cached, wanted).version \in {wanted.version, stored.version}
    BY <1>3 DEF Patched, AlwaysSent
  <2> QED
    BY <1>2, <1>3, <2>1, <2>2, <2>3 DEF stored
<1> QED
  BY <1>5, <1>6

\* With an up-to-date copy the ConfigMap becomes what is wanted, and a change of it
\* makes a new version.
LEMMA ConfigMapWrite ==
    ASSUME ObjectsInv, ReconcileObject("configMap")
    PROVE  /\ Informed /\ "configMap" \notin slow =>
                  api'["configMap"] = UpdateConfigMapData(sr.spec, sr.policies)
           /\ \/ version' = version + 1
              \/ version' = version /\ api'["configMap"] = api["configMap"]
<1>1. Wanted("configMap") = UpdateConfigMapData(sr.spec, sr.policies)
  BY DEF Wanted, Desired
<1>2. api'["configMap"] = CreateOrPatch(api["configMap"], cache["configMap"], Wanted("configMap"))
  BY ReconcileObjectShape DEF ObjectsInv, Kinds
<1>3. IsObject(Wanted("configMap"))
  BY WantedObject DEF Kinds
<1>4. ASSUME Informed, "configMap" \notin slow
      PROVE  api'["configMap"] = UpdateConfigMapData(sr.spec, sr.policies)
  <2>1. cache["configMap"] = api["configMap"]
    BY <1>4 DEF Informed, Kinds
  <2> QED
    BY <1>1, <1>2, <1>3, <2>1, FreshPatch
<1>5. \/ version' = version + 1
      \/ version' = version /\ api'["configMap"] = api["configMap"]
  BY <1>2 DEF ReconcileObject
<1> QED
  BY <1>4, <1>5

\* Steps that write no object and are not the controller's restart keep the template
\* of the reconciliation under way.
LEMMA TemplatedKept ==
    ASSUME Templated, UNCHANGED api,
           sr' = Idle \/ sr'.pc = "secret" \/ UNCHANGED <<sr, options>>
    PROVE  Templated'
<1>1. CASE sr' = Idle
  BY <1>1 DEF Templated
<1>2. CASE sr'.pc = "secret"
  BY <1>2 DEF Templated
<1>3. CASE UNCHANGED <<sr, options>>
  BY <1>3 DEF Templated
<1> QED
  BY <1>1, <1>2, <1>3

\* A write keeps what is known of the template.
LEMMA ReconcileObjectTemplated ==
    ASSUME ObjectsInv, Templated, NEW kind \in Kinds, ReconcileObject(kind)
    PROVE  Templated'
<1>1. /\ sr \in Reconciliation /\ sr # Idle /\ sr.pc = kind
      /\ \A k \in Kinds : k # kind => api'[k] = api[k]
      /\ sr'.pc = After[kind] /\ sr'.spec = sr.spec /\ UNCHANGED options
  BY ReconcileObjectShape DEF ObjectsInv
<1>2. sr.spec \in Specs /\ options \in Options
  BY <1>1 DEF ObjectsInv, ObjectsTypeOK, Reconciliation
<1>3. CASE kind = "deployment"
  <2>1. api'["deployment"].pod = PodTemplate(sr.spec, options)
    BY <1>3, DeploymentWrite
  <2> QED
    BY <1>1, <1>2, <2>1 DEF Templated
<1>4. CASE kind # "deployment"
  <2>1. api'["deployment"] = api["deployment"]
    BY <1>1, <1>4 DEF Kinds
  <2>2. sr'.pc \in {"service", "status"} => sr.pc \in {"service", "status"}
    BY <1>1, <1>4 DEF After, Kinds
  <2> QED
    BY <1>1, <2>1, <2>2 DEF Templated
<1> QED
  BY <1>3, <1>4

\* A write keeps the label of the template behind the ConfigMap, and the two together.
LEMMA ReconcileObjectRolledOut ==
    ASSUME ObjectsInv, RolledOut, Informed, NEW kind \in Kinds, ReconcileObject(kind)
    PROVE  RolledOut'
<1> DEFINE deployment == api["deployment"]
           configMap == api["configMap"]
           together(d, c) ==
               (\E v \in d.pod.volumes : v.name = "sources")
                   = (c.sources.insecure # {} \/ DOMAIN c.sources.authorities # {})
<1>1. /\ sr \in Reconciliation /\ sr # Idle /\ sr.pc = kind
      /\ \A k \in Kinds : k # kind => api'[k] = api[k]
      /\ sr' # Idle /\ sr'.pc = After[kind] /\ sr'.spec = sr.spec /\ sr'.policies = sr.policies
      /\ kind # "configMap" => version' = version
      /\ UNCHANGED slow
  BY ReconcileObjectShape DEF ObjectsInv
<1>2. /\ deployment.exists => deployment.version \in Nat /\ deployment.version <= version
      /\ "configMap" \notin slow /\ "configMap" \in Written[kind] =>
             configMap = UpdateConfigMapData(sr.spec, sr.policies)
      /\ "configMap" \notin slow /\ deployment.exists /\ deployment.version = version =>
             together(deployment, configMap)
  BY <1>1 DEF RolledOut, RolledOutTogether
<1>3. version \in Nat
  BY DEF ObjectsInv, ObjectsTypeOK
<1>4. SUFFICES
          /\ api'["deployment"].exists =>
                 api'["deployment"].version \in Nat /\ api'["deployment"].version <= version'
          /\ "configMap" \notin slow /\ "configMap" \in Written[After[kind]] =>
                 api'["configMap"] = UpdateConfigMapData(sr.spec, sr.policies)
          /\ "configMap" \notin slow /\ api'["deployment"].exists
             /\ api'["deployment"].version = version' =>
                 together(api'["deployment"], api'["configMap"])
  BY <1>1 DEF RolledOut, RolledOutTogether
<1>5. CASE kind = "configMap"
  <2>1. api'["deployment"] = deployment
    BY <1>1, <1>5 DEF Kinds
  <2>2. /\ "configMap" \notin slow =>
               api'["configMap"] = UpdateConfigMapData(sr.spec, sr.policies)
        /\ \/ version' = version + 1
           \/ version' = version /\ api'["configMap"] = configMap
    BY <1>5, ConfigMapWrite
  <2> HIDE DEF deployment, configMap, together
  <2> QED
    BY <1>2, <1>3, <2>1, <2>2
<1>6. CASE kind = "deployment"
  <2>1. /\ api'["configMap"] = configMap /\ version' = version
        /\ "configMap" \in Written[kind]
    BY <1>1, <1>6 DEF Kinds, Written
  <2>2. /\ api'["deployment"].pod = PodTemplate(sr.spec, options)
        /\ \/ api'["deployment"].version = version
           \/ deployment.exists /\ api'["deployment"].version = deployment.version
    BY <1>6, DeploymentWrite
  <2>3. ASSUME "configMap" \notin slow PROVE together(api'["deployment"], configMap)
    <3>1. configMap = UpdateConfigMapData(sr.spec, sr.policies)
      BY <1>2, <2>1, <2>3
    <3>2. /\ configMap.sources.insecure = sr.spec.insecureSources
          /\ DOMAIN configMap.sources.authorities = DOMAIN sr.spec.sourceAuthorities
      BY <3>1 DEF UpdateConfigMapData, BuildSourcesMap
    <3>3. (\E v \in PodTemplate(sr.spec, options).volumes : v.name = "sources")
              = HasSources(sr.spec)
      BY SourcesAreMounted
    <3> QED
      BY <2>2, <3>2, <3>3 DEF HasSources
  <2> HIDE DEF deployment, configMap, together
  <2> QED
    BY <1>2, <1>3, <2>1, <2>2, <2>3
<1>7. CASE kind \notin {"configMap", "deployment"}
  <2>1. /\ api'["configMap"] = configMap /\ api'["deployment"] = deployment
        /\ version' = version
        /\ "configMap" \in Written[After[kind]] => "configMap" \in Written[kind]
    BY <1>1, <1>7 DEF Kinds, Written, After
  <2> HIDE DEF deployment, configMap, together
  <2> QED
    BY <1>2, <2>1
<1> QED
  BY <1>5, <1>6, <1>7

\* Steps that write no object keep the roll-out.
LEMMA RolledOutKept ==
    ASSUME RolledOut, UNCHANGED <<api, version, slow>>,
           sr' = Idle \/ sr'.pc = "secret" \/ UNCHANGED sr
    PROVE  RolledOut'
<1>1. RolledOutTogether'
  BY DEF RolledOut, RolledOutTogether
<1>2. CASE sr' = Idle
  BY <1>1, <1>2 DEF RolledOut
<1>3. CASE sr'.pc = "secret"
  BY <1>1, <1>3 DEF RolledOut, Written
<1>4. CASE UNCHANGED sr
  BY <1>1, <1>4 DEF RolledOut
<1> QED
  BY <1>2, <1>3, <1>4

\* The steps that write no object.
LEMMA OtherSteps ==
    ASSUME Next, ~ \E k \in Kinds : ReconcileObject(k)
    PROVE  /\ UNCHANGED <<api, version, slow>>
           /\ sr' = Idle \/ sr'.pc = "secret" \/ UNCHANGED <<sr, options>>
<1>1. CASE SyncServer \/ \E k \in Kinds : SyncObject(k)
  BY <1>1 DEF SyncServer, SyncObject
<1>2. CASE UpdateSpec \/ UpdatePolicies \/ CreateClientCA \/ Restart \/ Resync
  BY <1>2 DEF UpdateSpec, UpdatePolicies, CreateClientCA, Restart, Resync
<1>3. CASE Begin
  BY <1>3 DEF Begin
<1>4. CASE UpdateStatus \/ StatusFails \/ \E k \in Kinds : ObjectFails(k)
  BY <1>4 DEF UpdateStatus, StatusFails, ObjectFails, Abandon
<1> QED
  BY <1>1, <1>2, <1>3, <1>4 DEF Next, Reconcile

-----------------------------------------------------------------------------
(* Rest *)

\* A write makes its condition True in the reconciliation's copy.
LEMMA ReconcileObjectKept ==
    ASSUME ObjectsInv, Kept, NEW kind \in Kinds, ReconcileObject(kind)
    PROVE  Kept'
<1> SUFFICES ASSUME slow' \subseteq {"server"}
             PROVE  /\ sr'.fresh
                    /\ \A k \in Written[sr'.pc] : sr'.conditions[k] = "True"
                    /\ ~queued' => sr'.policies = policies'
                    /\ sr' # Idle
  BY DEF Kept, AtRestApplied, AtRest
<1>1. /\ sr \in Reconciliation /\ sr # Idle /\ sr.pc = kind
      /\ sr' # Idle /\ sr'.pc = After[kind] /\ sr'.policies = sr.policies
      /\ sr'.fresh = sr.fresh /\ UNCHANGED <<slow, queued, policies>>
  BY ReconcileObjectShape DEF ObjectsInv
<1>2. /\ sr.fresh
      /\ \A k \in Written[kind] : sr.conditions[k] = "True"
      /\ ~queued => sr.policies = policies
  BY <1>1 DEF Kept
<1>3. sr'.conditions = [sr.conditions EXCEPT ![kind] = "True"]
  BY <1>1 DEF ReconcileObject, Reconciliation
<1>4. sr.conditions \in [Kinds -> ConditionValues]
  BY <1>1 DEF Reconciliation
<1>5. \A k \in Written[After[kind]] : k \in Kinds /\ (k = kind \/ k \in Written[kind])
  BY DEF Written, After, Kinds
<1>6. \A k \in Written[After[kind]] : sr'.conditions[k] = "True"
  BY <1>2, <1>3, <1>4, <1>5
<1> QED
  BY <1>1, <1>2, <1>6

\* A reconciliation starts with up-to-date caches.
LEMMA BeginKept ==
    ASSUME ObjectsInv, Informed, Begin
    PROVE  Kept'
<1> SUFFICES ASSUME slow \subseteq {"server"}
             PROVE  /\ sr'.fresh
                    /\ \A k \in Written[sr'.pc] : sr'.conditions[k] = "True"
                    /\ sr'.policies = policies'
                    /\ sr' # Idle
  BY DEF Kept, AtRestApplied, AtRest, Begin
<1>1. /\ sr' = [pc |-> "secret", spec |-> cachedServer.spec, policies |-> policies,
                conditions |-> cachedServer.conditions, fresh |-> cache = api]
      /\ UNCHANGED policies
  BY DEF Begin
<1>2. \A k \in Kinds : cache[k] = api[k]
  BY DEF Informed, Kinds
<1>3. cache = api
  BY <1>2 DEF ObjectsInv, Shape
<1>4. Written["secret"] = {}
  BY DEF Written
<1> QED
  BY <1>1, <1>3, <1>4 DEF Idle

\* A reconciliation that saves its status while its copy of the PolicyServer is the
\* latest, and nothing is queued, leaves nothing to be done.
LEMMA UpdateStatusKept ==
    ASSUME ObjectsInv, Kept, UpdateStatus
    PROVE  Kept'
<1>1. /\ sr.pc = "status" /\ sr # Idle /\ sr' = Idle /\ "reconciler" \in current
      /\ conditions' = sr.conditions
      /\ UNCHANGED <<spec, api, version, policies, options, slow, queued>>
  BY DEF UpdateStatus, Idle
<1> SUFFICES ASSUME slow \subseteq {"server"}, ~queued
             PROVE  /\ \A k \in Kinds : api[k] = Desired(k, spec, policies, options, version)
                    /\ \A k \in Kinds : sr.conditions[k] = "True"
  BY <1>1 DEF Kept, AtRestApplied, AtRest
<1>2. Written["status"] = Kinds
  BY DEF Written
<1>3. /\ sr.fresh
      /\ \A k \in Kinds : sr.conditions[k] = "True"
      /\ sr.policies = policies
  BY <1>1, <1>2 DEF Kept
<1>4. sr.spec = spec
  BY <1>1 DEF ObjectsInv, Applied
<1>5. \A k \in Kinds : api[k] = Desired(k, sr.spec, sr.policies, options, version)
  BY <1>1, <1>2, <1>3 DEF ObjectsInv, Applied
<1> QED
  BY <1>3, <1>4, <1>5

\* All other steps queue the key, leave the cached PolicyServer behind, or change
\* nothing that matters.
LEMMA OtherStepsKept ==
    ASSUME Kept,
           \/ SyncServer \/ \E k \in Kinds : SyncObject(k)
           \/ UpdateSpec \/ UpdatePolicies \/ CreateClientCA \/ Restart \/ Resync
           \/ StatusFails \/ \E k \in Kinds : ObjectFails(k)
    PROVE  Kept'
<1>1. CASE SyncServer
  BY <1>1 DEF SyncServer, Kept, AtRestApplied, AtRest
<1>2. ASSUME NEW k \in Kinds, SyncObject(k) PROVE Kept'
  BY <1>2 DEF SyncObject, Kept, AtRestApplied, AtRest
<1>3. CASE UpdateSpec
  BY <1>3 DEF UpdateSpec, Kept, AtRestApplied, AtRest
<1>4. CASE UpdatePolicies
  BY <1>4 DEF UpdatePolicies, Kept, AtRestApplied, AtRest
<1>5. CASE CreateClientCA
  BY <1>5 DEF CreateClientCA, Kept, AtRestApplied, AtRest
<1>6. CASE Restart
  BY <1>6 DEF Restart, Kept, AtRestApplied, AtRest
<1>7. CASE Resync
  BY <1>7 DEF Resync, Kept, AtRestApplied, AtRest
<1>8. CASE StatusFails \/ \E k \in Kinds : ObjectFails(k)
  <2>1. sr' = Idle /\ queued' = TRUE /\ UNCHANGED slow
    BY <1>8 DEF StatusFails, ObjectFails, Abandon
  <2> QED
    BY <2>1 DEF Kept, AtRestApplied, AtRest
<1> QED
  BY <1>1, <1>2, <1>3, <1>4, <1>5, <1>6, <1>7, <1>8

-----------------------------------------------------------------------------
(* Theorems *)

\* The inductive invariant: types, what up-to-date copies hold, how far a fresh
\* reconciliation has come, and which objects exist before which.
THEOREM ObjectsInvHolds == Spec => []ObjectsInv
<1>1. ObjectsInv /\ [Next]_vars => ObjectsInv'
  <2> SUFFICES ASSUME ObjectsInv, [Next]_vars PROVE ObjectsInv'
    OBVIOUS
  <2>1. CASE UNCHANGED vars
    BY <2>1 DEF vars, ObjectsInv, ObjectsTypeOK, Shape, Applied, Created
  <2>2. ASSUME NEW k \in Kinds, ReconcileObject(k) PROVE ObjectsInv'
    BY <2>2, ReconcileObjectTypeOK, ReconcileObjectApplied, ReconcileObjectCreated
       DEF ObjectsInv
  <2> QED
    BY <2>1, <2>2, BeginObjectsInv, EndObjectsInv, InformObjectsInv, UserObjectsInv, Zenon
       DEF Next, Reconcile
<1> QED
  BY <1>1, InitObjectsInv, PTL DEF Spec

\* Specs, conditions, objects and the reconciliation under way keep their types.
THEOREM ObjectsTypeCorrect == Spec => []ObjectsTypeOK
<1>1. ObjectsInv => ObjectsTypeOK
  BY DEF ObjectsInv
<1> QED
  BY <1>1, ObjectsInvHolds, PTL

\* No stored Deployment mounts a Secret or ConfigMap of its PolicyServer that does
\* not exist, whatever writes fail and however stale the informers' copies are.
THEOREM DeploymentComesAfter == Spec => []MountedObjectsExist
<1>1. ObjectsInv => MountedObjectsExist
  BY DEF ObjectsInv, Created, MountedObjectsExist
<1> QED
  BY <1>1, ObjectsInvHolds, PTL

\* A reconciliation that started with up-to-date caches and saves its status has
\* made all five objects what the present spec wants, for any specs, flags and
\* history of stale patches before it.
THEOREM FreshReconciliationApplies == Spec => StatusMeansApplied
<1>1. ObjectsInv /\ [Next]_vars =>
          [UpdateStatus /\ sr.fresh =>
               \A k \in Kinds : api[k] = Desired(k, spec, sr.policies, options, version)]_vars
  <2> SUFFICES ASSUME ObjectsInv, UpdateStatus, sr.fresh, NEW k \in Kinds
               PROVE  api[k] = Desired(k, spec, sr.policies, options, version)
    OBVIOUS
  <2>1. sr.pc = "status" /\ sr # Idle /\ "reconciler" \in current
    BY DEF UpdateStatus, Idle
  <2>2. sr.spec = spec
    BY <2>1 DEF ObjectsInv, Applied
  <2>3. k \in Written[sr.pc]
    BY <2>1 DEF Written
  <2> QED
    BY <2>1, <2>2, <2>3 DEF ObjectsInv, Applied
<1> QED
  BY <1>1, ObjectsInvHolds, PTL DEF Spec, StatusMeansApplied

\* Whatever is stored as a template was computed from a spec and flags, and from those
\* of the reconciliation that has just written it.
THEOREM TemplatedHolds == Spec => []Templated
<1>1. Init => Templated
  BY DEF Init, Templated, Absent, Kinds
<1>2. ObjectsInv /\ Templated /\ [Next]_vars => Templated'
  <2> SUFFICES ASSUME ObjectsInv, Templated, [Next]_vars PROVE Templated'
    OBVIOUS
  <2>1. CASE UNCHANGED vars
    BY <2>1 DEF vars, Templated
  <2>2. CASE \E k \in Kinds : ReconcileObject(k)
    BY <2>2, ReconcileObjectTemplated
  <2>3. CASE Next /\ ~ \E k \in Kinds : ReconcileObject(k)
    BY <2>3, OtherSteps, TemplatedKept
  <2> QED
    BY <2>1, <2>2, <2>3
<1> QED
  BY <1>1, <1>2, ObjectsInvHolds, PTL DEF Spec

\* Every stored pod template is one that the API server accepts and the policy server
\* can start with: mounts and volumes match one to one, in directories of their own,
\* and the variables that name the mounted configuration files are the effective ones.
THEOREM StoredTemplatesAreValid == Spec => []PodTemplateIsValid
<1>1. Templated => PodTemplateIsValid
  <2> SUFFICES ASSUME Templated, api["deployment"].exists PROVE PodTemplateIsValid
    BY DEF PodTemplateIsValid
  <2>1. PICK sp \in Specs, opts \in Options : api["deployment"].pod = PodTemplate(sp, opts)
    BY DEF Templated
  <2> DEFINE pod == PodTemplate(sp, opts)
             verify == "KUBEWARDEN_VERIFICATION_CONFIG_PATH"
             source == "KUBEWARDEN_SOURCES_PATH"
  <2>2. /\ {m.name : m \in pod.mounts} = {v.name : v \in pod.volumes}
        /\ \A m, n \in pod.mounts : m.name = n.name \/ m.path = n.path => m = n
        /\ \A v, w \in pod.volumes : v.name = w.name => v = w
    BY MountsAndVolumes
  <2>3. /\ sp.verificationConfig # "" =>
               /\ verify \in DOMAIN pod.env
               /\ Effective(pod.env, verify) = Join(<<"verification">>, "verification.yml")
        /\ HasSources(sp) =>
               /\ source \in DOMAIN pod.env
               /\ Effective(pod.env, source) = Join(<<"sources">>, "sources.yml")
    BY TemplateEnvContent
  <2>4. /\ Dir(Join(<<"verification">>, "verification.yml")) = <<"verification">>
        /\ Dir(Join(<<"sources">>, "sources.yml")) = <<"sources">>
    BY DirOfJoin
  <2>5. \A m \in pod.mounts :
            /\ m.name = "verification" =>
                   sp.verificationConfig # "" /\ m.path = <<"verification">>
            /\ m.name = "sources" => HasSources(sp) /\ m.path = <<"sources">>
    <3> TAKE m \in pod.mounts
    <3>1. PICK n \in VolumeNames(sp, opts) : m = VolumeMount(n, PathOf(opts, n))
      BY MountsByName
    <3>2. m.name = n /\ m.path = PathOf(opts, n)
      BY <3>1 DEF VolumeMount
    <3>3. /\ n = "verification" => sp.verificationConfig # ""
          /\ n = "sources" => HasSources(sp)
      BY DEF VolumeNames, CertificateNames
    <3>4. /\ PathOf(opts, "verification") = <<"verification">>
          /\ PathOf(opts, "sources") = <<"sources">>
      BY DEF PathOf
    <3> QED
      BY <3>2, <3>3, <3>4
  <2> HIDE DEF pod
  <2>6. /\ \A m \in pod.mounts : m.name = "sources" =>
               source \in DOMAIN pod.env /\ Dir(Effective(pod.env, source)) = m.path
        /\ \A m \in pod.mounts : m.name = "verification" =>
               verify \in DOMAIN pod.env /\ Dir(Effective(pod.env, verify)) = m.path
    BY <2>3, <2>4, <2>5
  <2>7. api["deployment"].pod = pod
    BY <2>1 DEF pod
  <2> QED
    BY <2>2, <2>6, <2>7 DEF PodTemplateIsValid
<1> QED
  BY <1>1, TemplatedHolds, PTL

\* In a Deployment that was just written the controller's telemetry settings and the
\* user's other variables are what the container sees, for any flags and any spec.
THEOREM TelemetryReachesContainers == Spec => []TelemetryIsEffective
<1>1. ObjectsInv /\ Templated => TelemetryIsEffective
  <2> SUFFICES ASSUME ObjectsInv, Templated, sr.pc = "service" PROVE TelemetryIsEffective
    BY DEF TelemetryIsEffective
  <2>1. sr # Idle /\ options \in Options
    BY DEF Idle, ObjectsInv, ObjectsTypeOK
  <2>2. api["deployment"].pod = PodTemplate(sr.spec, options)
    BY <2>1 DEF Templated
  <2> DEFINE env == api["deployment"].pod.env
             telemetry == TelemetryEnv(options)
  <2>3. /\ \A t \in telemetry : t[1] \in DOMAIN env /\ Effective(env, t[1]) = t[2]
        /\ \A n \in DOMAIN sr.spec.env \ AddedEnv :
               (\A t \in telemetry : t[1] # n) =>
                   n \in DOMAIN env /\ Effective(env, n) = sr.spec.env[n]
    <3> DEFINE e == PodTemplate(sr.spec, options).env
    <3>1. /\ \A t \in telemetry : t[1] \in DOMAIN e /\ Effective(e, t[1]) = t[2]
          /\ \A n \in DOMAIN sr.spec.env \ AddedEnv :
                 (\A t \in telemetry : t[1] # n) =>
                     n \in DOMAIN e /\ Effective(e, n) = sr.spec.env[n]
      BY <2>1, TemplateEnvContent
    <3>2. env = e
      BY <2>2
    <3> HIDE DEF e, env, telemetry
    <3> QED
      BY <3>1, <3>2
  <2> QED
    BY <2>3 DEF TelemetryIsEffective
<1> QED
  BY <1>1, ObjectsInvHolds, TemplatedHolds, PTL

\* The label of a template never runs ahead of the ConfigMap, and what carries the
\* present label mounts what the present ConfigMap holds.
THEOREM RolledOutHolds == Spec => []RolledOut
<1>1. Init => RolledOut
  <2> SUFFICES ASSUME Init PROVE RolledOut
    OBVIOUS
  <2>1. ~api["deployment"].exists /\ sr = Idle
    BY DEF Init, Absent, Kinds
  <2> QED
    BY <2>1 DEF RolledOut, RolledOutTogether
<1>2. ObjectsInv /\ RolledOut /\ [Next]_vars => RolledOut'
  <2> SUFFICES ASSUME ObjectsInv, RolledOut, [Next]_vars PROVE RolledOut'
    OBVIOUS
  <2>1. CASE UNCHANGED vars
    BY <2>1 DEF vars, RolledOut, RolledOutTogether
  <2>2. CASE Next /\ \E k \in Kinds : ReconcileObject(k)
    <3>1. PICK k \in Kinds : ReconcileObject(k)
      BY <2>2
    <3>2. Informed
      <4>1. sr' # sr
        <5>1. sr.pc = k /\ sr'.pc = After[k]
          BY <3>1, ReconcileObjectShape DEF ObjectsInv
        <5> QED
          BY <5>1 DEF After, Kinds
      <4> QED
        BY <2>2, <4>1 DEF Next, SyncServer, SyncObject
    <3> QED
      BY <3>1, <3>2, ReconcileObjectRolledOut
  <2>3. CASE Next /\ ~ \E k \in Kinds : ReconcileObject(k)
    BY <2>3, OtherSteps, RolledOutKept
  <2> QED
    BY <2>1, <2>2, <2>3
<1> QED
  BY <1>1, <1>2, ObjectsInvHolds, PTL DEF Spec

\* Template and ConfigMap of one version agree on the sources, whatever edits, failed
\* writes, restarts and stale copies of the other objects came between.
THEOREM ConfigAndTemplateAgree == Spec => []RolledOutTogether
<1>1. RolledOut => RolledOutTogether
  BY DEF RolledOut
<1> QED
  BY <1>1, RolledOutHolds, PTL

\* With prompt object informers every reconciliation is fresh and nothing is left to do
\* at rest.
THEOREM KeptHolds == Spec => []Kept
<1>1. Init => Kept
  BY DEF Init, Kept, AtRestApplied, AtRest
<1>2. ObjectsInv /\ Kept /\ [Next]_vars => Kept'
  <2> SUFFICES ASSUME ObjectsInv, Kept, [Next]_vars PROVE Kept'
    OBVIOUS
  <2>1. CASE UNCHANGED vars
    BY <2>1 DEF vars, Kept, AtRestApplied, AtRest
  <2>2. ASSUME NEW k \in Kinds, ReconcileObject(k) PROVE Kept'
    BY <2>2, ReconcileObjectKept
  <2>3. CASE Informed /\ Begin
    BY <2>3, BeginKept
  <2>4. CASE UpdateStatus
    BY <2>4, UpdateStatusKept
  <2> QED
    BY <2>1, <2>2, <2>3, <2>4, OtherStepsKept, Zenon DEF Next, Reconcile
<1> QED
  BY <1>1, <1>2, ObjectsInvHolds, PTL DEF Spec

\* No change of a spec, of the policies or of the flags is lost: a PolicyServer whose key
\* is neither queued nor being reconciled has all its objects as wanted.
THEOREM NothingIsLost == Spec => []AtRestApplied
<1>1. Kept => AtRestApplied
  BY DEF Kept, AtRestApplied, AtRest
<1> QED
  BY <1>1, KeptHolds, PTL

\* For any policies with names of their own the two directions of policies.yml agree.
THEOREM ConfigurationIsUnderstood == Spec => []EntriesAreUnderstood
<1>1. ObjectsInv /\ AtRestApplied => EntriesAreUnderstood
  <2> SUFFICES ASSUME ObjectsInv, AtRestApplied, AtRest, Distinguished(policies)
               PROVE  EntriesAreUnderstood
    BY DEF EntriesAreUnderstood
  <2> DEFINE configMap == api["configMap"]
             map == GetPolicyMapFromConfigMap(configMap)
             listed == Range(policies)
             named(kinds) == {NamespacedName(p) : p \in {q \in listed : q.kind \in kinds}}
  <2>1. policies \in PolicyLists
    BY DEF ObjectsInv, ObjectsTypeOK
  <2>2. configMap = UpdateConfigMapData(spec, policies)
    BY DEF AtRestApplied, Desired, Kinds
  <2>3. api["deployment"].version = version
    BY DEF AtRestApplied, Desired, Kinds, UpdatePolicyServerDeployment
  <2>4. /\ map.readable = TRUE
        /\ DOMAIN map.entries = {GetUniqueName(p) : p \in listed}
        /\ \A p \in listed : map.entries[GetUniqueName(p)] = PolicyServerConfigEntry(p)
    BY <2>1, <2>2, EntriesReadBack
  <2>5. /\ ToAdmissionPolicyReconcileRequests(configMap)
               = named({"AdmissionPolicy", "AdmissionPolicyGroup"})
        /\ ToClusterAdmissionPolicyReconcileRequests(configMap)
               = named({"ClusterAdmissionPolicy", "ClusterAdmissionPolicyGroup"})
    BY <2>1, <2>2, RequestsReachPolicies
  <2>6. \A p \in listed : IsPolicyInConfigMap(configMap, GetUniqueName(p))
    BY <2>4 DEF IsPolicyInConfigMap
  <2>7. \A p \in listed : SetPolicyModeStatus(configMap, p) = p.mode
    <3>1. \A p \in listed : PolicyServerConfigEntry(p).policyMode = p.mode
      BY DEF PolicyServerConfigEntry
    <3>2. \A p \in listed : SetPolicyModeStatus(configMap, p)
                               = map.entries[GetUniqueName(p)].policyMode
      BY <2>6 DEF SetPolicyModeStatus
    <3> HIDE DEF map, configMap, listed
    <3> QED
      BY <2>4, <3>1, <3>2
  <2> QED
    BY <2>3, <2>4, <2>5, <2>6, <2>7 DEF EntriesAreUnderstood, SetPolicyConfigurationCondition
<1> QED
  BY <1>1, ObjectsInvHolds, NothingIsLost, PTL

\* For any policies with names of their own the webhooks lead to the entries of their
\* policies, and back.
THEOREM WebhooksLeadToEntries == Spec => []WebhooksAreAnswered
<1>1. ObjectsInv /\ AtRestApplied => WebhooksAreAnswered
  <2> SUFFICES ASSUME ObjectsInv, AtRestApplied, AtRest, Distinguished(policies),
                      NEW p \in Range(policies)
               PROVE  LET webhook == WebhookConfiguration(p, options)
                          entries == GetPolicyMapFromConfigMap(api["configMap"]).entries
                          key == webhook.path[2]
                      IN  /\ webhook.port \in api["service"].ports
                          /\ key \in DOMAIN entries
                          /\ entries[key].namespacedName = NamespacedName(p)
                          /\ entries[key].allowedToMutate = webhook.mutating
                          /\ NamespacedName(p) \in
                                 IF IsNamespaced(p)
                                 THEN FindPolicyForWebhookConfiguration(webhook)
                                 ELSE FindClusterPolicyForWebhookConfiguration(webhook)
    BY DEF WebhooksAreAnswered
  <2> DEFINE webhook == WebhookConfiguration(p, options)
             entries == GetPolicyMapFromConfigMap(api["configMap"]).entries
  <2>1. policies \in PolicyLists
    BY DEF ObjectsInv, ObjectsTypeOK
  <2>2. /\ api["configMap"] = UpdateConfigMapData(spec, policies)
        /\ api["service"] = UpdateService(options)
    BY DEF AtRestApplied, Desired, Kinds
  <2>3. /\ DOMAIN entries = {GetUniqueName(q) : q \in Range(policies)}
        /\ entries[GetUniqueName(p)] = PolicyServerConfigEntry(p)
    BY <2>1, <2>2, EntriesReadBack
  <2>4. /\ webhook.port = 8443 /\ webhook.path[2] = GetUniqueName(p)
        /\ webhook.mutating = IsMutating(p) /\ webhook.annotations = NamespacedName(p)
    <3>1. webhook.port = 8443
      BY DEF WebhookConfiguration
    <3>2. webhook.path = <<"validate", GetUniqueName(p)>>
      BY DEF WebhookConfiguration
    <3>3. webhook.mutating = IsMutating(p)
      BY DEF WebhookConfiguration
    <3>4. webhook.annotations = NamespacedName(p)
      BY DEF WebhookConfiguration
    <3> HIDE DEF webhook
    <3> QED
      BY <3>1, <3>2, <3>3, <3>4
  <2>5. api["service"].ports = UpdateService(options).ports
    BY <2>2
  <2>6. 8443 \in UpdateService(options).ports
    BY DEF UpdateService
  <2>7. /\ PolicyServerConfigEntry(p).namespacedName = NamespacedName(p)
        /\ PolicyServerConfigEntry(p).allowedToMutate = IsMutating(p)
    BY DEF PolicyServerConfigEntry
  <2>8. IsNamespaced(p) <=> p.namespace # <<>>
    BY <2>1, PoliciesAssumption
  <2> HIDE DEF webhook, entries
  <2>9. NamespacedName(p) \in IF IsNamespaced(p) THEN FindPolicyForWebhookConfiguration(webhook)
                              ELSE FindClusterPolicyForWebhookConfiguration(webhook)
    BY <2>4, <2>8 DEF FindPolicyForWebhookConfiguration,
                      FindClusterPolicyForWebhookConfiguration, NamespacedName
  <2>10. GetUniqueName(p) \in DOMAIN entries
    BY <2>3
  <2>11. /\ webhook.path[2] \in DOMAIN entries
         /\ entries[webhook.path[2]] = PolicyServerConfigEntry(p)
    BY <2>3, <2>4, <2>10
  <2>12. webhook.port \in api["service"].ports
    BY <2>4, <2>5, <2>6
  <2>13. /\ entries[webhook.path[2]].namespacedName = NamespacedName(p)
         /\ entries[webhook.path[2]].allowedToMutate = webhook.mutating
    BY <2>4, <2>7, <2>11
  <2> QED
    BY <2>9, <2>11, <2>12, <2>13 DEF webhook, entries
<1> QED
  BY <1>1, ObjectsInvHolds, NothingIsLost, PTL

\* The boundary of what namespaceSelector loses: without matchLabels in the selectors of
\* the policies, every webhook runs in the namespaces its policy is meant for and in no
\* others, of whatever kinds the policies are and whatever their matchExpressions.
THEOREM SelectorsWithoutLabels ==
    Spec => []((\A p \in Range(policies) : p.namespaceSelector.matchLabels = NoMembers)
                   => SelectorIsHonoured)
<1>1. ASSUME NEW p, p.namespaceSelector.matchLabels = NoMembers, NEW ns \in Namespaces,
             NEW opts
      PROVE  Matches(WebhookConfiguration(p, opts).namespaceSelector, ns.labels)
                 <=> MeantFor(p, ns)
  <2> DEFINE elsewhere == [key |-> NameLabel, operator |-> "NotIn",
                           values |-> {DeploymentsNamespace}]
             found(e) == e.key \in DOMAIN ns.labels /\ ns.labels[e.key] \in e.values
             met(e) == IF e.operator = "In" THEN found(e) ELSE ~found(e)
  <2>1. WebhookConfiguration(p, opts).namespaceSelector = NamespaceSelector(p)
    BY DEF WebhookConfiguration
  <2>2. NameLabel \in DOMAIN ns.labels /\ ns.labels[NameLabel] = ns.name
    BY NamespacesAssumption
  <2>3. CASE IsNamespaced(p)
    <3>1. /\ NamespaceSelector(p).matchLabels = [k \in {NameLabel} |-> p.namespace]
          /\ NamespaceSelector(p).matchExpressions = {}
      BY <2>3 DEF NamespaceSelector, GetNamespaceSelector, NoSelector
    <3>2. /\ DOMAIN NamespaceSelector(p).matchLabels = {NameLabel}
          /\ NamespaceSelector(p).matchLabels[NameLabel] = p.namespace
      BY <3>1
    <3>3. Matches(NamespaceSelector(p), ns.labels) <=> ns.labels[NameLabel] = p.namespace
      BY <2>2, <3>1, <3>2 DEF Matches
    <3> QED
      BY <2>1, <2>2, <2>3, <3>3 DEF MeantFor
  <2>4. CASE ~IsNamespaced(p)
    <3>1. /\ NamespaceSelector(p).matchLabels = NoMembers
          /\ NamespaceSelector(p).matchExpressions
                 = {elsewhere} \cup p.namespaceSelector.matchExpressions
      BY <2>4 DEF NamespaceSelector, GetNamespaceSelector, NoSelector
    <3>2. DOMAIN NoMembers = {}
      BY DEF NoMembers
    <3>3. met(elsewhere) <=> ns.name # DeploymentsNamespace
      BY <2>2
    <3> HIDE DEF met, elsewhere
    <3>4. Matches(NamespaceSelector(p), ns.labels)
              <=> \A e \in {elsewhere} \cup p.namespaceSelector.matchExpressions : met(e)
      BY <3>1, <3>2 DEF Matches, met
    <3>5. Matches(p.namespaceSelector, ns.labels)
              <=> \A e \in p.namespaceSelector.matchExpressions : met(e)
      BY <1>1, <3>2 DEF Matches, met
    <3> QED
      BY <2>1, <2>4, <3>3, <3>4, <3>5 DEF MeantFor
  <2> QED
    BY <2>3, <2>4
<1>2. \A p, ns, selector : /\ Matches(selector, ns.labels) \in BOOLEAN
                           /\ MeantFor(p, ns) \in BOOLEAN
  <2> TAKE p, ns, selector
  <2>1. Matches(selector, ns.labels) \in BOOLEAN
    BY Zenon DEF Matches
  <2>2. CASE IsNamespaced(p)
    BY <2>1, <2>2 DEF MeantFor
  <2>3. CASE ~IsNamespaced(p)
    BY <2>1, <2>3 DEF MeantFor
  <2> QED
    BY <2>1, <2>2, <2>3
<1>3. (\A p \in Range(policies) : p.namespaceSelector.matchLabels = NoMembers)
          => SelectorIsHonoured
  BY <1>1, <1>2 DEF SelectorIsHonoured
<1> QED
  BY <1>3, PTL
=============================================================================
