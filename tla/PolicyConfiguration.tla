------------------------- MODULE PolicyConfiguration -------------------------
(***************************************************************************)
(* What becomes of a policy of each of the four kinds: the entry of        *)
(* policies.yml that its PolicyServer loads, as it is written and as the   *)
(* policy controllers read it back, and the webhook configuration that     *)
(* sends requests to it.                                                   *)
(*                                                                         *)
(* A name is the sequence of its parts between dashes; cluster-wide        *)
(* policies have the namespace <<>>.  Fields that are only copied          *)
(* (settings, expression, message, failure policy, timeout) are left out.  *)
(***************************************************************************)
EXTENDS PolicyServerDeployment, Functions

PolicyKinds == {"AdmissionPolicy", "AdmissionPolicyGroup", "ClusterAdmissionPolicy",
                "ClusterAdmissionPolicyGroup"}
IsGroup(p) == p.kind \in {"AdmissionPolicyGroup", "ClusterAdmissionPolicyGroup"}
IsNamespaced(p) == p.kind \in {"AdmissionPolicy", "AdmissionPolicyGroup"}

GetUniqueName(p) ==
    (IF IsNamespaced(p) THEN <<"namespaced">> ELSE <<"clusterwide">>)
    \o (IF IsGroup(p) THEN <<"group">> ELSE <<>>)
    \o p.namespace \o p.name

NamespacedName(p) == [namespace |-> p.namespace, name |-> p.name]

GetModule(p) == IF IsGroup(p) THEN "" ELSE p.module
IsMutating(p) == ~IsGroup(p) /\ p.mutating
GetContextAwareResources(p) == IF p.kind = "ClusterAdmissionPolicy" THEN p.context ELSE {}

NoMembers == [m \in {} |-> ""]

\* The members of a namespaced group have no access to resources.
GetPolicyGroupMembersWithContext(p) ==
    [m \in DOMAIN p.members |->
        IF IsNamespaced(p) THEN [p.members[m] EXCEPT !.context = {}] ELSE p.members[m]]

GetRules(p) ==
    IF IsNamespaced(p) THEN {[r EXCEPT !.scope = "Namespaced"] : r \in p.rules} ELSE p.rules

-----------------------------------------------------------------------------
(* policies.yml *)

PolicyServerConfigEntry(p) ==
    [namespacedName |-> NamespacedName(p), module |-> GetModule(p), policyMode |-> p.mode,
     allowedToMutate |-> IsMutating(p),
     contextAwareResources |-> GetContextAwareResources(p),
     policies |-> IF IsGroup(p) THEN GetPolicyGroupMembersWithContext(p) ELSE NoMembers]

\* The last policy with a name overwrites the entry of the others.
BuildPoliciesMap(list) ==
    LET names == {GetUniqueName(list[i]) : i \in DOMAIN list}
        last(name) == CHOOSE i \in DOMAIN list :
            /\ GetUniqueName(list[i]) = name
            /\ \A j \in (i + 1)..Len(list) : GetUniqueName(list[j]) # name
    IN  [name \in names |-> PolicyServerConfigEntry(list[last(name)])]

MarshalAsPolicy(entry) ==
    [f \in {"namespacedName", "module", "policyMode", "allowedToMutate"} |-> entry[f]]

\* A JSON object is the function from the fields it has.
MarshalJSON(entry) ==
    LET fields == IF DOMAIN entry.policies # {}
                  THEN {"namespacedName", "policyMode", "policies"}
                  ELSE {"namespacedName", "module", "policyMode", "allowedToMutate"}
                       \cup IF entry.contextAwareResources = {} THEN {}
                            ELSE {"contextAwareResources"}
    IN  [f \in fields |-> entry[f]]

ZeroEntry ==
    [namespacedName |-> [namespace |-> <<>>, name |-> <<>>], module |-> "", policyMode |-> "",
     allowedToMutate |-> FALSE, contextAwareResources |-> {}, policies |-> NoMembers]

UnmarshalJSON(json) ==
    [f \in DOMAIN ZeroEntry |-> IF f \in DOMAIN json THEN json[f] ELSE ZeroEntry[f]]

\* An entry has either a module or members.
IsConfigEntry(entry) == (entry.module = "") # (DOMAIN entry.policies = {})

PoliciesYML(list) ==
    LET map == BuildPoliciesMap(list) IN [name \in DOMAIN map |-> MarshalJSON(map[name])]

\* One entry that cannot be read makes the whole map unreadable.
GetPolicyMapFromConfigMap(configMap) ==
    LET map == [name \in DOMAIN configMap.policies |->
                    UnmarshalJSON(configMap.policies[name])]
    IN  [readable |-> \A name \in DOMAIN map : IsConfigEntry(map[name]), entries |-> map]

IsPolicyInConfigMap(configMap, name) ==
    LET map == GetPolicyMapFromConfigMap(configMap)
    IN  map.readable /\ name \in DOMAIN map.entries

SetPolicyModeStatus(configMap, p) ==
    IF IsPolicyInConfigMap(configMap, GetUniqueName(p))
    THEN GetPolicyMapFromConfigMap(configMap).entries[GetUniqueName(p)].policyMode
    ELSE "unknown"

\* The condition PolicyServerConfigurationUpToDate.
SetPolicyConfigurationCondition(deployment, version) == deployment.version = version

\* Whom an event of a pod of the PolicyServer makes the controllers of the
\* namespaced and of the cluster-wide kinds reconcile.
ReconcileRequests(configMap) ==
    LET map == GetPolicyMapFromConfigMap(configMap)
    IN  IF map.readable
        THEN {map.entries[name].namespacedName : name \in DOMAIN map.entries} ELSE {}
ToAdmissionPolicyReconcileRequests(configMap) ==
    {r \in ReconcileRequests(configMap) : r.namespace # <<>>}
ToClusterAdmissionPolicyReconcileRequests(configMap) ==
    {r \in ReconcileRequests(configMap) : r.namespace = <<>>}

-----------------------------------------------------------------------------
(* Webhook configurations *)

NoSelector == [matchLabels |-> NoMembers, matchExpressions |-> {}]
NameLabel == "kubernetes.io/metadata.name"

\* Label selectors as the API server evaluates them.
Matches(selector, labels) ==
    /\ \A k \in DOMAIN selector.matchLabels :
           k \in DOMAIN labels /\ labels[k] = selector.matchLabels[k]
    /\ \A e \in selector.matchExpressions :
           LET found == e.key \in DOMAIN labels /\ labels[e.key] \in e.values
           IN  IF e.operator = "In" THEN found ELSE ~found

\* Absent and empty selectors are the same.
GetNamespaceSelector(p) ==
    IF IsNamespaced(p) THEN [NoSelector EXCEPT !.matchLabels = [k \in {NameLabel} |-> p.namespace]]
    ELSE p.namespaceSelector

\* Requests from the namespace of the policy servers are never sent to them.
NamespaceSelector(p) ==
    LET elsewhere == [key |-> NameLabel, operator |-> "NotIn", values |-> {DeploymentsNamespace}]
    IN  IF IsNamespaced(p) THEN GetNamespaceSelector(p)
        ELSE [NoSelector EXCEPT
                  !.matchExpressions = {elsewhere} \cup GetNamespaceSelector(p).matchExpressions]

WebhookByName(p, options) ==
    [mutating |-> IsMutating(p), name |-> GetUniqueName(p), annotations |-> NamespacedName(p),
     service |-> NameWithPrefix, port |-> 8443, path |-> <<"validate", p.name>>,
     rules |-> GetRules(p), namespaceSelector |-> NamespaceSelector(p),
     sideEffects |-> IF p.sideEffects = "" THEN "None" ELSE p.sideEffects,
     matchConditions |-> IF options.matchConditions THEN p.matchConditions ELSE {}]

WebhookConfiguration(p, options) ==
    [mutating |-> IsMutating(p), name |-> GetUniqueName(p), annotations |-> NamespacedName(p),
     service |-> NameWithPrefix, port |-> 8443, path |-> <<"validate", GetUniqueName(p)>>,
     rules |-> GetRules(p), namespaceSelector |-> NamespaceSelector(p),
     sideEffects |-> IF p.sideEffects = "" THEN "None" ELSE p.sideEffects,
     matchConditions |-> IF options.matchConditions THEN p.matchConditions ELSE {}]

\* Whom an event of the webhook configuration makes the controllers of the
\* namespaced and of the cluster-wide kinds reconcile.
FindPolicyForWebhookConfiguration(webhook) ==
    {webhook.annotations : n \in {webhook.annotations.namespace} \ {<<>>}}
FindClusterPolicyForWebhookConfiguration(webhook) ==
    {[namespace |-> <<>>, name |-> webhook.annotations.name]}
=============================================================================
