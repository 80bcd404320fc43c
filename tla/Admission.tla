------------------------------ MODULE Admission ------------------------------
(***************************************************************************)
(* What the controller's admission webhooks let into the API server: the   *)
(* defaulters and validators of the policy kinds and of PolicyServer, for  *)
(* the writes of users and for those of the controller itself, which pass  *)
(* through the same webhooks.                                              *)
(*                                                                         *)
(* A webhook looks at one object, at its stored version and, for a         *)
(* PolicyServer, at its image pull secret.  So there is one object here,   *)
(* of any kind, and that secret.                                           *)
(***************************************************************************)
EXTENDS Integers, Sequences

CONSTANTS
    PolicyServerNames,       \* values of spec.policyServer other than ""
    DefaultPolicyServer,     \* the one that replaces ""
    RuleLists,               \* the spec.rules users write
    ConditionLists,          \* the spec.matchConditions users write
    MemberSets,              \* the names in spec.policies of a group
    Expressions,             \* the spec.expression of a group
    maxMatchConditionsCount,
    QualifiedNames,          \* names of conditions that IsQualifiedName accepts
    Identifiers,             \* member names that match idenRegex
    celReservedSymbols,
    Resources,               \* names of compute resources
    Quantities               \* resource quantities users write

Namespaced == {"AdmissionPolicy", "AdmissionPolicyGroup"}
Groups == {"AdmissionPolicyGroup", "ClusterAdmissionPolicyGroup"}
PolicyKinds == Namespaced \cup Groups \cup {"ClusterAdmissionPolicy"}
Kinds == PolicyKinds \cup {"PolicyServer"}

ASSUME AdmissionAssumption ==
    /\ DefaultPolicyServer \in PolicyServerNames
    /\ "" \notin PolicyServerNames
    /\ maxMatchConditionsCount \in Nat
    /\ Quantities \subseteq Int

VARIABLES
    object,     \* the stored object, or NoObject
    pullSecret  \* the secret that spec.imagePullSecret names

admissionVars == <<object, pullSecret>>

NoObject == [kind |-> "none"]
Modes == {"protect", "monitor"}

PolicySpecs(servers, modes) ==
    [server : servers, mode : modes, rules : RuleLists, conditions : ConditionLists]

GroupSpecs(servers, modes) ==
    [server : servers, mode : modes, rules : RuleLists, conditions : ConditionLists,
     members : MemberSets, expression : Expressions]

ResourceLists == UNION {[R -> Quantities] : R \in SUBSET Resources}

\* Of the name of a PolicyServer, whether it is too long for a DNS label; of its
\* disruption budget, which of the two fields are set.
ServerSpecs ==
    [longName : BOOLEAN, usesPullSecret : BOOLEAN, minAvailable : BOOLEAN,
     maxUnavailable : BOOLEAN, limits : ResourceLists, requests : ResourceLists]

Specs(kind, servers, modes) ==
    CASE kind = "PolicyServer" -> ServerSpecs
      [] kind \in Groups -> GroupSpecs(servers, modes)
      [] OTHER -> PolicySpecs(servers, modes)

\* What users write: policyServer and mode may be left out.
Sent(kind) == Specs(kind, PolicyServerNames \cup {""}, Modes \cup {""})

\* What is stored is defaulted: no policy without a mode or a PolicyServer.
AdmissionTypeOK ==
    /\ object = NoObject
          \/ object \in UNION {[kind : {kind}, deleting : BOOLEAN, finalizer : BOOLEAN,
                               spec : Specs(kind, PolicyServerNames, Modes)] : kind \in Kinds}
    /\ pullSecret \in {"none", "dockerconfigjson", "other"}

AdmissionInit ==
    /\ object = NoObject
    /\ pullSecret = "none"

-----------------------------------------------------------------------------
(* Defaulters *)

AlwaysFinalizer(deleting, finalizer) == TRUE

SentFinalizer(deleting, finalizer) == finalizer

\* The finalizer is added to an object that is not being deleted.
AddFinalizer(deleting, finalizer) == finalizer \/ ~deleting

EmptyServer(spec) == spec.server

ServerOrDefault(spec) == IF spec.server = "" THEN DefaultPolicyServer ELSE spec.server

\* The default of the CRD for spec.mode, then the defaulting webhook, which leaves
\* the spec of a PolicyServer alone.
Default(kind, spec) ==
    IF kind = "PolicyServer" THEN spec
    ELSE [spec EXCEPT !.mode = IF @ = "" THEN "protect" ELSE @,
                      !.server = ServerOrDefault(spec)]

-----------------------------------------------------------------------------
(* Validators: an operator is TRUE when its function returns no error.     *)

\* A resource is its path, <<"pods">> or <<"pods", "status">>; the wildcards are
\* <<"*">> and <<"*", "*">>.
Wildcards == {<<"*">>, <<"*", "*">>}

\* The callers pass the API versions of the rule for its API groups.
MatchesRules(apiGroup, resource, apiGroups, resources) ==
    /\ apiGroups \cap {apiGroup, "*"} # {}
    /\ \E res \in resources : res \in Wildcards \/ Head(res) = resource

CheckRulesArrayForSensitiveResourcesBeingTargeted(rule) ==
    ~MatchesRules("wgpolicyk8s.io", "policyreports", rule.apiVersions, rule.resources)

CheckRulesArrayForWildcardUsage(rule) ==
    ~("*" \in rule.apiVersions /\ rule.resources \cap Wildcards # {})

CheckRulesArrayForEmptyString(rule) ==
    "" \notin rule.apiVersions /\ <<"">> \notin rule.resources

CheckOperationsArrayForEmptyString(rule) == "" \notin rule.operations

ValidateRulesField(kind, rules) ==
    /\ rules # {}
    /\ \A rule \in rules :
           /\ rule.operations # {} /\ rule.apiVersions # {} /\ rule.resources # {}
           /\ CheckOperationsArrayForEmptyString(rule)
           /\ CheckRulesArrayForEmptyString(rule)
           /\ kind \in Namespaced =>
                  /\ CheckRulesArrayForWildcardUsage(rule)
                  /\ CheckRulesArrayForSensitiveResourcesBeingTargeted(rule)

\* expression: "blank", "broken", or one that compiles.
ValidateMatchCondition(condition) ==
    /\ condition.expression \notin {"blank", "broken"}
    /\ condition.name # "" /\ condition.name \in QualifiedNames

ValidateMatchConditions(m) ==
    /\ Len(m) <= maxMatchConditionsCount
    /\ \A i \in DOMAIN m : ValidateMatchCondition(m[i])
    /\ \A i, j \in DOMAIN m : i # j /\ m[i].name # "" => m[i].name # m[j].name

RulesOnly(kind, spec) == ValidateRulesField(kind, spec.rules)

ValidatePolicyCreate(kind, spec) ==
    /\ ValidateRulesField(kind, spec.rules)
    /\ ValidateMatchConditions(spec.conditions)

ValidatePolicyServerField(old, new) == old.server = new.server

AnyMode(old, new) == TRUE

ValidatePolicyModeField(old, new) == ~(old.mode = "protect" /\ new.mode = "monitor")

ValidatePolicyUpdate(kind, old, new) ==
    /\ ValidateRulesField(kind, new.rules)
    /\ ValidateMatchConditions(new.conditions)
    /\ ValidatePolicyServerField(old, new)
    /\ ValidatePolicyModeField(old, new)

ValidatePolicyGroupMembers(spec) ==
    /\ spec.members # {}
    /\ spec.members \subseteq Identifiers \ (celReservedSymbols \cup {""})

\* The expression compiles when it only calls members, and has to be Boolean.
ValidatePolicyGroupExpressionField(spec) ==
    /\ spec.expression.type = "bool"
    /\ spec.expression.calls \subseteq spec.members

ValidatePolicyGroupCreate(kind, spec) ==
    /\ ValidatePolicyCreate(kind, spec)
    /\ ValidatePolicyGroupMembers(spec)
    /\ ValidatePolicyGroupExpressionField(spec)

ValidatePolicyGroupUpdate(kind, old, new) ==
    /\ ValidatePolicyUpdate(kind, old, new)
    /\ ValidatePolicyGroupMembers(new)
    /\ ValidatePolicyGroupExpressionField(new)

ValidateImagePullSecret == pullSecret = "dockerconfigjson"

ValidateLimitsAndRequests(limits, requests) ==
    /\ \A name \in DOMAIN limits : limits[name] >= 0
    /\ \A name \in DOMAIN requests :
           /\ requests[name] >= 0
           /\ name \in DOMAIN limits => requests[name] <= limits[name]

Validate(spec) ==
    /\ ~spec.longName
    /\ spec.usesPullSecret => ValidateImagePullSecret
    /\ ~(spec.minAvailable /\ spec.maxUnavailable)
    /\ ValidateLimitsAndRequests(spec.limits, spec.requests)

ValidateCreate(kind, spec) ==
    CASE kind = "PolicyServer" -> Validate(spec)
      [] kind \in Groups -> ValidatePolicyGroupCreate(kind, spec)
      [] OTHER -> ValidatePolicyCreate(kind, spec)

ValidateUpdate(kind, old, new) ==
    CASE kind = "PolicyServer" -> Validate(new)
      [] kind \in Groups -> ValidatePolicyGroupUpdate(kind, old, new)
      [] OTHER -> ValidatePolicyUpdate(kind, old, new)

-----------------------------------------------------------------------------
(* Writes.  An object that is being deleted goes with its last finalizer.  *)

Stored(obj) == IF obj.deleting /\ ~obj.finalizer THEN NoObject ELSE obj

Create(kind, sent, finalizer) ==
    LET spec == Default(kind, sent)
    IN  /\ object = NoObject
        /\ ValidateCreate(kind, spec)
        /\ object' = [kind |-> kind, deleting |-> FALSE, spec |-> spec,
                      finalizer |-> AddFinalizer(FALSE, finalizer)]
        /\ UNCHANGED pullSecret

\* The name of a PolicyServer is the same in every update of it.
Update(sent, finalizer) ==
    LET spec == Default(object.kind, sent)
    IN  /\ object.kind = "PolicyServer" => spec.longName = object.spec.longName
        /\ ValidateUpdate(object.kind, object.spec, spec)
        /\ object' = Stored([object EXCEPT !.spec = spec,
                                !.finalizer = AddFinalizer(object.deleting, finalizer)])
        /\ UNCHANGED pullSecret

UserUpdate ==
    /\ object # NoObject
    /\ \E sent \in Sent(object.kind), finalizer \in BOOLEAN : Update(sent, finalizer)

\* ValidateDelete accepts everything; without a finalizer the object is gone.
Delete ==
    /\ object # NoObject
    /\ object' = Stored([object EXCEPT !.deleting = TRUE])
    /\ UNCHANGED pullSecret

\* The update at the end of a reconciler's deletion, which changes nothing but
\* the finalizer.
RemoveFinalizer ==
    /\ object # NoObject
    /\ object.deleting
    /\ Update(object.spec, FALSE)

CreateSecret(type) ==
    /\ pullSecret = "none"
    /\ pullSecret' = type
    /\ UNCHANGED object

DeleteSecret ==
    /\ pullSecret # "none"
    /\ pullSecret' = "none"
    /\ UNCHANGED object

AdmissionNext ==
    \/ \E kind \in Kinds : \E sent \in Sent(kind), finalizer \in BOOLEAN :
           Create(kind, sent, finalizer)
    \/ UserUpdate
    \/ Delete
    \/ RemoveFinalizer
    \/ \E type \in {"dockerconfigjson", "other"} : CreateSecret(type)
    \/ DeleteSecret

AdmissionSpec == AdmissionInit /\ [][AdmissionNext]_admissionVars

\* The reconcilers retry the removal of a finalizer until it is done.
AdmissionFairSpec == AdmissionSpec /\ WF_admissionVars(RemoveFinalizer)

-----------------------------------------------------------------------------
(* Properties *)

\* The controller's own update of a policy, the removal of its finalizer, is
\* never refused by the controller's own webhook: whatever was let in, by
\* creation or by any sequence of updates, is let through once more.
FinalizerIsRemovable ==
    object.kind \in PolicyKinds =>
        ValidateUpdate(object.kind, object.spec, Default(object.kind, object.spec))

\* A policy stays on its PolicyServer and never goes back from protect to
\* monitor, through defaulting of omitted fields as well.  The reconcilers take
\* spec.policyServer for a constant of the policy.
PolicyKeepsServerAndMode ==
    [][object.kind \in PolicyKinds /\ object' # NoObject =>
           /\ object'.spec.server = object.spec.server
           /\ object.spec.mode = "protect" => object'.spec.mode = "protect"]_admissionVars

\* The reconcilers see every deletion: no sequence of updates leaves a live object
\* without the finalizer, so it leaves the API server only through them.
LiveHasFinalizer == object # NoObject /\ ~object.deleting => object.finalizer

\* A deleted object gets its finalizer removed.  The webhook validates the whole
\* PolicyServer on that update too, so for a PolicyServer this takes the image
\* pull secret that it names.
DeletionCompletes ==
    (object # NoObject /\ object.deleting)
        ~> \/ object = NoObject
           \/ /\ object.kind = "PolicyServer"
              /\ object.spec.usesPullSecret
              /\ ~ValidateImagePullSecret

\* policyserver_controller_test.go, of a deleted PolicyServer "with no assigned
\* policies": it "should get its finalizer removed".
ServerDeletionCompletes ==
    (object.kind = "PolicyServer" /\ object.deleting) ~> (object = NoObject)
=============================================================================
