--------------------------- MODULE AdmissionProofs ---------------------------
(***************************************************************************)
(* What the webhooks guarantee of every stored object, for all requests.   *)
(***************************************************************************)
EXTENDS Admission, TLAPS

Objects(kind) ==
    [kind : {kind}, deleting : BOOLEAN, finalizer : BOOLEAN,
     spec : Specs(kind, PolicyServerNames, Modes)]

\* What the validator of a policy requires of the new object alone.
ValidPolicy(kind, spec) ==
    /\ ValidatePolicyCreate(kind, spec)
    /\ kind \in Groups => /\ ValidatePolicyGroupMembers(spec)
                          /\ ValidatePolicyGroupExpressionField(spec)

\* Every stored policy passed a validator, that of its creation or that of its
\* last update, and every live object has the finalizer.
AdmissionInv ==
    /\ AdmissionTypeOK
    /\ object.kind \in PolicyKinds => ValidPolicy(object.kind, object.spec)
    /\ LiveHasFinalizer

\* A stored object is a record of its kind.
LEMMA ObjectShape ==
    ASSUME AdmissionTypeOK, object # NoObject
    PROVE  object.kind \in Kinds /\ object \in Objects(object.kind)
BY DEF AdmissionTypeOK, Objects

\* Defaulting fills in the fields that a user may leave out and changes nothing
\* else.
LEMMA DefaultShape ==
    ASSUME NEW kind \in Kinds, NEW sent \in Sent(kind)
    PROVE  /\ Default(kind, sent) \in Specs(kind, PolicyServerNames, Modes)
           /\ kind \in PolicyKinds /\ sent.server # "" /\ sent.mode # ""
                  => Default(kind, sent) = sent
<1>1. CASE kind = "PolicyServer"
  BY <1>1 DEF Default, Sent, Specs, PolicyKinds, Namespaced, Groups
<1>2. CASE kind \in Groups
  BY <1>2, AdmissionAssumption
     DEF Default, Sent, Specs, Groups, GroupSpecs, ServerOrDefault, Modes
<1>3. CASE kind # "PolicyServer" /\ kind \notin Groups
  BY <1>3, AdmissionAssumption
     DEF Default, Sent, Specs, PolicySpecs, ServerOrDefault, Modes
<1> QED BY <1>1, <1>2, <1>3

\* What is stored may be sent again, and defaulting leaves it alone.
LEMMA StoredIsDefaulted ==
    ASSUME NEW kind \in Kinds, NEW spec \in Specs(kind, PolicyServerNames, Modes)
    PROVE  spec \in Sent(kind) /\ Default(kind, spec) = spec
<1>1. spec \in Sent(kind)
  <2>1. CASE kind = "PolicyServer"
    BY <2>1 DEF Sent, Specs, Groups
  <2>2. CASE kind \in Groups
    BY <2>2 DEF Sent, Specs, GroupSpecs, Groups
  <2>3. CASE kind # "PolicyServer" /\ kind \notin Groups
    BY <2>3 DEF Sent, Specs, PolicySpecs
  <2> QED BY <2>1, <2>2, <2>3
<1>2. kind \in PolicyKinds => spec.server # "" /\ spec.mode # ""
  BY AdmissionAssumption
     DEF Specs, GroupSpecs, PolicySpecs, Modes, PolicyKinds, Namespaced, Groups
<1> QED BY <1>1, <1>2, DefaultShape DEF Default, Kinds

\* Both validators of a policy include what ValidPolicy says, and the one for
\* updates accepts a valid policy in place of itself.
LEMMA Validators ==
    ASSUME NEW kind \in PolicyKinds, NEW old, NEW new
    PROVE  /\ ValidateCreate(kind, new) => ValidPolicy(kind, new)
           /\ ValidateUpdate(kind, old, new) => ValidPolicy(kind, new)
           /\ ValidPolicy(kind, new) => ValidateUpdate(kind, new, new)
<1>1. kind # "PolicyServer"
  BY DEF PolicyKinds, Namespaced, Groups
<1> QED
  BY <1>1 DEF ValidateCreate, ValidateUpdate, ValidPolicy, ValidatePolicyCreate,
       ValidatePolicyUpdate, ValidatePolicyGroupCreate, ValidatePolicyGroupUpdate,
       ValidatePolicyServerField, ValidatePolicyModeField

\* Initially nothing is stored.
LEMMA AdmissionInitInv == AdmissionInit => AdmissionInv
BY DEF AdmissionInit, AdmissionInv, AdmissionTypeOK, LiveHasFinalizer, NoObject,
       PolicyKinds, Namespaced, Groups

\* A creation that the webhooks let through.
LEMMA CreateInv ==
    ASSUME AdmissionInv, NEW kind \in Kinds, NEW sent \in Sent(kind),
           NEW finalizer \in BOOLEAN, Create(kind, sent, finalizer)
    PROVE  AdmissionInv'
<1> DEFINE spec == Default(kind, sent)
<1>1. spec \in Specs(kind, PolicyServerNames, Modes)
  BY DefaultShape
<1> HIDE DEF spec
<1>2. /\ object' = [kind |-> kind, deleting |-> FALSE, spec |-> spec, finalizer |-> TRUE]
      /\ pullSecret' = pullSecret
      /\ ValidateCreate(kind, spec)
  BY DEF Create, AddFinalizer, spec
<1>3. object' \in Objects(kind)
  BY <1>1, <1>2 DEF Objects
<1>4. AdmissionTypeOK'
  BY <1>2, <1>3 DEF AdmissionInv, AdmissionTypeOK, Objects
<1>5. object'.kind \in PolicyKinds => ValidPolicy(object'.kind, object'.spec)
  BY <1>2, Validators
<1> QED BY <1>2, <1>4, <1>5 DEF AdmissionInv, LiveHasFinalizer

\* What an update that is let through stores, and that a policy keeps its
\* PolicyServer and protects on.
LEMMA UpdateInv ==
    ASSUME AdmissionInv, object # NoObject, NEW sent \in Sent(object.kind),
           NEW finalizer \in BOOLEAN, Update(sent, finalizer)
    PROVE  /\ AdmissionInv'
           /\ object.kind \in PolicyKinds /\ object' # NoObject =>
                  /\ object'.spec.server = object.spec.server
                  /\ object.spec.mode = "protect" => object'.spec.mode = "protect"
<1> DEFINE spec == Default(object.kind, sent)
           new == [object EXCEPT !.spec = spec,
                                 !.finalizer = AddFinalizer(object.deleting, finalizer)]
<1>1. object.kind \in Kinds /\ object \in Objects(object.kind)
  BY ObjectShape DEF AdmissionInv
<1>2. spec \in Specs(object.kind, PolicyServerNames, Modes)
  BY <1>1, DefaultShape
<1> HIDE DEF spec
<1>3. /\ object' = Stored(new)
      /\ pullSecret' = pullSecret
      /\ ValidateUpdate(object.kind, object.spec, spec)
  BY DEF Update, spec
<1>4. /\ new \in Objects(object.kind)
      /\ new.kind = object.kind /\ new.spec = spec
      /\ ~new.deleting => new.finalizer
  BY <1>1, <1>2 DEF Objects, AddFinalizer
<1> HIDE DEF new
<1>5. CASE object' = NoObject
  BY <1>5, <1>3 DEF AdmissionInv, AdmissionTypeOK, LiveHasFinalizer, NoObject,
       PolicyKinds, Namespaced, Groups
<1>6. CASE object' = new
  <2>1. AdmissionTypeOK'
    BY <1>1, <1>3, <1>4, <1>6 DEF AdmissionInv, AdmissionTypeOK, Objects
  <2>2. object'.kind \in PolicyKinds => ValidPolicy(object'.kind, object'.spec)
    BY <1>3, <1>4, <1>6, Validators
  <2>3. LiveHasFinalizer'
    BY <1>4, <1>6 DEF LiveHasFinalizer
  <2>4. object.kind \in PolicyKinds =>
            /\ spec.server = object.spec.server
            /\ object.spec.mode = "protect" => spec.mode # "monitor"
    BY <1>3 DEF ValidateUpdate, ValidatePolicyGroupUpdate, ValidatePolicyUpdate,
         ValidatePolicyServerField, ValidatePolicyModeField, PolicyKinds, Namespaced, Groups
  <2>5. object.kind \in PolicyKinds => spec.mode \in Modes
    BY <1>2 DEF Specs, GroupSpecs, PolicySpecs, PolicyKinds, Namespaced, Groups
  <2> QED BY <1>4, <1>6, <2>1, <2>2, <2>3, <2>4, <2>5 DEF AdmissionInv, Modes
<1> QED BY <1>3, <1>5, <1>6 DEF Stored

\* The removal of the finalizer sends what is stored.
LEMMA RemovalIsSent ==
    ASSUME AdmissionInv, object # NoObject
    PROVE  object.spec \in Sent(object.kind)
BY ObjectShape, StoredIsDefaulted DEF AdmissionInv, Objects

\* A step preserves the invariant and the fields that are not to change.
LEMMA AdmissionNextInv ==
    ASSUME AdmissionInv, [AdmissionNext]_admissionVars
    PROVE  /\ AdmissionInv'
           /\ object.kind \in PolicyKinds /\ object' # NoObject =>
                  /\ object'.spec.server = object.spec.server
                  /\ object.spec.mode = "protect" => object'.spec.mode = "protect"
<1>1. CASE UNCHANGED object /\ pullSecret' \in {"none", "dockerconfigjson", "other"}
  BY <1>1 DEF AdmissionInv, AdmissionTypeOK, LiveHasFinalizer
<1>2. ASSUME NEW kind \in Kinds, NEW sent \in Sent(kind), NEW finalizer \in BOOLEAN,
             Create(kind, sent, finalizer)
      PROVE  AdmissionInv' /\ object.kind \notin PolicyKinds
  BY <1>2, CreateInv DEF Create, NoObject, PolicyKinds, Namespaced, Groups
<1>3. CASE UserUpdate
  BY <1>3, UpdateInv DEF UserUpdate
<1>4. CASE RemoveFinalizer
  BY <1>4, UpdateInv, RemovalIsSent DEF RemoveFinalizer
<1>5. CASE Delete
  <2> DEFINE new == [object EXCEPT !.deleting = TRUE]
  <2>1. object.kind \in Kinds /\ object \in Objects(object.kind) /\ object # NoObject
    BY <1>5, ObjectShape DEF Delete, AdmissionInv
  <2>2. new \in Objects(object.kind) /\ new.kind = object.kind /\ new.spec = object.spec
          /\ new.deleting
    BY <2>1 DEF Objects
  <2>3. (object' = new \/ object' = NoObject) /\ pullSecret' = pullSecret
    BY <1>5 DEF Delete, Stored
  <2> HIDE DEF new
  <2>4. CASE object' = NoObject
    BY <2>3, <2>4 DEF AdmissionInv, AdmissionTypeOK, LiveHasFinalizer, NoObject,
         PolicyKinds, Namespaced, Groups
  <2>5. CASE object' = new
    BY <2>1, <2>2, <2>3, <2>5 DEF AdmissionInv, AdmissionTypeOK, Objects, LiveHasFinalizer
  <2> QED BY <2>3, <2>4, <2>5
<1>6. (\E type \in {"dockerconfigjson", "other"} : CreateSecret(type)) \/ DeleteSecret
         \/ UNCHANGED admissionVars
      => UNCHANGED object /\ pullSecret' \in {"none", "dockerconfigjson", "other"}
  BY DEF CreateSecret, DeleteSecret, admissionVars, AdmissionInv, AdmissionTypeOK
<1> QED BY <1>1, <1>2, <1>3, <1>4, <1>5, <1>6 DEF AdmissionNext

\* Every reachable state has typed, validated objects, and live ones have the
\* finalizer.
THEOREM AdmissionInvHolds == AdmissionSpec => []AdmissionInv
BY AdmissionInitInv, AdmissionNextInv, PTL DEF AdmissionSpec

\* What passes the defaulting and validating webhooks is an object of its kind.
THEOREM AdmissionTypeCorrect == AdmissionSpec => []AdmissionTypeOK
<1>1. AdmissionInv => AdmissionTypeOK
  BY DEF AdmissionInv
<1> QED BY <1>1, AdmissionInvHolds, PTL

\* No webhook of the controller refuses the controller's own removal of the
\* finalizer of a policy, whatever policies users write.
THEOREM PolicyFinalizerIsRemovable == AdmissionSpec => []FinalizerIsRemovable
<1>1. AdmissionInv => FinalizerIsRemovable
  <2> SUFFICES ASSUME AdmissionInv, object.kind \in PolicyKinds
               PROVE  ValidateUpdate(object.kind, object.spec,
                                     Default(object.kind, object.spec))
    BY DEF FinalizerIsRemovable
  <2>1. object # NoObject
    BY DEF NoObject, PolicyKinds, Namespaced, Groups
  <2>2. Default(object.kind, object.spec) = object.spec
    BY <2>1, ObjectShape, StoredIsDefaulted DEF AdmissionInv, Objects
  <2> QED BY <2>2, Validators DEF AdmissionInv
<1> QED BY <1>1, AdmissionInvHolds, PTL

\* A live object has the finalizer, whatever finalizers users send.
THEOREM LiveObjectsHaveFinalizer == AdmissionSpec => []LiveHasFinalizer
<1>1. AdmissionInv => LiveHasFinalizer
  BY DEF AdmissionInv
<1> QED BY <1>1, AdmissionInvHolds, PTL

\* A policy keeps its PolicyServer and never stops protecting.
THEOREM PolicyKeeps == AdmissionSpec => PolicyKeepsServerAndMode
<1>1. AdmissionInv /\ [AdmissionNext]_admissionVars =>
          [object.kind \in PolicyKinds /\ object' # NoObject =>
              /\ object'.spec.server = object.spec.server
              /\ object.spec.mode = "protect" => object'.spec.mode = "protect"]_admissionVars
  BY AdmissionNextInv
<1> QED BY <1>1, AdmissionInvHolds, PTL DEF AdmissionSpec, PolicyKeepsServerAndMode
=============================================================================
