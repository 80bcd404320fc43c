SPECIFICATION Spec
CONSTANTS
    Specs <- MCSpecs
    Options <- MCOptions
    PolicyLists <- MCPolicyLists
    Namespaces <- MCNamespaces
    SlowInformers <- MCSlowInformers
    MaxEdits = 2
    MaxFaults = 1
INVARIANTS
    ObjectsTypeOK
    MountedObjectsExist
    PodTemplateIsValid
    
    RolledOutTogether
    AtRestApplied
    EntriesAreUnderstood
    WebhooksAreAnswered
PROPERTIES
    StatusMeansApplied
CHECK_DEADLOCK FALSE
