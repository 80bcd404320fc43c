CONSTANTS
    PolicyServerNames = {"default", "other"}
    DefaultPolicyServer = "default"
    RuleLists <- MCRuleLists
    ConditionLists <- MCConditionLists
    MemberSets <- MCMemberSets
    Expressions <- MCExpressions
    maxMatchConditionsCount = 2
    QualifiedNames = {"a", "b", "c"}
    Identifiers = {"m", "n", "in"}
    celReservedSymbols = {"in"}
    Resources = {"cpu"}
    Quantities <- MCQuantities

SPECIFICATION AdmissionFairSpec
INVARIANTS
    AdmissionTypeOK
    FinalizerIsRemovable
    LiveHasFinalizer
PROPERTIES
    PolicyKeepsServerAndMode
    DeletionCompletes
