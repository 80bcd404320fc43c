SPECIFICATION Spec
CONSTANTS
    Specs <- MCSpecs
    Options <- MCOptions
    PolicyLists <- MCLabelledLists
    Namespaces <- MCNamespaces
    SlowInformers <- MCNoneSlow
    MaxEdits = 0
    MaxFaults = 0
INVARIANT SelectorIsHonoured
CHECK_DEADLOCK FALSE
