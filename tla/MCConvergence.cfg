SPECIFICATION FairSpec
CONSTANTS
    p1 = p1
    s1 = s1
    Policies = {p1}
    Servers = {s1}
    ServerOf <- MCServerOf
    Namespaced = {p1}
    MutatingValues = {TRUE}
    MaxGen = 2
    MaxServer = 1
    Lagging = {}
    Faults = {}
PROPERTY Convergence
CHECK_DEADLOCK FALSE
