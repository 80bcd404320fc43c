SPECIFICATION Spec
CONSTANTS
    p1 = p1
    s1 = s1
    Policies = {p1}
    Servers = {s1}
    ServerOf <- MCServerOf
    Namespaced = {p1}
    MutatingValues = {FALSE, TRUE}
    MaxGen = 2
    MaxServer = 1
    Lagging = {}
    Faults = {"toggle"}
INVARIANT NoOrphanWebhook
CHECK_DEADLOCK FALSE
