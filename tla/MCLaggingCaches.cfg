SPECIFICATION Spec
CONSTANTS
    p1 = p1
    s1 = s1
    Policies = {p1}
    Servers = {s1}
    ServerOf <- MCServerOf
    Namespaced = {p1}
    MutatingValues = {FALSE}
    MaxGen = 1
    MaxServer = 1
    Lagging = {"policy", "server", "configMap", "pods"}
    Faults = {"webhookDeleted"}
INVARIANT TypeOK
INVARIANT NoOrphanWebhook
INVARIANT RegisteredIsConfigured
INVARIANT EveryPodServes
PROPERTY ServerRemovedLast
PROPERTY KeepsPromise
CHECK_DEADLOCK FALSE
