SPECIFICATION Spec
CONSTANTS
    p1 = p1
    s1 = s1
    Policies = {p1}
    Servers = {s1}
    ServerOf <- MCServerOf
    Namespaced = {p1}
    MutatingValues = {FALSE}
    MaxGen = 1
    MaxServer = 1
    Lagging = {"policy", "server"}
    Faults = {"crash", "apiError", "podRestart", "resync"}
INVARIANT NoOrphanWebhook
INVARIANT RegisteredIsConfigured
INVARIANT EveryPodServes
INVARIANT ActiveIsRegistered
CHECK_DEADLOCK FALSE
