SPECIFICATION CertFairSpec
CONSTANTS
    s1 = s1
    w1 = w1
    o1 = o1
    PolicyServers = {s1}
    OwnWebhooks = {o1}
    PolicyWebhooks = {w1}
    PolicyServerOf <- MCPolicyServerOf
    CACertExpiration = 4
    ServerCertExpiration = 3
    CertLookahead = 2
    MaxMissed = 2
    MaxTime = 6
    CertFaults = {"certFails", "injectFails", "deletedListed", "lag"}
INVARIANT CertTypeOK
INVARIANT InjectedWebhooksTrusted
PROPERTY PolicyTrustReturns
