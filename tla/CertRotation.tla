---------------------------- MODULE CertRotation ----------------------------
(***************************************************************************)
(* Rotation of the CA and of the serving certificates: the CertReconciler, *)
(* the policy and PolicyServer reconcilers where they use the CA secret,   *)
(* and the servers that load what they are given.                          *)
(*                                                                         *)
(* Time is counted in ticks of the CertReconciler (tickerDuration).  A CA  *)
(* certificate is identified by the time it expires at: a new one is only  *)
(* made when the one before it is about to expire.  0 stands for none.     *)
(***************************************************************************)
EXTENDS Naturals

CONSTANTS
    PolicyServers,        \* PolicyServer names, each with a serving secret
    OwnWebhooks,          \* the controller's webhook configurations
    PolicyWebhooks,       \* those the policy reconcilers register
    PolicyServerOf,       \* the PolicyServer each of the latter points to
    CACertExpiration,     \* validity of a new CA certificate
    ServerCertExpiration, \* validity of a new serving certificate
    CertLookahead,        \* how long before they expire they are replaced
    MaxMissed,            \* bound: ticks between two complete reconciliations
    MaxTime,              \* bound: ticks of a behaviour
    CertFaults            \* which of the faults below may happen

CertFaultKinds ==
    {"certFails",      \* a write of a secret fails, or the controller stops there
     "injectFails",    \* the same while webhook configurations are patched
     "deletedListed",  \* a webhook goes away after it was listed for a patch
     "lag"}            \* the caches are behind the API server

controller == "controller"
Servers == PolicyServers \cup {controller}
Webhooks == OwnWebhooks \cup PolicyWebhooks

\* As in constants.go, a CA lives for at least two look-aheads and a serving
\* certificate for at least one.  A reconciliation completes at least once per
\* look-ahead.
ASSUME CertAssumption ==
    /\ controller \notin PolicyServers
    /\ OwnWebhooks \cap PolicyWebhooks = {}
    /\ PolicyServerOf \in [PolicyWebhooks -> PolicyServers]
    /\ CertLookahead \in Nat \ {0}
    /\ CACertExpiration \in Nat /\ CACertExpiration >= 2 * CertLookahead
    /\ ServerCertExpiration \in Nat /\ ServerCertExpiration >= CertLookahead
    /\ MaxMissed \in Nat /\ MaxMissed <= CertLookahead
    /\ MaxTime \in Nat
    /\ CertFaults \subseteq CertFaultKinds

VARIABLES
    now,
    missed,        \* ticks since a reconciliation was complete
    caSecret,      \* secret kubewarden-ca
    caSecretCache,
    bundle,        \* CABundle of the webhook configurations, {} without one
    serverSecret,  \* serving certificate secrets
    loaded,        \* the certificate each server presents
    cr             \* the CertReconciler

secretVars == <<caSecret, caSecretCache>>
certVars == <<now, missed, secretVars, bundle, serverSecret, loaded, cr>>

CASecret == [cert : Nat, old : Nat]
ServingCert == [ca : Nat, notAfter : Nat]
NoCert == [ca |-> 0, notAfter |-> 0]

\* pc is the next part of reconcile; webhooks are the configurations that have
\* to be patched before it, servers the secrets left in the last part.
CertReconciler == [pc : {"idle", "oldCA", "webhookServer", "servers"},
                   secret : CASecret, webhooks : SUBSET Webhooks,
                   servers : SUBSET PolicyServers]
IdleCert == [pc |-> "idle", secret |-> [cert |-> 0, old |-> 0],
             webhooks |-> {}, servers |-> {}]

CertTypeOK ==
    /\ now \in Nat
    /\ missed \in 0..MaxMissed
    /\ caSecret \in CASecret
    /\ caSecretCache \in CASecret
    /\ bundle \in [Webhooks -> SUBSET Nat]
    /\ serverSecret \in [Servers -> ServingCert]
    /\ loaded \in [Servers -> ServingCert]
    /\ cr \in CertReconciler

\* VerifyCA and VerifyCert: the chain is valid at the given time, inclusive.
VerifyCA(ca, at) == at <= ca
VerifyCert(cert, pool, at) ==
    /\ cert.ca \in pool
    /\ at <= cert.ca
    /\ at <= cert.notAfter

GenerateCA == now + CACertExpiration
GenerateCert(ca) == [ca |-> ca, notAfter |-> now + ServerCertExpiration]

\* The state after installation: a CA, and the certificate of the webhook
\* server, which the controller's webhook configurations trust.
CertInit ==
    /\ now = 0
    /\ missed = 0
    /\ caSecret = [cert |-> CACertExpiration, old |-> 0]
    /\ caSecretCache = caSecret
    /\ bundle = [w \in Webhooks |-> IF w \in OwnWebhooks THEN {caSecret.cert} ELSE {}]
    /\ serverSecret = [s \in Servers |->
           IF s = controller THEN GenerateCert(caSecret.cert) ELSE NoCert]
    /\ loaded = serverSecret
    /\ cr = IdleCert

-----------------------------------------------------------------------------
(* The CertReconciler.  An error ends the reconciliation until next tick.  *)

BeginCert(pc, secret, webhooks) ==
    cr' = [pc |-> pc, secret |-> secret, webhooks |-> webhooks, servers |-> {}]

\* The webhook configurations with the kubewarden label.  The validating and
\* the mutating ones are listed one after the other; here they are one list.
ListedWebhooks == {w \in Webhooks : bundle[w] # {}}

\* reconcileCARoot of a CA that is valid for long enough.  Nobody else writes
\* the secret, so twelve hours after the last tick its cached copy is current.
KeepCA ==
    /\ cr.pc = "idle"
    /\ caSecretCache = caSecret
    /\ VerifyCA(caSecretCache.cert, now + CertLookahead)
    /\ BeginCert("oldCA", caSecretCache, {})
    /\ UNCHANGED <<now, missed, secretVars, bundle, serverSecret, loaded>>

\* The secret is updated, then the webhook configurations are listed.
RotateCA ==
    /\ cr.pc = "idle"
    /\ caSecretCache = caSecret
    /\ ~VerifyCA(caSecretCache.cert, now + CertLookahead)
    /\ caSecret' = [cert |-> GenerateCA, old |-> caSecretCache.cert]
    /\ BeginCert("oldCA", caSecret', ListedWebhooks)
    /\ UNCHANGED <<now, missed, caSecretCache, bundle, serverSecret, loaded>>

InjectedWithoutOld == {cr.secret.cert}

\* The new and the old CA after a rotation, the new one after the old expired.
Injected == {cr.secret.cert, cr.secret.old} \ {0}

\* reconcileWebhookConfigurations, one configuration at a time.
InjectBundle(w) ==
    /\ w \in cr.webhooks
    /\ bundle[w] # {}
    /\ bundle' = [bundle EXCEPT ![w] = Injected]
    /\ cr' = [cr EXCEPT !.webhooks = @ \ {w}]
    /\ UNCHANGED <<now, missed, secretVars, serverSecret, loaded>>

\* The first patch that fails, be it because its configuration is gone, ends
\* the reconciliation.
InjectFails(w) ==
    /\ w \in cr.webhooks
    /\ bundle[w] = {} \/ "injectFails" \in CertFaults
    /\ cr' = IdleCert
    /\ UNCHANGED <<now, missed, secretVars, bundle, serverSecret, loaded>>

KeepOldCA ==
    /\ cr.pc = "oldCA" /\ cr.webhooks = {}
    /\ cr.secret.old # 0 => VerifyCA(cr.secret.old, now)
    /\ BeginCert("webhookServer", cr.secret, {})
    /\ UNCHANGED <<now, missed, secretVars, bundle, serverSecret, loaded>>

RemoveOldCA ==
    /\ cr.pc = "oldCA" /\ cr.webhooks = {}
    /\ cr.secret.old # 0
    /\ ~VerifyCA(cr.secret.old, now)
    /\ caSecret' = [cr.secret EXCEPT !.old = 0]
    /\ BeginCert("webhookServer", caSecret', ListedWebhooks)
    /\ UNCHANGED <<now, missed, caSecretCache, bundle, serverSecret, loaded>>

\* reconcileServerCert: a certificate that the present CA does not vouch for
\* until the end of the look-ahead is replaced.
ReconcileServerCert(s) ==
    IF VerifyCert(serverSecret[s], {cr.secret.cert}, now + CertLookahead)
    THEN serverSecret
    ELSE [serverSecret EXCEPT ![s] = GenerateCert(cr.secret.cert)]

AllServerSecrets == {s \in Servers : serverSecret[s] # NoCert}

\* The secrets with the labels of a PolicyServer.
ServerSecrets == {s \in PolicyServers : serverSecret[s] # NoCert}

\* The webhook server comes first; then the secrets of the PolicyServers are
\* listed.
ReconcileWebhookServerCert ==
    /\ cr.pc = "webhookServer" /\ cr.webhooks = {}
    /\ serverSecret' = ReconcileServerCert(controller)
    /\ cr' = [cr EXCEPT !.pc = "servers", !.servers = ServerSecrets]
    /\ UNCHANGED <<now, missed, secretVars, bundle, loaded>>

ReconcilePolicyServerCert(s) ==
    /\ s \in cr.servers
    /\ serverSecret[s] # NoCert
    /\ serverSecret' = ReconcileServerCert(s)
    /\ cr' = [cr EXCEPT !.servers = @ \ {s}]
    /\ UNCHANGED <<now, missed, secretVars, bundle, loaded>>

\* A failed write, a secret that is gone, or a restart.
CertFails ==
    /\ cr.pc # "idle" /\ cr.webhooks = {}
    /\ \/ "certFails" \in CertFaults
       \/ \E s \in cr.servers : serverSecret[s] = NoCert
    /\ cr' = IdleCert
    /\ UNCHANGED <<now, missed, secretVars, bundle, serverSecret, loaded>>

CertDone ==
    /\ cr.pc = "servers" /\ cr.servers = {}
    /\ missed' = 0
    /\ cr' = IdleCert
    /\ UNCHANGED <<now, secretVars, bundle, serverSecret, loaded>>

-----------------------------------------------------------------------------
(* The other reconcilers, which read the cached CA secret.                 *)

BundleOnCreate(w) == IF bundle[w] = {} THEN {caSecretCache.cert} ELSE bundle[w]

\* The bundle of a policy's webhook is the present CA alone.
PolicyBundle(w) == {caSecretCache.cert}

\* reconcileValidatingWebhookConfiguration and its mutating counterpart.
\* A policy is registered once the pods of its PolicyServer are ready.
ReconcileBundle(w) ==
    /\ loaded[PolicyServerOf[w]] # NoCert
    /\ bundle' = [bundle EXCEPT ![w] = PolicyBundle(w)]
    /\ UNCHANGED <<now, missed, secretVars, serverSecret, loaded, cr>>

UnregisterWebhook(w) ==
    /\ w \in cr.webhooks => "deletedListed" \in CertFaults
    /\ bundle' = [bundle EXCEPT ![w] = {}]
    /\ UNCHANGED <<now, missed, secretVars, serverSecret, loaded, cr>>

\* reconcilePolicyServerCertSecret: only a secret without a certificate gets one.
CreateServerCert(s) ==
    /\ serverSecret[s] = NoCert
    /\ serverSecret' = [serverSecret EXCEPT ![s] = GenerateCert(caSecretCache.cert)]
    /\ UNCHANGED <<now, missed, secretVars, bundle, loaded, cr>>

\* A PolicyServer goes after its policies, and its secret and pods with it.
DeletePolicyServer(s) ==
    /\ \A w \in PolicyWebhooks : PolicyServerOf[w] = s => bundle[w] = {}
    /\ serverSecret' = [serverSecret EXCEPT ![s] = NoCert]
    /\ loaded' = [loaded EXCEPT ![s] = NoCert]
    /\ UNCHANGED <<now, missed, secretVars, bundle, cr>>

-----------------------------------------------------------------------------
(* Informers, servers and the clock *)

SyncSecret ==
    /\ caSecretCache' = caSecret
    /\ UNCHANGED <<now, missed, caSecret, bundle, serverSecret, loaded, cr>>

\* The mounted secret is refreshed and the server reloads it.
LoadCert(s) ==
    /\ loaded' = [loaded EXCEPT ![s] = serverSecret[s]]
    /\ UNCHANGED <<now, missed, secretVars, bundle, serverSecret, cr>>

\* Refreshing caches and mounted secrets, and a reconciliation, take seconds
\* to minutes; a tick is twelve hours.
Tick ==
    /\ now < MaxTime
    /\ missed < MaxMissed
    /\ cr.pc = "idle"
    /\ caSecretCache = caSecret
    /\ loaded = serverSecret
    /\ now' = now + 1
    /\ missed' = missed + 1
    /\ UNCHANGED <<secretVars, bundle, serverSecret, loaded, cr>>

Informed == "lag" \in CertFaults \/ caSecretCache = caSecret

Reconcile ==
    \/ KeepCA \/ RotateCA \/ KeepOldCA \/ RemoveOldCA
    \/ ReconcileWebhookServerCert \/ CertFails \/ CertDone
    \/ \E w \in Webhooks : InjectBundle(w) \/ InjectFails(w)
    \/ \E s \in PolicyServers : ReconcilePolicyServerCert(s)

CertNext ==
    \/ SyncSecret
    \/ /\ Informed
       /\ \/ Reconcile
          \/ \E w \in PolicyWebhooks : ReconcileBundle(w) \/ UnregisterWebhook(w)
          \/ \E s \in PolicyServers : CreateServerCert(s) \/ DeletePolicyServer(s)
          \/ \E s \in Servers : LoadCert(s)
          \/ Tick

CertSpec == CertInit /\ [][CertNext]_certVars

\* Informers deliver, mounted secrets are refreshed, policies are resynced, the
\* ticker goes on, and a write that is tried again and again succeeds.
CertFairSpec ==
    /\ CertSpec
    /\ WF_certVars(SyncSecret)
    /\ \A s \in Servers : SF_certVars(Informed /\ LoadCert(s))
    /\ \A w \in PolicyWebhooks : SF_certVars(Informed /\ ReconcileBundle(w))
    /\ SF_certVars(Informed /\ (KeepCA \/ RotateCA))
    /\ SF_certVars(Informed /\ (KeepOldCA \/ RemoveOldCA))
    /\ SF_certVars(Informed /\ ReconcileWebhookServerCert)
    /\ SF_certVars(Informed /\ CertDone)
    /\ \A w \in Webhooks : SF_certVars(Informed /\ InjectBundle(w))
    /\ \A s \in PolicyServers : SF_certVars(Informed /\ ReconcilePolicyServerCert(s))

-----------------------------------------------------------------------------
(* Properties *)

ServerOf(w) == IF w \in OwnWebhooks THEN controller ELSE PolicyServerOf[w]

\* The API server can call the webhook: the certificate the server presents is
\* valid now under the bundle of the configuration.
Trusted(w) == VerifyCert(loaded[ServerOf(w)], bundle[w], now)

\* The configuration holds the present CA, or is about to be given it in
\* exchange for the one before.
FollowsRotation(w) ==
    \/ caSecret.cert \in bundle[w]
    \/ w \in cr.webhooks /\ caSecret.old \in bundle[w]

\* Whichever of the old and the new bundle meets the old and the new serving
\* certificate during a rotation, the controller's own webhooks can be called,
\* as long as the injection of the new CA was not cut short.
InjectedWebhooksTrusted == \A w \in OwnWebhooks : FollowsRotation(w) => Trusted(w)

\* Every rotation injects the bundle of old and new CA into the webhook
\* configurations, so the controller's own webhooks can be called at any time.
OwnWebhooksTrusted == \A w \in OwnWebhooks : Trusted(w)

\* A policy's webhook may be called in vain during a rotation, since the policy
\* reconciler replaces the bundle of old and new CA by the new CA alone, but it
\* does not stay that way.
PolicyTrustReturns == \A w \in PolicyWebhooks : []<>(bundle[w] = {} \/ Trusted(w))
=============================================================================
