------------------------- MODULE CertRotationProofs -------------------------
(***************************************************************************)
(* Proofs about CertRotation: the controller's own webhooks stay callable  *)
(* through any number of rotations, for any validity periods, look-ahead   *)
(* and rate of missed ticks allowed by CertAssumption.                     *)
(*                                                                         *)
(* The argument is about time.  A complete reconciliation leaves the CA    *)
(* and the serving certificate valid for one look-ahead, and the next one  *)
(* completes before that is over.  So at a rotation the server still       *)
(* presents a certificate of the CA that becomes the old one (Secret), and *)
(* when the old CA has expired it no longer does (Presented).              *)
(***************************************************************************)
EXTENDS CertRotation, TLAPS

serving == serverSecret[controller]
presented == loaded[controller]

\* What the CertReconciler has established by the time it gets to each part.
Progress ==
    /\ cr.pc = "idle" => cr = IdleCert
    /\ cr.pc # "idle" => /\ cr.secret = caSecret
                         /\ now + CertLookahead <= caSecret.cert
    /\ cr.pc = "oldCA" /\ cr.webhooks # {} => serving.ca = caSecret.old
    /\ cr.pc = "webhookServer" /\ cr.webhooks # {} => caSecret.old = 0
    /\ cr.pc = "servers" => /\ cr.webhooks = {}
                            /\ serving.ca = caSecret.cert
                            /\ now + CertLookahead <= serving.notAfter

\* The serving certificate in the secret: verified for a look-ahead when a
\* reconciliation was last complete.  While the old CA signed it, the rotation
\* is not longer ago than that.
Secret ==
    /\ caSecret.old < caSecret.cert
    /\ serving.ca \in {caSecret.cert, caSecret.old} \ {0}
    /\ now + CertLookahead <= serving.ca + missed
    /\ now + CertLookahead <= serving.notAfter + missed
    /\ serving.ca # caSecret.cert =>
           /\ presented = serving
           /\ now + CACertExpiration <= caSecret.cert + missed

\* The certificate the webhook server presents is valid; it differs from the
\* secret only after a reconciliation since the last tick.
Presented ==
    /\ presented.ca \in {caSecret.cert, caSecret.old} \ {0}
    /\ now <= presented.ca
    /\ now <= presented.notAfter
    /\ presented # serving => now + CertLookahead <= caSecret.cert

Bundles ==
    \A w \in OwnWebhooks :
        /\ \A ca \in bundle[w] : 0 < ca /\ ca <= caSecret.cert
        /\ FollowsRotation(w) => presented.ca \in bundle[w]

Rotation == Progress /\ Secret /\ Presented /\ Bundles

CertInv == CertTypeOK /\ Rotation

\* Without the two faults that cut an injection short, every configuration of
\* the controller follows the rotation and none of those listed is gone.
NoneCutShort == CertFaults \cap {"injectFails", "deletedListed"} = {}
Following ==
    /\ \A w \in OwnWebhooks : FollowsRotation(w) /\ bundle[w] # {}
    /\ \A w \in cr.webhooks : bundle[w] # {}

-----------------------------------------------------------------------------
(* Types *)

USE DEF secretVars, certVars

\* The controller starts with certificates of the right shape.
LEMMA CertInitTypeOK == CertInit => CertTypeOK
  BY CertAssumption DEF CertInit, CertTypeOK, CASecret, ServingCert,
     CertReconciler, IdleCert, NoCert, GenerateCert, Servers, Webhooks

\* A server secret changes to a serving certificate, whichever it is.
LEMMA ServerCertType ==
  ASSUME CertTypeOK, NEW s \in Servers
  PROVE  /\ ReconcileServerCert(s) \in [Servers -> ServingCert]
         /\ GenerateCert(caSecretCache.cert) \in ServingCert
         /\ NoCert \in ServingCert
  BY CertAssumption DEF CertTypeOK, ReconcileServerCert, GenerateCert, ServingCert,
     CASecret, CertReconciler, NoCert

\* Every step keeps the shape; the list of secrets to renew holds PolicyServers.
LEMMA CertNextTypeOK == CertTypeOK /\ [CertNext]_certVars => CertTypeOK'
<1> SUFFICES ASSUME CertTypeOK, [CertNext]_certVars PROVE CertTypeOK'
  OBVIOUS
<1> USE CertAssumption DEF CertTypeOK
<1>1. CASE SyncSecret
  BY <1>1 DEF SyncSecret
<1>2. CASE Tick
  BY <1>2 DEF Tick
<1>3. CASE KeepCA
  BY <1>3 DEF KeepCA, BeginCert, CertReconciler, CASecret
<1>4. CASE RotateCA
  BY <1>4 DEF RotateCA, BeginCert, CertReconciler, CASecret, GenerateCA, ListedWebhooks
<1>5. CASE KeepOldCA
  BY <1>5 DEF KeepOldCA, BeginCert, CertReconciler
<1>6. CASE RemoveOldCA
  BY <1>6 DEF RemoveOldCA, BeginCert, CertReconciler, CASecret, ListedWebhooks
<1>7. CASE ReconcileWebhookServerCert
  BY <1>7, ServerCertType DEF ReconcileWebhookServerCert, CertReconciler, ServerSecrets, Servers
<1>8. CASE CertFails
  BY <1>8 DEF CertFails, IdleCert, CertReconciler, CASecret
<1>9. CASE CertDone
  BY <1>9 DEF CertDone, IdleCert, CertReconciler, CASecret
<1>10. ASSUME NEW w \in Webhooks, InjectBundle(w) PROVE CertTypeOK'
  BY <1>10 DEF InjectBundle, Injected, CertReconciler, CASecret
<1>11. ASSUME NEW w \in Webhooks, InjectFails(w) PROVE CertTypeOK'
  BY <1>11 DEF InjectFails, IdleCert, CertReconciler, CASecret
<1>12. ASSUME NEW w \in PolicyWebhooks, ReconcileBundle(w) PROVE CertTypeOK'
  BY <1>12 DEF ReconcileBundle, PolicyBundle, CASecret, Webhooks
<1>13. ASSUME NEW w \in PolicyWebhooks, UnregisterWebhook(w) PROVE CertTypeOK'
  BY <1>13 DEF UnregisterWebhook, Webhooks
<1>14. ASSUME NEW s \in PolicyServers, ReconcilePolicyServerCert(s) PROVE CertTypeOK'
  BY <1>14, ServerCertType DEF ReconcilePolicyServerCert, CertReconciler, Servers
<1>15. ASSUME NEW s \in PolicyServers, CreateServerCert(s) PROVE CertTypeOK'
  BY <1>15, ServerCertType DEF CreateServerCert, Servers
<1>16. ASSUME NEW s \in PolicyServers, DeletePolicyServer(s) PROVE CertTypeOK'
  BY <1>16, ServerCertType DEF DeletePolicyServer, Servers
<1>17. ASSUME NEW s \in Servers, LoadCert(s) PROVE CertTypeOK'
  BY <1>17 DEF LoadCert
<1>18. CASE UNCHANGED certVars
  BY <1>18
<1>. QED
  BY <1>1, <1>2, <1>3, <1>4, <1>5, <1>6, <1>7, <1>8, <1>9, <1>10, <1>11, <1>12, <1>13, <1>14, <1>15, <1>16, <1>17, <1>18 DEF CertNext, Reconcile

-----------------------------------------------------------------------------
(* The invariant *)

\* At the start no rotation is under way.
LEMMA CertInitRotation == CertInit => Rotation
  BY CertAssumption DEF CertInit, Rotation, Progress, Secret, Presented, Bundles,
     IdleCert, GenerateCert, Servers, Webhooks, FollowsRotation, serving, presented

\* Steps that have nothing to do with the webhook server and the controller's
\* own configurations.
LEMMA RotationFrame ==
  ASSUME Rotation,
         UNCHANGED <<now, missed, caSecret, cr, serving, presented>>,
         \A w \in OwnWebhooks : bundle'[w] = bundle[w]
  PROVE  Rotation'
  BY DEF Rotation, Progress, Secret, Presented, Bundles, FollowsRotation

\* A reconciliation that ends early.
LEMMA RotationEnds ==
  ASSUME Rotation, cr' = IdleCert,
         UNCHANGED <<now, missed, caSecret, bundle, serverSecret, loaded>>
  PROVE  Rotation'
<1>1. serving' = serving /\ presented' = presented
  BY DEF serving, presented
<1>2. cr'.pc = "idle" /\ cr'.webhooks = {}
  BY DEF IdleCert
<1>. QED
  BY <1>1, <1>2 DEF Rotation, Progress, Secret, Presented, Bundles, FollowsRotation

\* Every step of the certificate reconciler, of the policy reconciler and of the
\* clock keeps the order of a rotation.
LEMMA CertNextRotation ==
  CertTypeOK /\ CertTypeOK' /\ Rotation /\ [CertNext]_certVars => Rotation'
<1> SUFFICES ASSUME CertTypeOK, CertTypeOK', Rotation, [CertNext]_certVars
             PROVE  Rotation'
  OBVIOUS
<1> USE CertAssumption
<1>t. /\ now \in Nat /\ missed \in Nat /\ missed <= MaxMissed
      /\ caSecret.cert \in Nat /\ caSecret.old \in Nat
      /\ serving.ca \in Nat /\ serving.notAfter \in Nat
      /\ presented.ca \in Nat /\ presented.notAfter \in Nat
      /\ now' \in Nat /\ missed' \in Nat
      /\ controller \in Servers
  BY DEF CertTypeOK, CASecret, ServingCert, Servers, serving, presented
<1>1. CASE SyncSecret
  BY <1>1, RotationFrame DEF SyncSecret, serving, presented
<1>2. CASE Tick
  <2>1. serving' = serving /\ presented' = presented /\ presented = serving
    BY <1>2 DEF Tick, serving, presented
  <2>2. now' = now + 1 /\ missed' = missed + 1 /\ missed < MaxMissed /\ cr.pc = "idle"
    BY <1>2 DEF Tick
  <2>3. UNCHANGED <<caSecret, cr, bundle>>
    BY <1>2 DEF Tick
  <2>4. Progress' /\ Secret'
    BY <1>t, <2>1, <2>2, <2>3 DEF Rotation, Progress, Secret
  <2>5. Presented'
    BY <1>t, <2>1, <2>2, <2>3 DEF Rotation, Secret, Presented
  <2>6. Bundles'
    BY <2>1, <2>3 DEF Rotation, Bundles, FollowsRotation
  <2>. QED
    BY <2>4, <2>5, <2>6 DEF Rotation
<1>3. CASE KeepCA
  <2>1. serving' = serving /\ presented' = presented
    BY <1>3 DEF KeepCA, serving, presented
  <2>2. /\ UNCHANGED <<now, missed, caSecret, bundle>>
        /\ cr'.pc = "oldCA" /\ cr'.webhooks = {} /\ cr'.secret = caSecret
        /\ now + CertLookahead <= caSecret.cert
    BY <1>3 DEF KeepCA, BeginCert, VerifyCA
  <2>. QED
    BY <2>1, <2>2 DEF Rotation, Progress, Secret, Presented, Bundles, FollowsRotation
<1>4. CASE RotateCA
  <2>1. serving' = serving /\ presented' = presented
    BY <1>4 DEF RotateCA, serving, presented
  <2>2. /\ UNCHANGED <<now, missed, bundle>>
        /\ cr.pc = "idle"
        /\ caSecret'.cert = now + CACertExpiration /\ caSecret'.old = caSecret.cert
        /\ cr'.pc = "oldCA" /\ cr'.secret = caSecret'
        /\ now + CertLookahead > caSecret.cert
    BY <1>4, <1>t DEF RotateCA, BeginCert, VerifyCA, GenerateCA
  <2>3. cr.webhooks = {}
    BY <2>2 DEF Rotation, Progress, IdleCert
  <2>4. serving.ca = caSecret.cert /\ presented = serving
    BY <1>t, <2>2 DEF Rotation, Secret, Presented
  <2>5. caSecret'.cert > caSecret.cert
    BY <1>t, <2>2
  <2>6. Progress'
    BY <1>t, <2>1, <2>2, <2>4 DEF Progress
  <2>7. Secret' /\ Presented'
    BY <1>t, <2>1, <2>2, <2>4, <2>5 DEF Rotation, Secret, Presented
  <2>8. ASSUME NEW w \in OwnWebhooks
        PROVE  /\ \A ca \in bundle[w] : 0 < ca /\ ca <= caSecret'.cert
               /\ FollowsRotation(w)' => presented.ca \in bundle[w]
    <3>1. bundle[w] \subseteq Nat
      BY DEF CertTypeOK, Webhooks
    <3>2. \A ca \in bundle[w] : 0 < ca /\ ca <= caSecret.cert
      BY DEF Rotation, Bundles
    <3>3. \A ca \in bundle[w] : 0 < ca /\ ca < caSecret'.cert
      BY <1>t, <2>2, <2>5, <3>1, <3>2
    <3>4. caSecret'.cert \notin bundle[w]
      BY <1>t, <2>2, <3>3
    <3>. QED
      BY <1>t, <2>2, <2>4, <3>1, <3>3, <3>4 DEF FollowsRotation
  <2>9. Bundles'
    BY <2>1, <2>2, <2>8 DEF Bundles
  <2>. QED
    BY <2>6, <2>7, <2>9 DEF Rotation
<1>5. CASE KeepOldCA
  <2>1. serving' = serving /\ presented' = presented
    BY <1>5 DEF KeepOldCA, serving, presented
  <2>2. /\ UNCHANGED <<now, missed, caSecret, bundle>>
        /\ cr.pc = "oldCA" /\ cr.webhooks = {}
        /\ cr'.pc = "webhookServer" /\ cr'.webhooks = {} /\ cr'.secret = cr.secret
    BY <1>5 DEF KeepOldCA, BeginCert
  <2>. QED
    BY <2>1, <2>2 DEF Rotation, Progress, Secret, Presented, Bundles, FollowsRotation
<1>6. CASE RemoveOldCA
  <2>1. serving' = serving /\ presented' = presented
    BY <1>6 DEF RemoveOldCA, serving, presented
  <2>2. /\ UNCHANGED <<now, missed, bundle>>
        /\ cr.pc = "oldCA" /\ cr.webhooks = {}
        /\ cr'.pc = "webhookServer" /\ cr'.secret = caSecret'
        /\ caSecret' = [cr.secret EXCEPT !.old = 0]
        /\ ~(now <= cr.secret.old)
    BY <1>6 DEF RemoveOldCA, BeginCert, VerifyCA
  <2>3. cr.secret = caSecret
    BY <2>2 DEF Rotation, Progress
  <2>4. caSecret'.cert = caSecret.cert /\ caSecret'.old = 0
    BY <2>2, <2>3 DEF CertTypeOK, CASecret
  <2>5. serving.ca = caSecret.cert /\ presented.ca = caSecret.cert
    BY <1>t, <2>2, <2>3 DEF Rotation, Secret, Presented
  <2>6. Progress' /\ Secret' /\ Presented'
    BY <1>t, <2>1, <2>2, <2>3, <2>4, <2>5 DEF Rotation, Progress, Secret, Presented
  <2>7. Bundles'
    BY <1>t, <2>1, <2>2, <2>4, <2>5 DEF Rotation, Bundles, FollowsRotation
  <2>. QED
    BY <2>6, <2>7 DEF Rotation
<1>7. CASE ReconcileWebhookServerCert
  <2>1. /\ UNCHANGED <<now, missed, caSecret, bundle>> /\ presented' = presented
        /\ cr.pc = "webhookServer" /\ cr.webhooks = {}
        /\ cr'.pc = "servers" /\ cr'.webhooks = {} /\ cr'.secret = cr.secret
    BY <1>7 DEF ReconcileWebhookServerCert, presented, CertTypeOK, CertReconciler
  <2>2. cr.secret = caSecret /\ now + CertLookahead <= caSecret.cert
    BY <2>1 DEF Rotation, Progress
  <2>3. /\ serving'.ca = caSecret.cert
        /\ now + CertLookahead <= serving'.notAfter
    BY <1>7, <1>t, <2>2 DEF ReconcileWebhookServerCert, ReconcileServerCert,
       VerifyCert, GenerateCert, serving, CertTypeOK
  <2>4. serving'.notAfter \in Nat
    BY <1>t DEF CertTypeOK, ServingCert, serving
  <2>. QED
    BY <1>t, <2>1, <2>2, <2>3, <2>4
       DEF Rotation, Progress, Secret, Presented, Bundles, FollowsRotation
<1>8. CASE CertFails
  BY <1>8, RotationEnds DEF CertFails
<1>9. CASE CertDone
  <2>1. serving' = serving /\ presented' = presented
    BY <1>9 DEF CertDone, serving, presented
  <2>2. /\ UNCHANGED <<now, caSecret, bundle>>
        /\ cr.pc = "servers" /\ missed' = 0 /\ cr' = IdleCert
    BY <1>9 DEF CertDone
  <2>3. cr'.pc = "idle" /\ cr'.webhooks = {}
    BY <2>2 DEF IdleCert
  <2>. QED
    BY <1>t, <2>1, <2>2, <2>3
       DEF Rotation, Progress, Secret, Presented, Bundles, FollowsRotation
<1>10. ASSUME NEW w \in Webhooks, InjectBundle(w) PROVE Rotation'
  <2>1. serving' = serving /\ presented' = presented
    BY <1>10 DEF InjectBundle, serving, presented
  <2>2. /\ UNCHANGED <<now, missed, caSecret>>
        /\ w \in cr.webhooks
        /\ cr'.pc = cr.pc /\ cr'.webhooks = cr.webhooks \ {w} /\ cr'.secret = cr.secret
        /\ bundle' = [bundle EXCEPT ![w] = {cr.secret.cert, cr.secret.old} \ {0}]
    BY <1>10 DEF InjectBundle, Injected, CertTypeOK, CertReconciler
  <2>3. cr.pc # "idle" /\ cr.secret = caSecret
    BY <2>2 DEF Rotation, Progress, IdleCert
  <2>4. Progress' /\ Secret' /\ Presented'
    BY <2>1, <2>2, <2>3 DEF Rotation, Progress, Secret, Presented
  <2>5. /\ bundle'[w] = {caSecret.cert, caSecret.old} \ {0}
        /\ \A v \in OwnWebhooks \ {w} : bundle'[v] = bundle[v]
    BY <2>2, <2>3 DEF CertTypeOK, Webhooks
  <2>6. ASSUME NEW v \in OwnWebhooks
        PROVE  /\ \A ca \in bundle'[v] : 0 < ca /\ ca <= caSecret.cert
               /\ FollowsRotation(v)' => presented.ca \in bundle'[v]
    <3>1. CASE v = w
      BY <1>t, <2>5, <3>1 DEF Rotation, Secret, Presented
    <3>2. CASE v # w
      BY <2>2, <2>5, <3>2 DEF Rotation, Bundles, FollowsRotation
    <3>. QED
      BY <3>1, <3>2
  <2>7. Bundles'
    BY <2>1, <2>2, <2>6 DEF Bundles
  <2>. QED
    BY <2>4, <2>7 DEF Rotation
<1>11. ASSUME NEW w \in Webhooks, InjectFails(w) PROVE Rotation'
  BY <1>11, RotationEnds DEF InjectFails
<1>12. ASSUME NEW s \in PolicyServers, ReconcilePolicyServerCert(s) PROVE Rotation'
  <2>1. serving' = serving /\ presented' = presented
    BY <1>12 DEF ReconcilePolicyServerCert, ReconcileServerCert, serving, presented,
       CertTypeOK
  <2>2. /\ UNCHANGED <<now, missed, caSecret, bundle>>
        /\ cr'.pc = cr.pc /\ cr'.webhooks = cr.webhooks /\ cr'.secret = cr.secret
        /\ s \in cr.servers
    BY <1>12 DEF ReconcilePolicyServerCert, CertTypeOK, CertReconciler
  <2>3. cr.pc # "idle"
    BY <2>2 DEF Rotation, Progress, IdleCert
  <2>. QED
    BY <2>1, <2>2, <2>3
       DEF Rotation, Progress, Secret, Presented, Bundles, FollowsRotation
<1>13. ASSUME NEW w \in PolicyWebhooks, ReconcileBundle(w) \/ UnregisterWebhook(w)
       PROVE  Rotation'
  <2>1. \A v \in OwnWebhooks : bundle'[v] = bundle[v]
    BY <1>13 DEF ReconcileBundle, UnregisterWebhook, CertTypeOK, Webhooks
  <2>. QED
    BY <1>13, <2>1, RotationFrame
       DEF ReconcileBundle, UnregisterWebhook, serving, presented
<1>14. ASSUME NEW s \in PolicyServers, CreateServerCert(s) \/ DeletePolicyServer(s)
       PROVE  Rotation'
  <2>1. CASE CreateServerCert(s)
    <3>1. serverSecret'[controller] = serverSecret[controller] /\ loaded' = loaded
      BY <2>1 DEF CreateServerCert, CertTypeOK
    <3>. QED
      BY <2>1, <3>1, RotationFrame DEF CreateServerCert, serving, presented
  <2>2. CASE DeletePolicyServer(s)
    <3>1. /\ serverSecret'[controller] = serverSecret[controller]
          /\ loaded'[controller] = loaded[controller]
      BY <2>2 DEF DeletePolicyServer, CertTypeOK
    <3>. QED
      BY <2>2, <3>1, RotationFrame DEF DeletePolicyServer, serving, presented
  <2>. QED
    BY <1>14, <2>1, <2>2
<1>15. ASSUME NEW s \in Servers, LoadCert(s) PROVE Rotation'
  <2>1. /\ UNCHANGED <<now, missed, caSecret, cr, bundle>> /\ serving' = serving
        /\ presented' \in {presented, serving}
    BY <1>15 DEF LoadCert, serving, presented, CertTypeOK
  <2>2. CASE presented' = presented
    BY <2>1, <2>2, RotationFrame
  <2>3. CASE presented' = serving /\ presented # serving
    <3>1. serving.ca = caSecret.cert
      BY <2>3 DEF Rotation, Secret
    <3>2. Progress' /\ Secret' /\ Presented'
      BY <1>t, <2>1, <2>3, <3>1 DEF Rotation, Progress, Secret, Presented
    <3>3. ASSUME NEW w \in OwnWebhooks, FollowsRotation(w)
          PROVE  caSecret.cert \in bundle[w]
      <4>1. SUFFICES ASSUME w \in cr.webhooks, caSecret.old \in bundle[w] PROVE FALSE
        BY <3>3 DEF FollowsRotation
      <4>2. caSecret.old # 0 /\ serving.ca # caSecret.old
        BY <1>t, <3>1, <4>1 DEF Rotation, Secret, Bundles
      <4>. QED
        BY <4>1, <4>2 DEF Rotation, Progress, IdleCert, CertTypeOK, CertReconciler
    <3>4. Bundles'
      BY <2>1, <2>3, <3>1, <3>3 DEF Rotation, Bundles, FollowsRotation
    <3>. QED
      BY <3>2, <3>4 DEF Rotation
  <2>. QED
    BY <2>1, <2>2, <2>3
<1>16. CASE UNCHANGED certVars
  BY <1>16, RotationFrame DEF serving, presented
<1>. QED
  BY <1>1, <1>2, <1>3, <1>4, <1>5, <1>6, <1>7, <1>8, <1>9, <1>10, <1>11, <1>12, <1>13,
     <1>14, <1>15, <1>16 DEF CertNext, Reconcile

-----------------------------------------------------------------------------
(* Theorems *)

\* The inductive invariant: types, and how far a rotation has come in the CA
\* secret, the bundles and the serving certificates.
THEOREM CertInvHolds == CertSpec => []CertInv
<1>1. CertInit => CertInv
  BY CertInitTypeOK, CertInitRotation DEF CertInv
<1>2. CertInv /\ [CertNext]_certVars => CertInv'
  BY CertNextTypeOK, CertNextRotation DEF CertInv
<1>. QED
  BY <1>1, <1>2, PTL DEF CertSpec

\* Secrets, bundles and certificates keep their types through rotations, faults
\* and restarts.
THEOREM CertTypeCorrect == CertSpec => []CertTypeOK
<1>1. CertInv => CertTypeOK
  BY DEF CertInv
<1>. QED
  BY <1>1, CertInvHolds, PTL

\* A configuration of the controller that holds the present CA, or is about to
\* be given it, trusts the certificate the webhook server presents: for any
\* validity periods, faults and interleaving with the other reconcilers.
THEOREM RotationKeepsTrust == CertSpec => []InjectedWebhooksTrusted
<1>1. CertInv => InjectedWebhooksTrusted
  BY DEF CertInv, Rotation, Presented, Bundles, InjectedWebhooksTrusted, Trusted,
     VerifyCert, ServerOf, presented
<1>. QED
  BY <1>1, CertInvHolds, PTL

\* Without a fault that cuts the injection short, every configuration of the
\* controller itself follows the rotation.
LEMMA CertNextFollowing ==
  ASSUME NoneCutShort
  PROVE  CertInv /\ Following /\ [CertNext]_certVars => Following'
<1> SUFFICES ASSUME CertInv, Following, [CertNext]_certVars PROVE Following'
  OBVIOUS
<1> USE CertAssumption
<1>t. /\ CertTypeOK
      /\ bundle \in [Webhooks -> SUBSET Nat]
      /\ OwnWebhooks \subseteq Webhooks /\ PolicyWebhooks \subseteq Webhooks
      /\ cr.webhooks \subseteq Webhooks
      /\ cr.pc = "idle" => cr.webhooks = {}
      /\ cr.pc # "idle" => cr.secret = caSecret
  <2>1. /\ CertTypeOK
        /\ bundle \in [Webhooks -> SUBSET Nat]
        /\ OwnWebhooks \subseteq Webhooks /\ PolicyWebhooks \subseteq Webhooks
    BY DEF CertInv, CertTypeOK, Webhooks
  <2>2. cr.webhooks \subseteq Webhooks
    BY <2>1 DEF CertTypeOK, CertReconciler
  <2>3. cr.pc = "idle" => cr.webhooks = {}
    BY DEF CertInv, Rotation, Progress, IdleCert
  <2>4. cr.pc # "idle" => cr.secret = caSecret
    BY DEF CertInv, Rotation, Progress, IdleCert
  <2> QED
    BY <2>1, <2>2, <2>3, <2>4
<1>1. CASE UNCHANGED <<caSecret, bundle, cr>>
  BY <1>1 DEF Following, FollowsRotation
<1>2. CASE UNCHANGED <<caSecret, bundle>> /\ cr.webhooks = {} /\ cr'.webhooks = {}
  BY <1>2 DEF Following, FollowsRotation
<1>3. CASE RotateCA
  BY <1>3, <1>t DEF RotateCA, BeginCert, ListedWebhooks, Following, FollowsRotation
<1>4. CASE RemoveOldCA
  BY <1>4, <1>t DEF RemoveOldCA, BeginCert, ListedWebhooks, Following, FollowsRotation,
     CertTypeOK, CASecret
<1>5. ASSUME NEW w \in Webhooks, InjectBundle(w) PROVE Following'
  <2>1. /\ w \in cr.webhooks /\ cr.secret = caSecret
        /\ cr'.webhooks = cr.webhooks \ {w} /\ caSecret' = caSecret
        /\ bundle' = [bundle EXCEPT ![w] = {caSecret.cert, caSecret.old} \ {0}]
    BY <1>5, <1>t DEF InjectBundle, Injected, CertTypeOK, CertReconciler
  <2>2. caSecret.cert # 0
    BY DEF CertInv, CertTypeOK, CASecret, Rotation, Secret
  <2>. QED
    BY <1>t, <2>1, <2>2 DEF Following, FollowsRotation
<1>6. ASSUME NEW w \in Webhooks, InjectFails(w) PROVE Following'
  BY <1>6 DEF InjectFails, Following, NoneCutShort
<1>7. ASSUME NEW w \in PolicyWebhooks, ReconcileBundle(w) \/ UnregisterWebhook(w)
      PROVE  Following'
  <2>1. /\ UNCHANGED <<caSecret, cr>>
        /\ \A v \in Webhooks \ {w} : bundle'[v] = bundle[v]
        /\ w \in cr.webhooks => bundle'[w] # {}
    BY <1>7, <1>t
       DEF ReconcileBundle, PolicyBundle, UnregisterWebhook, NoneCutShort
  <2>. QED
    BY <1>t, <2>1 DEF Following, FollowsRotation
<1>8. CASE \/ KeepCA \/ KeepOldCA \/ ReconcileWebhookServerCert \/ CertFails \/ CertDone
           \/ \E s \in PolicyServers : ReconcilePolicyServerCert(s)
  <2>1. CASE KeepCA \/ KeepOldCA
    BY <1>2, <1>t, <2>1 DEF KeepCA, KeepOldCA, BeginCert
  <2>2. CASE ReconcileWebhookServerCert
    BY <1>2, <1>t, <2>2 DEF ReconcileWebhookServerCert, CertTypeOK, CertReconciler
  <2>3. CASE CertFails
    BY <1>2, <2>3 DEF CertFails, IdleCert
  <2>4. CASE CertDone
    BY <1>2, <2>4 DEF CertDone, IdleCert, CertInv, Rotation, Progress
  <2>5. ASSUME NEW s \in PolicyServers, ReconcilePolicyServerCert(s) PROVE Following'
    <3>1. cr'.webhooks = cr.webhooks /\ UNCHANGED <<caSecret, bundle>>
      BY <2>5 DEF ReconcilePolicyServerCert, CertTypeOK, CertReconciler, CertInv
    <3>. QED
      BY <3>1 DEF Following, FollowsRotation
  <2>. QED
    BY <1>8, <2>1, <2>2, <2>3, <2>4, <2>5
<1>9. CASE \/ SyncSecret \/ Tick
           \/ \E s \in PolicyServers : CreateServerCert(s) \/ DeletePolicyServer(s)
           \/ \E s \in Servers : LoadCert(s)
  BY <1>1, <1>9 DEF SyncSecret, Tick, CreateServerCert, DeletePolicyServer, LoadCert
<1>. QED
  BY <1>1, <1>3, <1>4, <1>5, <1>6, <1>7, <1>8, <1>9 DEF CertNext, Reconcile

\* When no injection is cut short, by a failed patch or by a configuration that
\* goes away while it is listed, the controller's own webhooks can be called at
\* any time.
THEOREM OwnWebhooksStayTrusted ==
  ASSUME NoneCutShort
  PROVE  CertSpec => []OwnWebhooksTrusted
<1>1. CertInit => Following
  BY CertAssumption DEF CertInit, Following, FollowsRotation, IdleCert, Webhooks
<1>2. InjectedWebhooksTrusted /\ Following => OwnWebhooksTrusted
  BY DEF InjectedWebhooksTrusted, Following, OwnWebhooksTrusted
<1>. QED
  BY <1>1, <1>2, CertInvHolds, RotationKeepsTrust, CertNextFollowing, PTL DEF CertSpec
=============================================================================
