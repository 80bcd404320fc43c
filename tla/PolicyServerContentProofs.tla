---------------------- MODULE PolicyServerContentProofs ----------------------
(***************************************************************************)
(* What the pod template and the configuration of a PolicyServer contain,  *)
(* for any spec, flags and policies: facts about the operators from which  *)
(* the reconciliation computes its objects.                                *)
(***************************************************************************)
EXTENDS PolicyServerObjects, TLAPS

-----------------------------------------------------------------------------
(* Volumes and mounts *)

\* The volumes of a template on top of the three that all have, by their names.
CertificateNames(opts) ==
    IF ~Telemetry(opts) \/ opts.otelSidecarEnabled THEN {}
    ELSE (IF opts.otelCertificateSecret = "" THEN {} ELSE {"otel-collector-certificate"})
         \cup (IF opts.otelClientCertificateSecret = "" THEN {}
               ELSE {"otel-collector-client-certificate"})

VolumeNames(sp, opts) ==
    {"certs", "policies", "policy-store"}
    \cup (IF sp.verificationConfig = "" THEN {} ELSE {"verification"})
    \cup (IF sp.imagePullSecret = "" THEN {} ELSE {"imagepullsecret"})
    \cup (IF ~HasSources(sp) THEN {} ELSE {"sources"})
    \cup CertificateNames(opts)
    \cup (IF opts.clientCAConfigMapName = "" THEN {} ELSE {"kubewarden-ca-cert", "client-ca-cert"})

PathOf(opts, name) ==
    CASE name = "certs" -> <<"pki">>
      [] name = "policies" -> <<"config">>
      [] name = "policy-store" -> <<"tmp">>
      [] name = "verification" -> <<"verification">>
      [] name = "imagepullsecret" -> <<"home", "kubewarden", ".docker">>
      [] name = "sources" -> <<"sources">>
      [] name = "otel-collector-certificate" -> OtelCertificate(opts).path
      [] name = "otel-collector-client-certificate" -> OtelClientCertificate(opts).path
      [] name = "kubewarden-ca-cert" -> <<"ca">>
      [] name = "client-ca-cert" -> <<"client-ca">>

VolumeOf(sp, opts, name) ==
    CASE name = "certs" -> Volume(name, "Secret", NameWithPrefix)
      [] name = "policies" -> Volume(name, "ConfigMap", NameWithPrefix)
      [] name = "policy-store" -> Volume(name, "EmptyDir", "")
      [] name = "verification" -> Volume(name, "ConfigMap", sp.verificationConfig)
      [] name = "imagepullsecret" -> Volume(name, "Secret", sp.imagePullSecret)
      [] name = "sources" -> Volume(name, "ConfigMap", NameWithPrefix)
      [] name = "otel-collector-certificate" ->
             Volume(name, "Secret", opts.otelCertificateSecret)
      [] name = "otel-collector-client-certificate" ->
             Volume(name, "Secret", opts.otelClientCertificateSecret)
      [] name = "kubewarden-ca-cert" -> Volume(name, "Secret", "kubewarden-ca")
      [] name = "client-ca-cert" -> Volume(name, "ConfigMap", opts.clientCAConfigMapName)

\* The environment of the container at each stage of the construction.
AcceptingEnv(sp, opts) ==
    IF ~opts.alwaysAccept THEN ContainerEnv(sp)
    ELSE AddEnv(ContainerEnv(sp), "KUBEWARDEN_ALWAYS_ACCEPT_ADMISSION_REVIEWS_ON_NAMESPACE",
                DeploymentsNamespace)
VerifiedEnv(sp, opts) ==
    IF sp.verificationConfig = "" THEN AcceptingEnv(sp, opts)
    ELSE AddEnv(AcceptingEnv(sp, opts), "KUBEWARDEN_VERIFICATION_CONFIG_PATH",
                Join(<<"verification">>, "verification.yml"))
PullingEnv(sp, opts) ==
    IF sp.imagePullSecret = "" THEN VerifiedEnv(sp, opts)
    ELSE AddEnv(VerifiedEnv(sp, opts), "KUBEWARDEN_DOCKER_CONFIG_JSON_PATH",
                <<"home", "kubewarden", ".docker">>)
SourcedEnv(sp, opts) ==
    IF ~HasSources(sp) THEN PullingEnv(sp, opts)
    ELSE AddEnv(PullingEnv(sp, opts), "KUBEWARDEN_SOURCES_PATH",
                Join(<<"sources">>, "sources.yml"))
SentEnv(opts) == IF opts.otelSidecarEnabled THEN SidecarEnv ELSE OtelEnv(opts)
MeasuredEnv(sp, opts) ==
    IF ~Telemetry(opts) THEN SourcedEnv(sp, opts)
    ELSE SetEnv(SetEnv(SourcedEnv(sp, opts), EnabledEnv(opts)), SentEnv(opts))
TemplateEnv(sp, opts) ==
    IF opts.clientCAConfigMapName = "" THEN MeasuredEnv(sp, opts)
    ELSE AddEnv(MeasuredEnv(sp, opts), "KUBEWARDEN_CLIENT_CA_FILE",
                <<Join(<<"ca">>, "ca.crt"), Join(<<"client-ca">>, "client-ca.crt")>>)

OwnMounts(sp) ==
    {VolumeMount("certs", <<"pki">>), VolumeMount("policies", <<"config">>),
     VolumeMount("policy-store", <<"tmp">>)}
    \cup (IF sp.verificationConfig = "" THEN {}
          ELSE {VolumeMount("verification", <<"verification">>)})
    \cup (IF sp.imagePullSecret = "" THEN {}
          ELSE {VolumeMount("imagepullsecret", <<"home", "kubewarden", ".docker">>)})
    \cup (IF ~HasSources(sp) THEN {} ELSE {VolumeMount("sources", <<"sources">>)})

\* The container before telemetry and mutual TLS.
LEMMA ContainerContent ==
    ASSUME NEW sp, NEW opts
    PROVE  LET c == ConfiguresInsecureSources(sp, ConfigureImagePullSecret(sp,
                        ConfigureVerificationConfig(sp,
                            AlwaysAccept(opts, GetPolicyServerContainer(sp)))))
           IN  c = [image |-> sp.image, mounts |-> OwnMounts(sp), env |-> SourcedEnv(sp, opts)]
<1> DEFINE base == {VolumeMount("certs", <<"pki">>), VolumeMount("policies", <<"config">>),
                    VolumeMount("policy-store", <<"tmp">>)}
           m1 == base \cup (IF sp.verificationConfig = "" THEN {}
                            ELSE {VolumeMount("verification", <<"verification">>)})
           m2 == m1 \cup (IF sp.imagePullSecret = "" THEN {}
                   ELSE {VolumeMount("imagepullsecret", <<"home", "kubewarden", ".docker">>)})
           m3 == m2 \cup (IF ~HasSources(sp) THEN {} ELSE {VolumeMount("sources", <<"sources">>)})
           c0 == AlwaysAccept(opts, GetPolicyServerContainer(sp))
           c1 == ConfigureVerificationConfig(sp, c0)
           c2 == ConfigureImagePullSecret(sp, c1)
           c3 == ConfiguresInsecureSources(sp, c2)
<1>1. c0 = [image |-> sp.image, mounts |-> base, env |-> AcceptingEnv(sp, opts)]
  BY DEF AlwaysAccept, GetPolicyServerContainer, AcceptingEnv
<1> HIDE DEF base, c0
<1>2. c1 = [image |-> sp.image, mounts |-> m1, env |-> VerifiedEnv(sp, opts)]
  BY <1>1 DEF ConfigureVerificationConfig, WithMount, VerifiedEnv
<1> HIDE DEF m1, c1
<1>3. c2 = [image |-> sp.image, mounts |-> m2, env |-> PullingEnv(sp, opts)]
  BY <1>2 DEF ConfigureImagePullSecret, WithMount, PullingEnv
<1> HIDE DEF m2, c2
<1>4. c3 = [image |-> sp.image, mounts |-> m3, env |-> SourcedEnv(sp, opts)]
  BY <1>3 DEF ConfiguresInsecureSources, WithMount, SourcedEnv
<1>5. m3 = OwnMounts(sp)
  BY DEF m2, m1, base, OwnMounts
<1> QED
  BY <1>4, <1>5 DEF c2, c1, c0

\* What is added to the container and to the volumes for telemetry, for the spec and
\* for mutual TLS.
Certificates(opts) ==
    IF ~Telemetry(opts) \/ opts.otelSidecarEnabled THEN {}
    ELSE {c \in {OtelCertificate(opts), OtelClientCertificate(opts)} : c.secret # ""}
CertificateMounts(opts) == {VolumeMount(c.volume, c.path) : c \in Certificates(opts)}
CertificateVolumes(opts) == {Volume(c.volume, "Secret", c.secret) : c \in Certificates(opts)}
AuthorityMounts(opts) ==
    IF opts.clientCAConfigMapName = "" THEN {}
    ELSE {VolumeMount("kubewarden-ca-cert", <<"ca">>),
          VolumeMount("client-ca-cert", <<"client-ca">>)}
AuthorityVolumes(opts) ==
    IF opts.clientCAConfigMapName = "" THEN {}
    ELSE {Volume("kubewarden-ca-cert", "Secret", "kubewarden-ca"),
          Volume("client-ca-cert", "ConfigMap", opts.clientCAConfigMapName)}
OwnVolumes(sp) ==
    {Volume("policy-store", "EmptyDir", ""), Volume("certs", "Secret", NameWithPrefix),
     Volume("policies", "ConfigMap", NameWithPrefix)}
    \cup (IF sp.verificationConfig = "" THEN {}
          ELSE {Volume("verification", "ConfigMap", sp.verificationConfig)})
    \cup (IF sp.imagePullSecret = "" THEN {}
          ELSE {Volume("imagepullsecret", "Secret", sp.imagePullSecret)})
    \cup (IF ~HasSources(sp) THEN {} ELSE {Volume("sources", "ConfigMap", NameWithPrefix)})

\* The template as one record.
LEMMA TemplateContent ==
    ASSUME NEW sp, NEW opts
    PROVE  PodTemplate(sp, opts) =
               [image |-> sp.image, security |-> SecurityContext(sp),
                mounts |-> OwnMounts(sp) \cup CertificateMounts(opts) \cup AuthorityMounts(opts),
                env |-> TemplateEnv(sp, opts),
                volumes |-> OwnVolumes(sp) \cup CertificateVolumes(opts)
                            \cup AuthorityVolumes(opts)]
<1> DEFINE container == ConfiguresInsecureSources(sp, ConfigureImagePullSecret(sp,
                            ConfigureVerificationConfig(sp,
                                AlwaysAccept(opts, GetPolicyServerContainer(sp)))))
           base == {Volume("policy-store", "EmptyDir", ""),
                    Volume("certs", "Secret", NameWithPrefix),
                    Volume("policies", "ConfigMap", NameWithPrefix)}
           added == (IF sp.verificationConfig = "" THEN {}
                     ELSE {Volume("verification", "ConfigMap", sp.verificationConfig)})
                    \cup (IF sp.imagePullSecret = "" THEN {}
                          ELSE {Volume("imagepullsecret", "Secret", sp.imagePullSecret)})
                    \cup (IF ~HasSources(sp) THEN {}
                          ELSE {Volume("sources", "ConfigMap", NameWithPrefix)})
           built == BuildPolicyServerDeploymentSpec(container, SecurityContext(sp))
           measured == AdaptDeploymentForMetricsAndTracingConfiguration(opts, built)
           adapted == AdaptDeploymentSettingsForPolicyServer(sp, measured)
           pod(ms, env, vs) == [image |-> sp.image, security |-> SecurityContext(sp),
                                mounts |-> ms, env |-> env, volumes |-> vs]
<1>1. PodTemplate(sp, opts) = ConfigureMutualTLS(opts, adapted)
  BY DEF PodTemplate
<1>2. built = pod(OwnMounts(sp), SourcedEnv(sp, opts), base)
  <2>1. container = [image |-> sp.image, mounts |-> OwnMounts(sp),
                     env |-> SourcedEnv(sp, opts)]
    BY ContainerContent
  <2> HIDE DEF container
  <2> QED
    BY <2>1 DEF BuildPolicyServerDeploymentSpec
<1> HIDE DEF built, base
<1>3. measured = pod(OwnMounts(sp) \cup CertificateMounts(opts), MeasuredEnv(sp, opts),
                     base \cup CertificateVolumes(opts))
  <2> DEFINE env == SetEnv(SourcedEnv(sp, opts), EnabledEnv(opts))
  <2>1. CASE ~Telemetry(opts)
    <3>1. CertificateMounts(opts) = {} /\ CertificateVolumes(opts) = {}
      BY <2>1 DEF CertificateMounts, CertificateVolumes, Certificates
    <3>2. measured = built
      BY <2>1 DEF AdaptDeploymentForMetricsAndTracingConfiguration
    <3>3. MeasuredEnv(sp, opts) = SourcedEnv(sp, opts)
      BY <2>1 DEF MeasuredEnv
    <3> QED
      BY <1>2, <3>1, <3>2, <3>3
  <2>2. CASE Telemetry(opts) /\ opts.otelSidecarEnabled
    <3>1. CertificateMounts(opts) = {} /\ CertificateVolumes(opts) = {}
      BY <2>2 DEF CertificateMounts, CertificateVolumes, Certificates
    <3>2. measured = [built EXCEPT !.env = SetEnv(SetEnv(built.env, EnabledEnv(opts)), SidecarEnv)]
      BY <2>2 DEF AdaptDeploymentForMetricsAndTracingConfiguration
    <3>3. MeasuredEnv(sp, opts) = SetEnv(env, SidecarEnv)
      BY <2>2 DEF MeasuredEnv, SentEnv
    <3> QED
      BY <1>2, <3>1, <3>2, <3>3
  <2>3. CASE Telemetry(opts) /\ ~opts.otelSidecarEnabled
    <3>1. SetOtelCertificateMounts(opts, built) =
              pod(OwnMounts(sp) \cup CertificateMounts(opts), SourcedEnv(sp, opts),
                  base \cup CertificateVolumes(opts))
      <4>1. SetOtelCertificateMounts(opts, built) =
                [built EXCEPT !.volumes = @ \cup CertificateVolumes(opts),
                              !.mounts = @ \cup CertificateMounts(opts)]
        BY <2>3 DEF SetOtelCertificateMounts, CertificateMounts, CertificateVolumes, Certificates
      <4> QED
        BY <1>2, <4>1
    <3>2. measured = [SetOtelCertificateMounts(opts, built) EXCEPT
                          !.env = SetEnv(SetEnv(built.env, EnabledEnv(opts)), OtelEnv(opts))]
      BY <2>3 DEF AdaptDeploymentForMetricsAndTracingConfiguration, ReplicateOtelEnvVars
    <3>3. MeasuredEnv(sp, opts) = SetEnv(env, OtelEnv(opts))
      BY <2>3 DEF MeasuredEnv, SentEnv
    <3>4. built.env = SourcedEnv(sp, opts)
      BY <1>2
    <3> HIDE <1>2
    <3> QED
      BY <3>1, <3>2, <3>3, <3>4
  <2> QED
    BY <2>1, <2>2, <2>3
<1> HIDE DEF measured
<1>4. adapted = pod(OwnMounts(sp) \cup CertificateMounts(opts), MeasuredEnv(sp, opts),
                    base \cup CertificateVolumes(opts) \cup added)
  <2>1. adapted = [measured EXCEPT !.volumes = @ \cup added]
    BY DEF AdaptDeploymentSettingsForPolicyServer
  <2> HIDE DEF added, adapted
  <2> QED
    BY <1>3, <2>1
<1>5. base \cup CertificateVolumes(opts) \cup added = OwnVolumes(sp) \cup CertificateVolumes(opts)
  BY DEF base, OwnVolumes
<1> HIDE DEF added, adapted
<1>6. ConfigureMutualTLS(opts, adapted) =
          pod(OwnMounts(sp) \cup CertificateMounts(opts) \cup AuthorityMounts(opts),
              TemplateEnv(sp, opts),
              OwnVolumes(sp) \cup CertificateVolumes(opts) \cup AuthorityVolumes(opts))
  BY <1>4, <1>5 DEF ConfigureMutualTLS, AuthorityMounts, AuthorityVolumes, TemplateEnv
<1> QED
  BY <1>1, <1>6 DEF adapted, measured, built

\* Each volume of the template has one mount and each mount one volume.
LEMMA MountsByName ==
    ASSUME NEW sp, NEW opts
    PROVE  /\ PodTemplate(sp, opts).mounts =
                  {VolumeMount(n, PathOf(opts, n)) : n \in VolumeNames(sp, opts)}
           /\ PodTemplate(sp, opts).volumes =
                  {VolumeOf(sp, opts, n) : n \in VolumeNames(sp, opts)}
<1> DEFINE certificates == CertificateNames(opts)
           authorities == IF opts.clientCAConfigMapName = "" THEN {}
                          ELSE {"kubewarden-ca-cert", "client-ca-cert"}
           own == {"certs", "policies", "policy-store"}
                  \cup (IF sp.verificationConfig = "" THEN {} ELSE {"verification"})
                  \cup (IF sp.imagePullSecret = "" THEN {} ELSE {"imagepullsecret"})
                  \cup (IF ~HasSources(sp) THEN {} ELSE {"sources"})
           mount(n) == VolumeMount(n, PathOf(opts, n))
           volume(n) == VolumeOf(sp, opts, n)
<1>1. VolumeNames(sp, opts) = own \cup certificates \cup authorities
  BY DEF VolumeNames
<1>2. /\ OwnMounts(sp) = {mount(n) : n \in own}
      /\ OwnVolumes(sp) = {volume(n) : n \in own}
  <2>1. /\ mount("certs") = VolumeMount("certs", <<"pki">>)
        /\ mount("policies") = VolumeMount("policies", <<"config">>)
        /\ mount("policy-store") = VolumeMount("policy-store", <<"tmp">>)
        /\ mount("verification") = VolumeMount("verification", <<"verification">>)
        /\ mount("imagepullsecret") =
               VolumeMount("imagepullsecret", <<"home", "kubewarden", ".docker">>)
        /\ mount("sources") = VolumeMount("sources", <<"sources">>)
    BY DEF PathOf
  <2>2. /\ volume("certs") = Volume("certs", "Secret", NameWithPrefix)
        /\ volume("policies") = Volume("policies", "ConfigMap", NameWithPrefix)
        /\ volume("policy-store") = Volume("policy-store", "EmptyDir", "")
        /\ volume("verification") = Volume("verification", "ConfigMap", sp.verificationConfig)
        /\ volume("imagepullsecret") = Volume("imagepullsecret", "Secret", sp.imagePullSecret)
        /\ volume("sources") = Volume("sources", "ConfigMap", NameWithPrefix)
    BY DEF VolumeOf
  <2> HIDE DEF mount, volume
  <2>3. OwnMounts(sp) = {mount(n) : n \in own}
    BY <2>1 DEF OwnMounts
  <2>4. OwnVolumes(sp) = {volume(n) : n \in own}
    BY <2>2 DEF OwnVolumes
  <2> QED
    BY <2>3, <2>4
<1>3. /\ CertificateMounts(opts) = {mount(n) : n \in certificates}
      /\ CertificateVolumes(opts) = {volume(n) : n \in certificates}
  <2> DEFINE server == OtelCertificate(opts)
             client == OtelClientCertificate(opts)
  <2>1. /\ server.volume = "otel-collector-certificate"
        /\ server.secret = opts.otelCertificateSecret
        /\ client.volume = "otel-collector-client-certificate"
        /\ client.secret = opts.otelClientCertificateSecret
    BY DEF OtelCertificate, OtelClientCertificate
  <2>2. /\ mount("otel-collector-certificate") = VolumeMount(server.volume, server.path)
        /\ mount("otel-collector-client-certificate") = VolumeMount(client.volume, client.path)
    BY <2>1 DEF PathOf
  <2>3. /\ volume("otel-collector-certificate") = Volume(server.volume, "Secret", server.secret)
        /\ volume("otel-collector-client-certificate") =
               Volume(client.volume, "Secret", client.secret)
    BY <2>1 DEF VolumeOf
  <2>4. certificates = {c.volume : c \in Certificates(opts)}
    BY <2>1 DEF CertificateNames, Certificates
  <2>5. \A c \in Certificates(opts) :
            /\ mount(c.volume) = VolumeMount(c.volume, c.path)
            /\ volume(c.volume) = Volume(c.volume, "Secret", c.secret)
    BY <2>1, <2>2, <2>3 DEF Certificates
  <2> HIDE DEF mount, volume, certificates
  <2> QED
    BY <2>4, <2>5 DEF CertificateMounts, CertificateVolumes
<1>4. /\ AuthorityMounts(opts) = {mount(n) : n \in authorities}
      /\ AuthorityVolumes(opts) = {volume(n) : n \in authorities}
  BY DEF AuthorityMounts, AuthorityVolumes, PathOf, VolumeOf
<1> HIDE DEF own, certificates, authorities, mount, volume
<1>5. /\ PodTemplate(sp, opts).mounts =
             OwnMounts(sp) \cup CertificateMounts(opts) \cup AuthorityMounts(opts)
      /\ PodTemplate(sp, opts).volumes =
             OwnVolumes(sp) \cup CertificateVolumes(opts) \cup AuthorityVolumes(opts)
  BY TemplateContent
<1>6. /\ PodTemplate(sp, opts).mounts = {mount(n) : n \in VolumeNames(sp, opts)}
      /\ PodTemplate(sp, opts).volumes = {volume(n) : n \in VolumeNames(sp, opts)}
  BY <1>1, <1>2, <1>3, <1>4, <1>5
<1> QED
  BY <1>6 DEF mount, volume

\* No two volumes of a template are mounted in the same directory.
LEMMA PathsDiffer ==
    ASSUME NEW sp, NEW opts \in Options,
           NEW m \in VolumeNames(sp, opts), NEW n \in VolumeNames(sp, opts), m # n
    PROVE  PathOf(opts, m) # PathOf(opts, n)
<1> DEFINE own == {"certs", "policies", "policy-store", "verification", "imagepullsecret",
                   "sources", "kubewarden-ca-cert", "client-ca-cert"}
           certificates == {"otel-collector-certificate", "otel-collector-client-certificate"}
<1>1. VolumeNames(sp, opts) \subseteq own \cup certificates
  BY DEF VolumeNames, CertificateNames
<1>2. \A x \in own : PathOf(opts, x) \in OwnDirectories
  BY DEF PathOf, OwnDirectories
<1>3. \A x, y \in own : x # y => PathOf(opts, x) # PathOf(opts, y)
  BY DEF PathOf
<1>4. /\ "otel-collector-certificate" \in VolumeNames(sp, opts)
             => OtelCertificate(opts).secret # ""
      /\ "otel-collector-client-certificate" \in VolumeNames(sp, opts)
             => OtelClientCertificate(opts).secret # ""
  BY DEF VolumeNames, CertificateNames, OtelCertificate, OtelClientCertificate
<1>5. \A x \in certificates \cap VolumeNames(sp, opts) : PathOf(opts, x) \notin OwnDirectories
  BY <1>4, CertificateDirectories DEF PathOf
<1>6. \A x, y \in certificates \cap VolumeNames(sp, opts) :
          x # y => PathOf(opts, x) # PathOf(opts, y)
  <2>1. /\ PathOf(opts, "otel-collector-certificate") = OtelCertificate(opts).path
        /\ PathOf(opts, "otel-collector-client-certificate") = OtelClientCertificate(opts).path
    BY DEF PathOf
  <2> QED
    BY <1>4, <2>1, CertificateDirectories
<1> HIDE DEF own, certificates
<1> QED
  BY <1>1, <1>2, <1>3, <1>5, <1>6

\* VolumeOf gives a volume the name it is looked up by.
LEMMA VolumesAreNamed ==
    ASSUME NEW sp, NEW opts, NEW n \in VolumeNames(sp, opts)
    PROVE  VolumeOf(sp, opts, n).name = n
<1>1. n \in {"certs", "policies", "policy-store", "verification", "imagepullsecret", "sources",
             "otel-collector-certificate", "otel-collector-client-certificate",
             "kubewarden-ca-cert", "client-ca-cert"}
  BY DEF VolumeNames, CertificateNames
<1>2. \E kind, source : VolumeOf(sp, opts, n) = Volume(n, kind, source)
  BY <1>1 DEF VolumeOf
<1> QED
  BY <1>2 DEF Volume

\* The pods mount sources.yml exactly if the spec has sources.
LEMMA SourcesAreMounted ==
    ASSUME NEW sp, NEW opts
    PROVE  (\E v \in PodTemplate(sp, opts).volumes : v.name = "sources") = HasSources(sp)
<1>1. \A n \in VolumeNames(sp, opts) : VolumeOf(sp, opts, n).name = n
  BY VolumesAreNamed
<1>2. (\E v \in PodTemplate(sp, opts).volumes : v.name = "sources")
          <=> "sources" \in VolumeNames(sp, opts)
  BY <1>1, MountsByName
<1>3. "sources" \in VolumeNames(sp, opts) <=> HasSources(sp)
  BY DEF VolumeNames, CertificateNames
<1>4. HasSources(sp) \in BOOLEAN
  BY DEF HasSources
<1> QED
  BY <1>2, <1>3, <1>4

\* Mounts and volumes go together, and no two mounts share a path.
LEMMA MountsAndVolumes ==
    ASSUME NEW sp, NEW opts \in Options
    PROVE  LET pod == PodTemplate(sp, opts)
           IN  /\ {m.name : m \in pod.mounts} = {v.name : v \in pod.volumes}
               /\ \A m, n \in pod.mounts : m.name = n.name \/ m.path = n.path => m = n
               /\ \A v, w \in pod.volumes : v.name = w.name => v = w
<1> DEFINE N == VolumeNames(sp, opts)
           pod == PodTemplate(sp, opts)
           mount(n) == VolumeMount(n, PathOf(opts, n))
           volume(n) == VolumeOf(sp, opts, n)
<1>1. /\ pod.mounts = {mount(n) : n \in N}
      /\ pod.volumes = {volume(n) : n \in N}
  BY MountsByName
<1>2. \A n \in N : mount(n).name = n /\ mount(n).path = PathOf(opts, n)
  BY DEF VolumeMount
<1>3. \A n \in N : volume(n).name = n
  BY VolumesAreNamed
<1>4. \A m, n \in N : m # n => PathOf(opts, m) # PathOf(opts, n)
  BY PathsDiffer
<1> HIDE DEF N, pod, mount, volume
<1>5. {m.name : m \in pod.mounts} = {v.name : v \in pod.volumes}
  BY <1>1, <1>2, <1>3
<1>6. \A m, n \in pod.mounts : m.name = n.name \/ m.path = n.path => m = n
  BY <1>1, <1>2, <1>4
<1>7. \A v, w \in pod.volumes : v.name = w.name => v = w
  BY <1>1, <1>3
<1> QED
  BY <1>5, <1>6, <1>7 DEF pod

-----------------------------------------------------------------------------
(* Environments *)

\* The directory of a file in a directory of the root.
LEMMA DirOfJoin ==
    ASSUME NEW dir, NEW file
    PROVE  Dir(Join(<<dir>>, file)) = <<dir>>
<1> DEFINE V == {dir, file}
           path == Append(<<dir>>, file)
<1>1. <<dir>> \in Seq(V) /\ Len(<<dir>>) = 1 /\ <<dir>>[1] = dir /\ file \in V
  OBVIOUS
<1>2. path \in Seq(V) /\ Len(path) = 2 /\ path[1] = dir
  BY <1>1
<1> HIDE DEF path, V
<1>3. SubSeq(path, 1, 1) \in Seq(V) /\ Len(SubSeq(path, 1, 1)) = 1 /\ SubSeq(path, 1, 1)[1] = dir
  BY <1>2
<1>4. \A s \in Seq(V) : Len(s) = 1 => s = <<s[1]>>
  OBVIOUS
<1>5. Dir(path) = SubSeq(path, 1, 1)
  BY <1>2 DEF Dir
<1> QED
  BY <1>3, <1>4, <1>5 DEF Join, path

\* Every variable has a list of values, and at least one.
IsEnv(env) == \E V : env \in [DOMAIN env -> Seq(V) \ {<<>>}]

\* A value more for a variable is the one that the container sees.
LEMMA AppendedValue ==
    ASSUME NEW V, NEW s \in Seq(V), NEW v
    PROVE  /\ Append(s, v) \in Seq(V \cup {v}) \ {<<>>}
           /\ Append(s, v)[Len(Append(s, v))] = v
<1>1. s \in Seq(V \cup {v})
  OBVIOUS
<1>2. Len(Append(s, v)) = Len(s) + 1 /\ Len(s) \in Nat
  BY <1>1
<1> QED
  BY <1>1, <1>2

\* The first value of a list is replaced.
LEMMA ReplacedValue ==
    ASSUME NEW V, NEW s \in Seq(V) \ {<<>>}, NEW v
    PROVE  /\ [s EXCEPT ![1] = v] \in Seq(V \cup {v}) \ {<<>>}
           /\ Len(s) = 1 => [s EXCEPT ![1] = v] = <<v>>
<1>1. Len(s) \in Nat /\ Len(s) # 0 /\ DOMAIN s = 1..Len(s)
  OBVIOUS
<1>2. [s EXCEPT ![1] = v] \in [1..Len(s) -> V \cup {v}]
  BY <1>1
<1>3. [s EXCEPT ![1] = v] \in Seq(V \cup {v}) /\ Len([s EXCEPT ![1] = v]) = Len(s)
  BY <1>1, <1>2
<1>4. Len(s) = 1 => [s EXCEPT ![1] = v] = <<v>>
  BY <1>1, <1>3
<1> QED
  BY <1>1, <1>3, <1>4

\* e is env with one variable more.
Adds(env, name, value, e) ==
    /\ IsEnv(e)
    /\ DOMAIN e = DOMAIN env \cup {name}
    /\ Effective(e, name) = value
    /\ \A n \in DOMAIN env \ {name} : e[n] = env[n]

\* AddEnv has the last word on its variable and leaves the others alone.
LEMMA AddedEnvContent ==
    ASSUME NEW env, IsEnv(env), NEW name, NEW value
    PROVE  Adds(env, name, value, AddEnv(env, name, value))
<1> DEFINE e == AddEnv(env, name, value)
<1>1. PICK V : env \in [DOMAIN env -> Seq(V) \ {<<>>}]
  BY DEF IsEnv
<1>2. Values(env, name) \in Seq(V)
  BY <1>1 DEF Values
<1>3. /\ DOMAIN e = DOMAIN env \cup {name}
      /\ e = [n \in DOMAIN e |-> e[n]]
      /\ e[name] = Append(Values(env, name), value)
      /\ \A n \in DOMAIN env \ {name} : e[n] = env[n]
  BY DEF AddEnv
<1> HIDE DEF e
<1>4. /\ e[name] \in Seq(V \cup {value}) \ {<<>>}
      /\ e[name][Len(e[name])] = value
  BY <1>2, <1>3, AppendedValue
<1>5. \A n \in DOMAIN env \ {name} : e[n] \in Seq(V \cup {value}) \ {<<>>}
  <2> TAKE n \in DOMAIN env \ {name}
  <2>1. env[n] \in Seq(V) \ {<<>>}
    BY <1>1
  <2>2. env[n] \in Seq(V \cup {value})
    BY <2>1
  <2> QED
    BY <1>3, <2>1, <2>2
<1>6. e \in [DOMAIN e -> Seq(V \cup {value}) \ {<<>>}]
  BY <1>3, <1>4, <1>5
<1>7. IsEnv(e)
  BY <1>6 DEF IsEnv
<1> QED
  BY <1>3, <1>4, <1>7 DEF e, Effective, Adds

\* e is env with the variables new.
Sets(env, new, e) ==
    /\ IsEnv(e)
    /\ DOMAIN e = DOMAIN env \cup DOMAIN new
    /\ \A n \in DOMAIN env \ DOMAIN new : e[n] = env[n]
    /\ \A n \in DOMAIN new : (n \in DOMAIN env => Len(env[n]) = 1) => e[n] = <<new[n]>>

\* SetEnv leaves the other variables alone, and has the last word on those that had
\* at most one value.
LEMMA SetEnvContent ==
    ASSUME NEW env, IsEnv(env), NEW new
    PROVE  Sets(env, new, SetEnv(env, new))
<1> DEFINE e == SetEnv(env, new)
           N == {new[n] : n \in DOMAIN new}
<1>1. PICK V : env \in [DOMAIN env -> Seq(V) \ {<<>>}]
  BY DEF IsEnv
<1>2. /\ DOMAIN e = DOMAIN env \cup DOMAIN new
      /\ e = [n \in DOMAIN e |-> e[n]]
      /\ \A n \in DOMAIN env \ DOMAIN new : e[n] = env[n]
      /\ \A n \in DOMAIN new \cap DOMAIN env : e[n] = [env[n] EXCEPT ![1] = new[n]]
      /\ \A n \in DOMAIN new \ DOMAIN env : e[n] = <<new[n]>>
  BY DEF SetEnv, EnvVarsContainVariable
<1> HIDE DEF e
<1>3. ASSUME NEW n \in DOMAIN e
      PROVE  /\ e[n] \in Seq(V \cup N) \ {<<>>}
             /\ n \in DOMAIN new /\ (n \in DOMAIN env => Len(env[n]) = 1) => e[n] = <<new[n]>>
  <2>1. CASE n \in DOMAIN env \ DOMAIN new
    <3>1. env[n] \in Seq(V) \ {<<>>}
      BY <1>1, <2>1
    <3>2. env[n] \in Seq(V \cup N)
      BY <3>1
    <3> QED
      BY <1>2, <2>1, <3>1, <3>2
  <2>2. CASE n \in DOMAIN new \ DOMAIN env
    <3>1. new[n] \in V \cup N
      BY <2>2
    <3>2. <<new[n]>> \in Seq(V \cup N) \ {<<>>}
      BY <3>1
    <3> QED
      BY <1>2, <2>2, <3>2
  <2>3. CASE n \in DOMAIN new \cap DOMAIN env
    <3>1. new[n] \in V \cup N
      BY <2>3
    <3>2. env[n] \in Seq(V) \ {<<>>}
      BY <1>1, <2>3
    <3>3. env[n] \in Seq(V \cup N) \ {<<>>}
      BY <3>2
    <3>4. (V \cup N) \cup {new[n]} = V \cup N
      BY <3>1
    <3>5. /\ e[n] \in Seq(V \cup N) \ {<<>>}
          /\ Len(env[n]) = 1 => e[n] = <<new[n]>>
      BY <1>2, <2>3, <3>3, <3>4, ReplacedValue
    <3> QED
      BY <2>3, <3>5
  <2> QED
    BY <1>2, <2>1, <2>2, <2>3
<1>4. e \in [DOMAIN e -> Seq(V \cup N) \ {<<>>}]
  BY <1>2, <1>3
<1>5. IsEnv(e)
  BY <1>4 DEF IsEnv
<1> QED
  BY <1>2, <1>3, <1>5 DEF e, Sets

\* The fixed variables, and after them the user's.
LEMMA ContainerEnvContent ==
    ASSUME NEW sp
    PROVE  LET e == ContainerEnv(sp)
           IN  /\ IsEnv(e)
               /\ DOMAIN e = DOMAIN FixedEnv \cup DOMAIN sp.env
               /\ \A n \in DOMAIN sp.env : Effective(e, n) = sp.env[n]
               /\ \A n \in DOMAIN sp.env \ DOMAIN FixedEnv : Len(e[n]) = 1
<1> DEFINE e == ContainerEnv(sp)
           V == {FixedEnv[n] : n \in DOMAIN FixedEnv} \cup {sp.env[n] : n \in DOMAIN sp.env}
<1>1. /\ DOMAIN e = DOMAIN FixedEnv \cup DOMAIN sp.env
      /\ e = [n \in DOMAIN e |-> e[n]]
      /\ \A n \in DOMAIN FixedEnv \ DOMAIN sp.env : e[n] = <<FixedEnv[n]>>
      /\ \A n \in DOMAIN FixedEnv \cap DOMAIN sp.env : e[n] = <<FixedEnv[n], sp.env[n]>>
      /\ \A n \in DOMAIN sp.env \ DOMAIN FixedEnv : e[n] = <<sp.env[n]>>
  BY DEF ContainerEnv
<1> HIDE DEF e
<1>2. \A n \in DOMAIN e : e[n] \in Seq(V) \ {<<>>}
  <2>1. \A n \in DOMAIN FixedEnv : FixedEnv[n] \in V
    OBVIOUS
  <2>2. \A n \in DOMAIN sp.env : sp.env[n] \in V
    OBVIOUS
  <2> HIDE DEF V
  <2>3. \A v, w \in V : <<v>> \in Seq(V) \ {<<>>} /\ <<v, w>> \in Seq(V) \ {<<>>}
    OBVIOUS
  <2> TAKE n \in DOMAIN e
  <2>4. CASE n \in DOMAIN FixedEnv \ DOMAIN sp.env
    <3>1. e[n] = <<FixedEnv[n]>> /\ FixedEnv[n] \in V
      BY <1>1, <2>1, <2>4
    <3> QED
      BY <2>3, <3>1
  <2>5. CASE n \in DOMAIN FixedEnv \cap DOMAIN sp.env
    <3>1. e[n] = <<FixedEnv[n], sp.env[n]>> /\ FixedEnv[n] \in V /\ sp.env[n] \in V
      BY <1>1, <2>1, <2>2, <2>5
    <3> QED
      BY <2>3, <3>1
  <2>6. CASE n \in DOMAIN sp.env \ DOMAIN FixedEnv
    <3>1. e[n] = <<sp.env[n]>> /\ sp.env[n] \in V
      BY <1>1, <2>2, <2>6
    <3> QED
      BY <2>3, <3>1
  <2> QED
    BY <1>1, <2>4, <2>5, <2>6
<1>3. IsEnv(e)
  BY <1>1, <1>2 DEF IsEnv
<1>4. \A n \in DOMAIN sp.env : Effective(e, n) = sp.env[n]
  BY <1>1 DEF Effective
<1>5. \A n \in DOMAIN sp.env \ DOMAIN FixedEnv : Len(e[n]) = 1
  BY <1>1
<1> QED
  BY <1>1, <1>3, <1>4, <1>5 DEF e

\* The environment with one of the variables that are added on a condition, and what
\* can be said of it.
MaybeAdded(env, without, name, value) == IF without THEN env ELSE AddEnv(env, name, value)

MaybeAdds(env, without, name, value, e) ==
    /\ IsEnv(e)
    /\ DOMAIN env \subseteq DOMAIN e
    /\ DOMAIN e \subseteq DOMAIN env \cup {name}
    /\ \A n \in DOMAIN env \ {name} : e[n] = env[n]
    /\ ~without => name \in DOMAIN e /\ Effective(e, name) = value

\* Such an addition keeps all other variables, and has its value last.
LEMMA MaybeAddedContent ==
    ASSUME NEW env, IsEnv(env), NEW without, NEW name, NEW value
    PROVE  MaybeAdds(env, without, name, value, MaybeAdded(env, without, name, value))
<1>1. CASE without
  BY <1>1 DEF MaybeAdded, MaybeAdds
<1>2. CASE ~without
  <2>1. MaybeAdded(env, without, name, value) = AddEnv(env, name, value)
    BY <1>2 DEF MaybeAdded
  <2>2. Adds(env, name, value, AddEnv(env, name, value))
    BY AddedEnvContent
  <2> QED
    BY <2>1, <2>2 DEF Adds, MaybeAdds
<1> QED
  BY <1>1, <1>2

\* The environment before telemetry.
LEMMA SourcedEnvContent ==
    ASSUME NEW sp, NEW opts
    PROVE  LET e == SourcedEnv(sp, opts)
           IN  /\ IsEnv(e)
               /\ DOMAIN e \subseteq DOMAIN FixedEnv \cup DOMAIN sp.env \cup AddedEnv
               /\ \A n \in DOMAIN sp.env \ AddedEnv :
                      n \in DOMAIN e /\ Effective(e, n) = sp.env[n]
               /\ \A n \in DOMAIN e \ (DOMAIN FixedEnv \cup AddedEnv) : Len(e[n]) = 1
               /\ sp.verificationConfig # "" =>
                      /\ "KUBEWARDEN_VERIFICATION_CONFIG_PATH" \in DOMAIN e
                      /\ Effective(e, "KUBEWARDEN_VERIFICATION_CONFIG_PATH")
                             = Join(<<"verification">>, "verification.yml")
               /\ HasSources(sp) =>
                      /\ "KUBEWARDEN_SOURCES_PATH" \in DOMAIN e
                      /\ Effective(e, "KUBEWARDEN_SOURCES_PATH")
                             = Join(<<"sources">>, "sources.yml")
<1> DEFINE e0 == ContainerEnv(sp)
           e1 == AcceptingEnv(sp, opts)
           e2 == VerifiedEnv(sp, opts)
           e3 == PullingEnv(sp, opts)
           e4 == SourcedEnv(sp, opts)
           verification == Join(<<"verification">>, "verification.yml")
           sources == Join(<<"sources">>, "sources.yml")
           accept == "KUBEWARDEN_ALWAYS_ACCEPT_ADMISSION_REVIEWS_ON_NAMESPACE"
           verify == "KUBEWARDEN_VERIFICATION_CONFIG_PATH"
           docker == "KUBEWARDEN_DOCKER_CONFIG_JSON_PATH"
           source == "KUBEWARDEN_SOURCES_PATH"
<1>0. {accept, verify, docker, source} \subseteq AddedEnv
  BY DEF AddedEnv
<1>1. MaybeAdds(e0, ~opts.alwaysAccept, accept, DeploymentsNamespace, e1)
  <2>1. e1 = MaybeAdded(e0, ~opts.alwaysAccept, accept, DeploymentsNamespace)
    BY DEF AcceptingEnv, MaybeAdded
  <2>2. IsEnv(e0)
    BY ContainerEnvContent
  <2> HIDE DEF e0, e1
  <2> QED
    BY <2>1, <2>2, MaybeAddedContent
<1>2. MaybeAdds(e1, sp.verificationConfig = "", verify, verification, e2)
  <2>1. e2 = MaybeAdded(e1, sp.verificationConfig = "", verify, verification)
    BY DEF VerifiedEnv, MaybeAdded
  <2> HIDE DEF e1, e2, verification
  <2>2. IsEnv(e1)
    BY <1>1 DEF MaybeAdds
  <2> QED
    BY <2>1, <2>2, MaybeAddedContent
<1>3. MaybeAdds(e2, sp.imagePullSecret = "", docker, <<"home", "kubewarden", ".docker">>, e3)
  <2>1. e3 = MaybeAdded(e2, sp.imagePullSecret = "", docker, <<"home", "kubewarden", ".docker">>)
    BY DEF PullingEnv, MaybeAdded
  <2> HIDE DEF e2, e3
  <2>2. IsEnv(e2)
    BY <1>2 DEF MaybeAdds
  <2> QED
    BY <2>1, <2>2, MaybeAddedContent
<1>4. MaybeAdds(e3, ~HasSources(sp), source, sources, e4)
  <2>1. e4 = MaybeAdded(e3, ~HasSources(sp), source, sources)
    BY DEF SourcedEnv, MaybeAdded
  <2> HIDE DEF e3, e4, sources
  <2>2. IsEnv(e3)
    BY <1>3 DEF MaybeAdds
  <2> QED
    BY <2>1, <2>2, MaybeAddedContent
<1>5. /\ DOMAIN e0 = DOMAIN FixedEnv \cup DOMAIN sp.env
      /\ \A n \in DOMAIN sp.env : Effective(e0, n) = sp.env[n]
      /\ \A n \in DOMAIN sp.env \ DOMAIN FixedEnv : Len(e0[n]) = 1
  BY ContainerEnvContent
<1> HIDE DEF e0, e1, e2, e3, e4, verification, sources
<1>6. \A n \in DOMAIN e0 \ AddedEnv : n \in DOMAIN e4 /\ e4[n] = e0[n]
  BY <1>0, <1>1, <1>2, <1>3, <1>4 DEF MaybeAdds
<1>7. \A n \in DOMAIN sp.env \ AddedEnv : n \in DOMAIN e4 /\ Effective(e4, n) = sp.env[n]
  BY <1>5, <1>6 DEF Effective
<1>8. DOMAIN e4 \subseteq DOMAIN FixedEnv \cup DOMAIN sp.env \cup AddedEnv
  BY <1>0, <1>1, <1>2, <1>3, <1>4, <1>5 DEF MaybeAdds
<1>9. \A n \in DOMAIN e4 \ (DOMAIN FixedEnv \cup AddedEnv) : Len(e4[n]) = 1
  BY <1>5, <1>6, <1>8
<1>10. sp.verificationConfig # "" => verify \in DOMAIN e4 /\ Effective(e4, verify) = verification
  BY <1>2, <1>3, <1>4 DEF Effective, MaybeAdds
<1>11. HasSources(sp) => source \in DOMAIN e4 /\ Effective(e4, source) = sources
  BY <1>4 DEF MaybeAdds
<1>12. IsEnv(e4)
  BY <1>4 DEF MaybeAdds
<1> QED
  BY <1>7, <1>8, <1>9, <1>10, <1>11, <1>12 DEF e4, verification, sources

\* The variables of telemetry are none of the fixed and the added ones.
LEMMA TelemetryNames ==
    ASSUME NEW opts \in Options
    PROVE  /\ DOMAIN EnabledEnv(opts) \subseteq OwnEnv \ (DOMAIN FixedEnv \cup AddedEnv)
           /\ DOMAIN SentEnv(opts) \cap OwnEnv = {}
<1>1. DOMAIN EnabledEnv(opts) \subseteq {"KUBEWARDEN_ENABLE_METRICS", "KUBEWARDEN_LOG_FMT"}
  BY DEF EnabledEnv
<1>2. {"KUBEWARDEN_ENABLE_METRICS", "KUBEWARDEN_LOG_FMT"}
          \subseteq OwnEnv \ (DOMAIN FixedEnv \cup AddedEnv)
  BY DEF OwnEnv, FixedEnv, AddedEnv
<1>3. CASE opts.otelSidecarEnabled
  <2>1. DOMAIN SentEnv(opts) = {"OTEL_EXPORTER_OTLP_ENDPOINT"}
    BY <1>3 DEF SentEnv, SidecarEnv
  <2>2. "OTEL_EXPORTER_OTLP_ENDPOINT" \notin OwnEnv
    BY DEF OwnEnv, FixedEnv, AddedEnv
  <2> QED
    BY <1>1, <1>2, <2>1, <2>2
<1>4. CASE ~opts.otelSidecarEnabled
  <2>1. DOMAIN SentEnv(opts) \subseteq DOMAIN opts.otelEnv
    BY <1>4 DEF SentEnv, OtelEnv
  <2> QED
    BY <1>1, <1>2, <2>1, OtelNames
<1> QED
  BY <1>3, <1>4

\* What telemetry changes in the environment.
LEMMA MeasuredEnvContent ==
    ASSUME NEW sp, NEW opts \in Options
    PROVE  LET e == MeasuredEnv(sp, opts)
               before == SourcedEnv(sp, opts)
               telemetry == TelemetryEnv(opts)
           IN  /\ IsEnv(e)
               /\ \A t \in telemetry : t[1] \in DOMAIN e /\ e[t[1]] = <<t[2]>>
               /\ \A t \in telemetry : t[1] \notin DOMAIN FixedEnv \cup AddedEnv
               /\ \A n \in DOMAIN before :
                      (\A t \in telemetry : t[1] # n) => n \in DOMAIN e /\ e[n] = before[n]
<1> DEFINE e4 == SourcedEnv(sp, opts)
           enabled == EnabledEnv(opts)
           sent == SentEnv(opts)
           e5 == SetEnv(e4, enabled)
           e6 == SetEnv(e5, sent)
           fixed == DOMAIN FixedEnv \cup AddedEnv
<1>1. /\ IsEnv(e4)
      /\ \A n \in DOMAIN e4 \ fixed : Len(e4[n]) = 1
  BY SourcedEnvContent
<1>2. DOMAIN enabled \subseteq OwnEnv \ fixed /\ DOMAIN sent \cap OwnEnv = {}
  BY TelemetryNames
<1>3. fixed \subseteq OwnEnv
  BY DEF OwnEnv
<1>4. CASE ~Telemetry(opts)
  <2>1. TelemetryEnv(opts) = {} /\ MeasuredEnv(sp, opts) = e4
    BY <1>4 DEF TelemetryEnv, MeasuredEnv
  <2> HIDE DEF e4
  <2>2. /\ IsEnv(MeasuredEnv(sp, opts))
        /\ \A n \in DOMAIN e4 : n \in DOMAIN MeasuredEnv(sp, opts)
                                /\ MeasuredEnv(sp, opts)[n] = e4[n]
    BY <1>1, <2>1
  <2> QED
    BY <2>1, <2>2 DEF e4
<1>5. CASE Telemetry(opts)
  <2>1. /\ TelemetryEnv(opts) = {<<n, enabled[n]>> : n \in DOMAIN enabled}
                                \cup {<<n, sent[n]>> : n \in DOMAIN sent}
        /\ MeasuredEnv(sp, opts) = e6
    BY <1>5 DEF TelemetryEnv, MeasuredEnv, SentEnv
  <2>2. Sets(e4, enabled, e5)
    BY <1>1, SetEnvContent
  <2>3. IsEnv(e5)
    BY <2>2 DEF Sets
  <2>4. Sets(e5, sent, e6)
    BY <2>3, SetEnvContent
  <2> HIDE DEF e4, e5, e6, enabled, sent, fixed
  <2>5. \A n \in DOMAIN enabled : n \notin fixed /\ n \in DOMAIN e6 /\ e6[n] = <<enabled[n]>>
    BY <1>1, <1>2, <2>2, <2>4 DEF Sets
  <2>6. \A n \in DOMAIN sent : n \notin fixed /\ n \in DOMAIN e6 /\ e6[n] = <<sent[n]>>
    <3> TAKE n \in DOMAIN sent
    <3>1. n \notin fixed /\ n \notin DOMAIN enabled
      BY <1>2, <1>3
    <3>2. n \in DOMAIN e5 => Len(e5[n]) = 1
      BY <1>1, <2>2, <3>1 DEF Sets
    <3> QED
      BY <2>4, <3>1, <3>2 DEF Sets
  <2>7. \A n \in DOMAIN e4 \ (DOMAIN enabled \cup DOMAIN sent) : n \in DOMAIN e6 /\ e6[n] = e4[n]
    BY <2>2, <2>4 DEF Sets
  <2>8. \A t \in TelemetryEnv(opts) :
            t[1] \notin fixed /\ t[1] \in DOMAIN e6 /\ e6[t[1]] = <<t[2]>>
    BY <2>1, <2>5, <2>6
  <2>9. \A n \in DOMAIN enabled \cup DOMAIN sent : \E t \in TelemetryEnv(opts) : t[1] = n
    <3>1. \A n \in DOMAIN enabled : <<n, enabled[n]>> \in TelemetryEnv(opts)
      BY <2>1
    <3>2. \A n \in DOMAIN sent : <<n, sent[n]>> \in TelemetryEnv(opts)
      BY <2>1
    <3>3. \A n, v : <<n, v>>[1] = n
      OBVIOUS
    <3> QED
      BY <3>1, <3>2, <3>3
  <2>10. \A n \in DOMAIN e4 :
             (\A t \in TelemetryEnv(opts) : t[1] # n) => n \in DOMAIN e6 /\ e6[n] = e4[n]
    BY <2>7, <2>9
  <2>11. IsEnv(e6)
    BY <2>4 DEF Sets
  <2> QED
    BY <2>1, <2>8, <2>10, <2>11 DEF e4, fixed
<1> QED
  BY <1>4, <1>5

\* The environment of the template: the two files the policy server is told of, the
\* telemetry settings, and the user's variables.
LEMMA TemplateEnvContent ==
    ASSUME NEW sp, NEW opts \in Options
    PROVE  LET e == PodTemplate(sp, opts).env
               telemetry == TelemetryEnv(opts)
           IN  /\ sp.verificationConfig # "" =>
                      /\ "KUBEWARDEN_VERIFICATION_CONFIG_PATH" \in DOMAIN e
                      /\ Effective(e, "KUBEWARDEN_VERIFICATION_CONFIG_PATH")
                             = Join(<<"verification">>, "verification.yml")
               /\ HasSources(sp) =>
                      /\ "KUBEWARDEN_SOURCES_PATH" \in DOMAIN e
                      /\ Effective(e, "KUBEWARDEN_SOURCES_PATH")
                             = Join(<<"sources">>, "sources.yml")
               /\ \A t \in telemetry : t[1] \in DOMAIN e /\ Effective(e, t[1]) = t[2]
               /\ \A n \in DOMAIN sp.env \ AddedEnv :
                      (\A t \in telemetry : t[1] # n) =>
                          n \in DOMAIN e /\ Effective(e, n) = sp.env[n]
<1> DEFINE e4 == SourcedEnv(sp, opts)
           e6 == MeasuredEnv(sp, opts)
           e7 == TemplateEnv(sp, opts)
           telemetry == TelemetryEnv(opts)
           files == <<Join(<<"ca">>, "ca.crt"), Join(<<"client-ca">>, "client-ca.crt")>>
           authority == "KUBEWARDEN_CLIENT_CA_FILE"
           verify == "KUBEWARDEN_VERIFICATION_CONFIG_PATH"
           source == "KUBEWARDEN_SOURCES_PATH"
           verification == Join(<<"verification">>, "verification.yml")
           sources == Join(<<"sources">>, "sources.yml")
<1>1. PodTemplate(sp, opts).env = e7
  BY TemplateContent
<1>2. /\ \A n \in DOMAIN sp.env \ AddedEnv : n \in DOMAIN e4 /\ Effective(e4, n) = sp.env[n]
      /\ sp.verificationConfig # "" => verify \in DOMAIN e4 /\ Effective(e4, verify) = verification
      /\ HasSources(sp) => source \in DOMAIN e4 /\ Effective(e4, source) = sources
  BY SourcedEnvContent
<1>3. /\ IsEnv(e6)
      /\ \A t \in telemetry : t[1] \in DOMAIN e6 /\ e6[t[1]] = <<t[2]>>
      /\ \A t \in telemetry : t[1] \notin DOMAIN FixedEnv \cup AddedEnv
      /\ \A n \in DOMAIN e4 : (\A t \in telemetry : t[1] # n) => n \in DOMAIN e6 /\ e6[n] = e4[n]
  BY MeasuredEnvContent
<1>4. MaybeAdds(e6, opts.clientCAConfigMapName = "", authority, files, e7)
  <2>1. e7 = MaybeAdded(e6, opts.clientCAConfigMapName = "", authority, files)
    BY DEF TemplateEnv, MaybeAdded
  <2> HIDE DEF e6, e7, files
  <2> QED
    BY <1>3, <2>1, MaybeAddedContent
<1>5. authority \in AddedEnv /\ verify \in AddedEnv /\ source \in AddedEnv
  BY DEF AddedEnv
<1> HIDE DEF e4, e6, e7, telemetry, files, verification, sources
<1>6. \A n \in DOMAIN e6 \ {authority} : n \in DOMAIN e7 /\ e7[n] = e6[n]
  BY <1>4 DEF MaybeAdds
<1>7. \A t \in telemetry : t[1] \in DOMAIN e7 /\ Effective(e7, t[1]) = t[2]
  <2> TAKE t \in telemetry
  <2>1. t[1] \in DOMAIN e7 /\ e7[t[1]] = <<t[2]>>
    BY <1>3, <1>5, <1>6
  <2> QED
    BY <2>1 DEF Effective
<1>8. \A n \in DOMAIN e4 \ {authority} :
          (\A t \in telemetry : t[1] # n) => n \in DOMAIN e7 /\ Effective(e7, n) = Effective(e4, n)
  BY <1>3, <1>6 DEF Effective
<1>9. \A t \in telemetry : t[1] # verify /\ t[1] # source
  BY <1>3, <1>5
<1>10. /\ sp.verificationConfig # "" => verify \in DOMAIN e7 /\ Effective(e7, verify) = verification
       /\ HasSources(sp) => source \in DOMAIN e7 /\ Effective(e7, source) = sources
  BY <1>2, <1>8, <1>9
<1>11. \A n \in DOMAIN sp.env \ AddedEnv :
           (\A t \in telemetry : t[1] # n) => n \in DOMAIN e7 /\ Effective(e7, n) = sp.env[n]
  BY <1>2, <1>5, <1>8
<1> QED
  BY <1>1, <1>7, <1>10, <1>11 DEF telemetry, verification, sources

-----------------------------------------------------------------------------
(* Policies *)

\* The entry of a policy has all six fields, and a module or members.
LEMMA EntryContent ==
    ASSUME NEW p, p.kind \in PolicyKinds,
           IsGroup(p) => DOMAIN p.members # {}, IsGroup(p) \/ p.module # ""
    PROVE  /\ IsConfigEntry(PolicyServerConfigEntry(p))
           /\ UnmarshalJSON(MarshalJSON(PolicyServerConfigEntry(p))) = PolicyServerConfigEntry(p)
<1> DEFINE entry == PolicyServerConfigEntry(p)
           json == MarshalJSON(entry)
           fields == {"namespacedName", "module", "policyMode", "allowedToMutate",
                      "contextAwareResources", "policies"}
<1>1. /\ entry = [f \in fields |-> entry[f]]
      /\ entry.module = GetModule(p)
      /\ entry.allowedToMutate = IsMutating(p)
      /\ entry.contextAwareResources = GetContextAwareResources(p)
      /\ entry.policies = IF IsGroup(p) THEN GetPolicyGroupMembersWithContext(p) ELSE NoMembers
  BY DEF PolicyServerConfigEntry
<1>2. /\ DOMAIN ZeroEntry = fields
      /\ ZeroEntry.module = "" /\ ZeroEntry.allowedToMutate = FALSE
      /\ ZeroEntry.contextAwareResources = {} /\ ZeroEntry.policies = NoMembers
  BY DEF ZeroEntry
<1>3. DOMAIN NoMembers = {}
  BY DEF NoMembers
<1>4. UnmarshalJSON(json) = [f \in fields |-> IF f \in DOMAIN json THEN json[f] ELSE ZeroEntry[f]]
  BY <1>2 DEF UnmarshalJSON
<1> HIDE DEF entry
<1>5. CASE IsGroup(p)
  <2>1. /\ entry.module = "" /\ entry.allowedToMutate = FALSE
        /\ entry.contextAwareResources = {} /\ DOMAIN entry.policies # {}
    BY <1>1, <1>5 DEF GetModule, IsMutating, GetContextAwareResources, IsGroup,
                      GetPolicyGroupMembersWithContext
  <2>2. json = [f \in {"namespacedName", "policyMode", "policies"} |-> entry[f]]
    BY <2>1 DEF MarshalJSON
  <2> HIDE DEF json
  <2>3. \A f \in fields : (IF f \in DOMAIN json THEN json[f] ELSE ZeroEntry[f]) = entry[f]
    BY <1>2, <2>1, <2>2
  <2>4. UnmarshalJSON(json) = entry
    BY <1>1, <1>4, <2>3
  <2> QED
    BY <2>1, <2>4 DEF entry, json, IsConfigEntry
<1>6. CASE ~IsGroup(p)
  <2>1. entry.module # "" /\ entry.policies = NoMembers
    BY <1>1, <1>6 DEF GetModule
  <2>2. json = [f \in {"namespacedName", "module", "policyMode", "allowedToMutate"}
                      \cup (IF entry.contextAwareResources = {} THEN {}
                            ELSE {"contextAwareResources"}) |-> entry[f]]
    BY <1>3, <2>1 DEF MarshalJSON
  <2> HIDE DEF json
  <2>3. \A f \in fields : (IF f \in DOMAIN json THEN json[f] ELSE ZeroEntry[f]) = entry[f]
    BY <1>2, <2>1, <2>2
  <2>4. UnmarshalJSON(json) = entry
    BY <1>1, <1>4, <2>3
  <2> QED
    BY <1>3, <2>1, <2>4 DEF entry, json, IsConfigEntry
<1> QED
  BY <1>5, <1>6

\* With names of their own the policies do not overwrite each other's entries.
LEMMA PoliciesMapContent ==
    ASSUME NEW list, list \in Seq(Range(list)), Distinguished(list)
    PROVE  /\ DOMAIN BuildPoliciesMap(list) = {GetUniqueName(list[i]) : i \in DOMAIN list}
           /\ \A i \in DOMAIN list :
                  BuildPoliciesMap(list)[GetUniqueName(list[i])] = PolicyServerConfigEntry(list[i])
<1> DEFINE last(name) == CHOOSE i \in DOMAIN list :
               /\ GetUniqueName(list[i]) = name
               /\ \A j \in (i + 1)..Len(list) : GetUniqueName(list[j]) # name
<1>1. /\ DOMAIN list = 1..Len(list) /\ Len(list) \in Nat
      /\ \A i, j \in DOMAIN list : GetUniqueName(list[i]) = GetUniqueName(list[j]) => i = j
  <2>1. DOMAIN list = 1..Len(list) /\ Len(list) \in Nat
    OBVIOUS
  <2> QED
    BY <2>1 DEF Distinguished
<1>2. \A i \in DOMAIN list : last(GetUniqueName(list[i])) = i
  <2> TAKE i \in DOMAIN list
  <2> DEFINE P(k) == /\ GetUniqueName(list[k]) = GetUniqueName(list[i])
                     /\ \A j \in (k + 1)..Len(list) : GetUniqueName(list[j]) # GetUniqueName(list[i])
  <2>1. \A j \in (i + 1)..Len(list) : j \in DOMAIN list /\ j # i
    BY <1>1
  <2>2. P(i)
    BY <1>1, <2>1
  <2>3. \A k \in DOMAIN list : P(k) => k = i
    BY <1>1
  <2>4. last(GetUniqueName(list[i])) = CHOOSE k \in DOMAIN list : P(k)
    OBVIOUS
  <2> HIDE DEF P, last
  <2> QED
    BY <2>2, <2>3, <2>4
<1>3. BuildPoliciesMap(list) =
          [name \in {GetUniqueName(list[i]) : i \in DOMAIN list} |->
              PolicyServerConfigEntry(list[last(name)])]
  BY DEF BuildPoliciesMap
<1> HIDE DEF last
<1> QED
  BY <1>2, <1>3

\* What the controllers of the policies read back from a ConfigMap is what the
\* PolicyServer's reconciliation wrote there.
LEMMA EntriesReadBack ==
    ASSUME NEW list \in PolicyLists, Distinguished(list), NEW sp
    PROVE  LET map == GetPolicyMapFromConfigMap(UpdateConfigMapData(sp, list))
           IN  /\ map.readable = TRUE
               /\ DOMAIN map.entries = {GetUniqueName(p) : p \in Range(list)}
               /\ \A p \in Range(list) :
                      map.entries[GetUniqueName(p)] = PolicyServerConfigEntry(p)
<1> DEFINE configMap == UpdateConfigMapData(sp, list)
           map == GetPolicyMapFromConfigMap(configMap)
           built == BuildPoliciesMap(list)
           names == {GetUniqueName(p) : p \in Range(list)}
<1>1. \A p \in Range(list) :
          /\ IsConfigEntry(PolicyServerConfigEntry(p))
          /\ UnmarshalJSON(MarshalJSON(PolicyServerConfigEntry(p))) = PolicyServerConfigEntry(p)
  <2> TAKE p \in Range(list)
  <2>1. p.kind \in PolicyKinds /\ (IsGroup(p) => DOMAIN p.members # {})
    BY PoliciesAssumption
  <2>2. IsGroup(p) \/ p.module # ""
    BY DEF Distinguished, Range
  <2> QED
    BY <2>1, <2>2, EntryContent
<1>2. /\ DOMAIN built = names
      /\ \A p \in Range(list) : built[GetUniqueName(p)] = PolicyServerConfigEntry(p)
  <2>1. list \in Seq(Range(list))
    BY PoliciesAssumption
  <2>2. /\ DOMAIN built = {GetUniqueName(list[i]) : i \in DOMAIN list}
        /\ \A i \in DOMAIN list : built[GetUniqueName(list[i])] = PolicyServerConfigEntry(list[i])
    BY <2>1, PoliciesMapContent
  <2> HIDE DEF built
  <2> QED
    BY <2>2 DEF Range
<1>3. configMap.policies = [name \in DOMAIN built |-> MarshalJSON(built[name])]
  BY DEF UpdateConfigMapData, PoliciesYML
<1> DEFINE read == [name \in DOMAIN configMap.policies |->
                       UnmarshalJSON(configMap.policies[name])]
<1>4. /\ map.entries = read
      /\ map.readable = \A name \in DOMAIN read : IsConfigEntry(read[name])
  BY DEF GetPolicyMapFromConfigMap
<1> HIDE DEF configMap, map, built
<1>5. /\ DOMAIN read = names
      /\ \A p \in Range(list) : read[GetUniqueName(p)] = PolicyServerConfigEntry(p)
  BY <1>1, <1>2, <1>3
<1> HIDE DEF read
<1>6. \A name \in DOMAIN read : IsConfigEntry(read[name])
  BY <1>1, <1>5
<1> QED
  BY <1>4, <1>5, <1>6 DEF map, configMap

\* An event of a pod reaches the controllers of all policies in the ConfigMap.
LEMMA RequestsReachPolicies ==
    ASSUME NEW list \in PolicyLists, Distinguished(list), NEW sp
    PROVE  LET configMap == UpdateConfigMapData(sp, list)
               named(kinds) == {NamespacedName(p) : p \in {q \in Range(list) : q.kind \in kinds}}
           IN  /\ ToAdmissionPolicyReconcileRequests(configMap)
                      = named({"AdmissionPolicy", "AdmissionPolicyGroup"})
               /\ ToClusterAdmissionPolicyReconcileRequests(configMap)
                      = named({"ClusterAdmissionPolicy", "ClusterAdmissionPolicyGroup"})
<1> DEFINE configMap == UpdateConfigMapData(sp, list)
           map == GetPolicyMapFromConfigMap(configMap)
           listed == Range(list)
           requests == ReconcileRequests(configMap)
<1>1. /\ map.readable = TRUE
      /\ DOMAIN map.entries = {GetUniqueName(p) : p \in listed}
      /\ \A p \in listed : map.entries[GetUniqueName(p)] = PolicyServerConfigEntry(p)
  BY EntriesReadBack
<1>2. requests = {map.entries[name].namespacedName : name \in DOMAIN map.entries}
  BY <1>1 DEF ReconcileRequests
<1>3. \A p \in listed : PolicyServerConfigEntry(p).namespacedName = NamespacedName(p)
  BY DEF PolicyServerConfigEntry
<1>4. \A p \in listed :
          /\ NamespacedName(p).namespace = p.namespace
          /\ p.namespace # <<>> <=> p.kind \in {"AdmissionPolicy", "AdmissionPolicyGroup"}
          /\ p.namespace = <<>> <=>
                 p.kind \in {"ClusterAdmissionPolicy", "ClusterAdmissionPolicyGroup"}
  <2> TAKE p \in listed
  <2>1. p.kind \in PolicyKinds /\ (IsNamespaced(p) <=> p.namespace # <<>>)
    BY PoliciesAssumption
  <2> QED
    BY <2>1 DEF PolicyKinds, IsNamespaced, NamespacedName
<1>5. /\ ToAdmissionPolicyReconcileRequests(configMap) = {r \in requests : r.namespace # <<>>}
      /\ ToClusterAdmissionPolicyReconcileRequests(configMap) =
             {r \in requests : r.namespace = <<>>}
  BY DEF ToAdmissionPolicyReconcileRequests, ToClusterAdmissionPolicyReconcileRequests
<1> HIDE DEF configMap, map, listed, requests
<1>6. requests = {NamespacedName(p) : p \in listed}
  BY <1>1, <1>2, <1>3
<1>7. {r \in requests : r.namespace # <<>>} =
          {NamespacedName(p) : p \in {q \in listed :
                                         q.kind \in {"AdmissionPolicy", "AdmissionPolicyGroup"}}}
  BY <1>4, <1>6
<1>8. {r \in requests : r.namespace = <<>>} =
          {NamespacedName(p) : p \in {q \in listed :
              q.kind \in {"ClusterAdmissionPolicy", "ClusterAdmissionPolicyGroup"}}}
  BY <1>4, <1>6
<1> QED
  BY <1>5, <1>7, <1>8 DEF configMap, listed
=============================================================================
