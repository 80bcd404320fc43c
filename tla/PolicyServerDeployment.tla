----------------------- MODULE PolicyServerDeployment -----------------------
(***************************************************************************)
(* The pod template that the PolicyServer reconciler computes from the     *)
(* spec of a PolicyServer, the flags of the controller and the controller's *)
(* own OTEL_* environment.                                                 *)
(*                                                                         *)
(* A path is the sequence of its elements and an absent reference is "".   *)
(* A list of environment variables is the function from their names to the *)
(* values given for each, in order: a container sees the last one, and the *)
(* order of different names makes no difference.                           *)
(* The fields that are only copied into the template (image, affinity,     *)
(* tolerations, resources, service account) are the one field image.       *)
(***************************************************************************)
EXTENDS Integers, Sequences, FiniteSets

\* filepath.Join and filepath.Dir; the directory of "" is ".".
Join(dir, file) == Append(dir, file)
Dir(path) == IF path = <<>> THEN <<".">> ELSE SubSeq(path, 1, Len(path) - 1)

VolumeMount(name, path) == [name |-> name, path |-> path]
Volume(name, kind, source) == [name |-> name, kind |-> kind, source |-> source]

\* NameWithPrefix: Secret, ConfigMap, Deployment, Service and
\* PodDisruptionBudget of a PolicyServer all have this name.
NameWithPrefix == "policy-server"

\* The namespace of the policy servers and the controller.
DeploymentsNamespace == <<"deployments", "namespace">>

HasSources(spec) == spec.insecureSources # {} \/ DOMAIN spec.sourceAuthorities # {}

-----------------------------------------------------------------------------
(* The container *)

FixedEnv ==
    [KUBEWARDEN_CERT_FILE |-> Join(<<"pki">>, "tls.crt"),
     KUBEWARDEN_KEY_FILE |-> Join(<<"pki">>, "tls.key"),
     KUBEWARDEN_PORT |-> <<"8443">>,
     KUBEWARDEN_READINESS_PROBE_PORT |-> <<"8081">>,
     KUBEWARDEN_POLICIES_DOWNLOAD_DIR |-> <<"tmp">>,
     KUBEWARDEN_POLICIES |-> Join(<<"config">>, "policies.yml"),
     KUBEWARDEN_SIGSTORE_CACHE_DIR |-> <<"tmp", "sigstore-data">>]

\* The variables that are added on some condition, all those the controller sets by
\* name, and the directories it mounts.
AddedEnv == {"KUBEWARDEN_ALWAYS_ACCEPT_ADMISSION_REVIEWS_ON_NAMESPACE",
             "KUBEWARDEN_VERIFICATION_CONFIG_PATH", "KUBEWARDEN_DOCKER_CONFIG_JSON_PATH",
             "KUBEWARDEN_SOURCES_PATH", "KUBEWARDEN_CLIENT_CA_FILE"}
OwnEnv == DOMAIN FixedEnv \cup AddedEnv
          \cup {"KUBEWARDEN_ENABLE_METRICS", "KUBEWARDEN_LOG_FMT"}
OwnDirectories == {<<"pki">>, <<"config">>, <<"tmp">>, <<"verification">>, <<"sources">>,
                   <<"home", "kubewarden", ".docker">>, <<"ca">>, <<"client-ca">>}

Values(env, name) == IF name \in DOMAIN env THEN env[name] ELSE <<>>

\* One variable more at the end of the list.
AddEnv(env, name, value) ==
    [n \in DOMAIN env \cup {name} |->
        IF n = name THEN Append(Values(env, name), value) ELSE env[n]]

\* The user's variables, which have different names, come after the fixed ones.
ContainerEnv(spec) ==
    [n \in DOMAIN FixedEnv \cup DOMAIN spec.env |->
        IF n \notin DOMAIN spec.env THEN <<FixedEnv[n]>>
        ELSE IF n \in DOMAIN FixedEnv THEN <<FixedEnv[n], spec.env[n]>>
        ELSE <<spec.env[n]>>]

GetPolicyServerContainer(spec) ==
    [image |-> spec.image,
     mounts |-> {VolumeMount("certs", <<"pki">>), VolumeMount("policies", <<"config">>),
                 VolumeMount("policy-store", <<"tmp">>)},
     env |-> ContainerEnv(spec)]

\* One more mount and the variable that tells the policy server about it.
WithMount(container, mount, name, value) ==
    [container EXCEPT !.mounts = @ \cup {mount}, !.env = AddEnv(@, name, value)]

ConfigureVerificationConfig(spec, container) ==
    IF spec.verificationConfig = "" THEN container
    ELSE WithMount(container, VolumeMount("verification", <<"verification">>),
                   "KUBEWARDEN_VERIFICATION_CONFIG_PATH",
                   Join(<<"verification">>, "verification.yml"))

ConfigureImagePullSecret(spec, container) ==
    LET path == <<"home", "kubewarden", ".docker">>
    IN  IF spec.imagePullSecret = "" THEN container
        ELSE WithMount(container, VolumeMount("imagepullsecret", path),
                       "KUBEWARDEN_DOCKER_CONFIG_JSON_PATH", path)

AuthoritiesNotMounted(spec, container) ==
    IF spec.insecureSources = {} THEN container
    ELSE WithMount(container, VolumeMount("sources", <<"sources">>),
                   "KUBEWARDEN_SOURCES_PATH", Join(<<"sources">>, "sources.yml"))

ConfiguresInsecureSources(spec, container) ==
    IF ~HasSources(spec) THEN container
    ELSE WithMount(container, VolumeMount("sources", <<"sources">>),
                   "KUBEWARDEN_SOURCES_PATH", Join(<<"sources">>, "sources.yml"))

AlwaysAccept(options, container) ==
    IF ~options.alwaysAccept THEN container
    ELSE [container EXCEPT !.env = AddEnv(@,
              "KUBEWARDEN_ALWAYS_ACCEPT_ADMISSION_REVIEWS_ON_NAMESPACE",
              DeploymentsNamespace)]

DefaultContainerSecurityContext == "default"

SecurityContext(spec) ==
    [pod |-> spec.securityContexts.pod,
     container |-> IF spec.securityContexts.container = "" THEN DefaultContainerSecurityContext
                   ELSE spec.securityContexts.container]

-----------------------------------------------------------------------------
(* Telemetry *)

EnvVarsContainVariable(env, name) == name \in DOMAIN env

KeepEnv(env, new) ==
    [n \in DOMAIN env \cup DOMAIN new |->
        IF EnvVarsContainVariable(env, n) THEN env[n] ELSE <<new[n]>>]

\* Each of the variables new replaces the first one of its name or is appended.
SetEnv(env, new) ==
    [n \in DOMAIN env \cup DOMAIN new |->
        IF n \notin DOMAIN new THEN env[n]
        ELSE IF EnvVarsContainVariable(env, n) THEN [env[n] EXCEPT ![1] = new[n]]
        ELSE <<new[n]>>]

\* A variable of the controller's own environment; options.otelEnv are those of
\* the ones to be replicated that are set.
OtelValue(options, name) ==
    IF name \in DOMAIN options.otelEnv THEN options.otelEnv[name] ELSE <<>>

OtelEnv(options) ==
    [n \in {m \in DOMAIN options.otelEnv : OtelValue(options, m) # <<>>} |->
        OtelValue(options, n)]

ReplicateOtelEnvVars(options, env) == SetEnv(env, OtelEnv(options))

OtelCertificate(options) ==
    [secret |-> options.otelCertificateSecret, volume |-> "otel-collector-certificate",
     path |-> Dir(OtelValue(options, "OTEL_EXPORTER_OTLP_CERTIFICATE"))]
OtelClientCertificate(options) ==
    [secret |-> options.otelClientCertificateSecret,
     volume |-> "otel-collector-client-certificate",
     path |-> Dir(OtelValue(options, "OTEL_EXPORTER_OTLP_CLIENT_CERTIFICATE"))]

SetOtelCertificateMounts(options, pod) ==
    LET given == {c \in {OtelCertificate(options), OtelClientCertificate(options)} :
                      c.secret # ""}
    IN  [pod EXCEPT !.volumes = @ \cup {Volume(c.volume, "Secret", c.secret) : c \in given},
                    !.mounts = @ \cup {VolumeMount(c.volume, c.path) : c \in given}]

Telemetry(options) == options.metricsEnabled \/ options.tracingEnabled

EnabledEnv(options) ==
    [n \in (IF options.metricsEnabled THEN {"KUBEWARDEN_ENABLE_METRICS"} ELSE {})
           \cup (IF options.tracingEnabled THEN {"KUBEWARDEN_LOG_FMT"} ELSE {}) |->
        IF n = "KUBEWARDEN_LOG_FMT" THEN <<"otlp">> ELSE <<"true">>]

SidecarEnv == [OTEL_EXPORTER_OTLP_ENDPOINT |-> <<"http://localhost:4317">>]

AdaptDeploymentForMetricsAndTracingConfiguration(options, pod) ==
    LET env == SetEnv(pod.env, EnabledEnv(options))
    IN  IF ~Telemetry(options) THEN pod
        ELSE IF options.otelSidecarEnabled
        THEN [pod EXCEPT !.env = SetEnv(env, SidecarEnv)]
        ELSE [SetOtelCertificateMounts(options, pod) EXCEPT
                  !.env = ReplicateOtelEnvVars(options, env)]

\* The sidecar is asked for by an annotation of the template.
TemplateAnnotations(spec, options) ==
    spec.annotations \cup
    IF Telemetry(options) /\ options.otelSidecarEnabled
    THEN {"sidecar.opentelemetry.io/inject"} ELSE {}

-----------------------------------------------------------------------------
(* The template *)

BuildPolicyServerDeploymentSpec(container, security) ==
    [image |-> container.image, security |-> security,
     mounts |-> container.mounts, env |-> container.env,
     volumes |-> {Volume("policy-store", "EmptyDir", ""),
                  Volume("certs", "Secret", NameWithPrefix),
                  Volume("policies", "ConfigMap", NameWithPrefix)}]

AdaptDeploymentSettingsForPolicyServer(spec, pod) ==
    LET added == (IF spec.verificationConfig = "" THEN {}
                  ELSE {Volume("verification", "ConfigMap", spec.verificationConfig)})
                 \cup (IF spec.imagePullSecret = "" THEN {}
                       ELSE {Volume("imagepullsecret", "Secret", spec.imagePullSecret)})
                 \cup (IF ~HasSources(spec) THEN {}
                       ELSE {Volume("sources", "ConfigMap", NameWithPrefix)})
    IN  [pod EXCEPT !.volumes = @ \cup added]

\* The client CA ConfigMap has to be there: see DeploymentFails of
\* PolicyServerObjects.
ConfigureMutualTLS(options, pod) ==
    IF options.clientCAConfigMapName = "" THEN pod
    ELSE [pod EXCEPT
            !.volumes = @ \cup {Volume("kubewarden-ca-cert", "Secret", "kubewarden-ca"),
                                Volume("client-ca-cert", "ConfigMap",
                                       options.clientCAConfigMapName)},
            !.mounts = @ \cup {VolumeMount("kubewarden-ca-cert", <<"ca">>),
                               VolumeMount("client-ca-cert", <<"client-ca">>)},
            !.env = AddEnv(@, "KUBEWARDEN_CLIENT_CA_FILE",
                           <<Join(<<"ca">>, "ca.crt"),
                             Join(<<"client-ca">>, "client-ca.crt")>>)]

\* updatePolicyServerDeployment up to the metadata.
PodTemplate(spec, options) ==
    LET accepting == AlwaysAccept(options, GetPolicyServerContainer(spec))
        verified == ConfigureVerificationConfig(spec, accepting)
        pulling == ConfigureImagePullSecret(spec, verified)
        container == ConfiguresInsecureSources(spec, pulling)
        built == BuildPolicyServerDeploymentSpec(container, SecurityContext(spec))
        measured == AdaptDeploymentForMetricsAndTracingConfiguration(options, built)
    IN  ConfigureMutualTLS(options, AdaptDeploymentSettingsForPolicyServer(spec, measured))
=============================================================================
