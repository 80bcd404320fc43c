----------------------- MODULE MCPolicyServerObjects -----------------------
(* PolicyServer specs, policies and controller flags for TLC. *)
EXTENDS PolicyServerObjects

Plain == [replicas |-> 1, minAvailable |-> 0, maxUnavailable |-> 0, image |-> "image",
          annotations |-> {}, env |-> NoMembers, imagePullSecret |-> "",
          insecureSources |-> {}, sourceAuthorities |-> [uri \in {} |-> <<>>],
          verificationConfig |-> "", securityContexts |-> [pod |-> "", container |-> ""]]

\* Two specs that differ from Plain in the fields the code looks at, one budget each.
Secured == [Plain EXCEPT !.minAvailable = 1, !.verificationConfig = "verification",
               !.imagePullSecret = "pull", !.securityContexts.container = "strict",
               !.env = [KUBEWARDEN_LOG_FMT |-> <<"json">>, KUBEWARDEN_PORT |-> <<"443">>,
                         KUBEWARDEN_VERIFICATION_CONFIG_PATH |-> <<"mine">>]]
Sourced == [Plain EXCEPT !.replicas = 2, !.maxUnavailable = 1, !.annotations = {"team"},
               !.sourceAuthorities = [uri \in {"registry"} |-> <<"cert">>],
               !.env = [OTEL_EXPORTER_OTLP_ENDPOINT |-> <<"mine">>]]

MCSpecs == {Plain, Secured, Sourced}

NoOptions == [metricsEnabled |-> FALSE, tracingEnabled |-> FALSE,
              otelSidecarEnabled |-> FALSE, otelCertificateSecret |-> "",
              otelClientCertificateSecret |-> "", otelEnv |-> NoMembers,
              alwaysAccept |-> FALSE, clientCAConfigMapName |-> "", metricsPort |-> 0,
              matchConditions |-> TRUE]
Sidecar == [NoOptions EXCEPT !.metricsEnabled = TRUE, !.tracingEnabled = TRUE,
               !.otelSidecarEnabled = TRUE, !.alwaysAccept = TRUE]
Remote == [NoOptions EXCEPT !.metricsEnabled = TRUE, !.otelCertificateSecret = "otel",
              !.otelClientCertificateSecret = "otel-client", !.metricsPort = 9090,
              !.clientCAConfigMapName = "client-ca", !.matchConditions = FALSE,
              !.otelEnv = [OTEL_EXPORTER_OTLP_ENDPOINT |-> <<"collector">>,
                            OTEL_EXPORTER_OTLP_CERTIFICATE |-> <<"otel", "ca.crt">>,
                            OTEL_EXPORTER_OTLP_CLIENT_CERTIFICATE |->
                                <<"otel-client", "tls.crt">>]]

MCOptions == {Sidecar, Remote}

Policy == [kind |-> "AdmissionPolicy", namespace |-> <<>>, name |-> <<"labels">>,
           mode |-> "protect", mutating |-> FALSE, module |-> "module", context |-> {},
           members |-> NoMembers, rules |-> {[resource |-> "pods", scope |-> "*"]},
           namespaceSelector |-> NoSelector, sideEffects |-> "", matchConditions |-> {"cel"}]
Members == [m \in {"a", "b"} |-> [module |-> m, context |-> {"pods"}]]
NotTest == [NoSelector EXCEPT !.matchExpressions =
               {[key |-> "env", operator |-> "NotIn", values |-> {<<"test">>}]}]
Production == [NoSelector EXCEPT !.matchLabels = [k \in {"env"} |-> <<"production">>]]

\* One policy of each kind; they share the name and the namespace.
Namespaced == [Policy EXCEPT !.namespace = <<"team", "a">>, !.mutating = TRUE]
NamespacedGroup == [Policy EXCEPT !.kind = "AdmissionPolicyGroup", !.members = Members,
                       !.namespace = <<"team", "a">>, !.module = ""]
ClusterWide == [Policy EXCEPT !.kind = "ClusterAdmissionPolicy", !.context = {"pods"},
                   !.namespaceSelector = NotTest]
ClusterWideGroup == [Policy EXCEPT !.kind = "ClusterAdmissionPolicyGroup", !.module = "",
                        !.members = Members]

MCPolicyLists == { <<[Namespaced EXCEPT !.mode = "monitor"]>>,
                   <<ClusterWide, Namespaced, NamespacedGroup, ClusterWideGroup>> }
MCLabelledLists == { <<[ClusterWide EXCEPT !.namespaceSelector = Production]>> }

Namespace(name, env) ==
    [name |-> name,
     labels |-> [k \in {NameLabel, "env"} |-> IF k = NameLabel THEN name ELSE env]]
MCNamespaces == {Namespace(<<"team", "a">>, <<"production">>), Namespace(<<"team", "b">>, <<"test">>),
                 Namespace(DeploymentsNamespace, <<"production">>)}

MCNoneSlow == {{}}
MCSlowInformers == {{"server"}, {"configMap"}, {"pdb"}}
=============================================================================
