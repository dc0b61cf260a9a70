------------------------------ MODULE Rendering ------------------------------
(***************************************************************************)
(* What the operator renders from the Kubernaut spec: for every component  *)
(* a ConfigMap, which names files, and a Deployment, which mounts the      *)
(* objects those files come from.  The two are built by different code     *)
(* (resources/configmaps.go and resources/deployments.go), at different    *)
(* points of phaseDeploy and possibly from different copies of the spec:   *)
(*   - deployConfigMaps uses the copy `kn` of the pass and a deep copy of  *)
(*     it, the monitoring view;                                            *)
(*   - reconcileNetworkPolicies then patches the status, and the patch     *)
(*     overwrites `kn` with the persisted object, spec included;           *)
(*   - the Deployments are built from the refreshed `kn` and the old view. *)
(* A file is a record [path, dir, from]: in a ConfigMap, "this path is     *)
(* read and must hold the material of object `from`"; in a Deployment,     *)
(* "object `from` is mounted at this path".  Specs are given by the        *)
(* constant function SpecOf, so that a state holds revisions of the spec.  *)
(***************************************************************************)
EXTENDS Naturals, Sequences, FiniteSets

CONSTANTS Revisions,   \* the generations of the Kubernaut spec
          SpecOf,      \* the spec of every generation
          EditTargets, \* the generations an administrator may change it to
          NoRef,       \* an omitted reference
          MaxEdits,    \* bound: edits of the spec
          MaxFaults    \* bound: passes cut short by an API error or a crash

\* The spec of every generation has the three telemetry lanes.
ASSUME RenderingAssumption ==
  /\ EditTargets \subseteq Revisions
  /\ \A r \in Revisions :
       {"gateway", "datastorage", "kubernaut-agent"} \subseteq DOMAIN SpecOf[r].telemetry
  /\ MaxEdits \in Nat /\ MaxFaults \in Nat

VARIABLES spec,    \* the generation persisted in the API server
          unseen,  \* the cache has not seen the last edit
          cached,  \* the generation in the manager's cache
          queued,  \* a reconcile request is waiting
          pc,      \* where the current pass is
          view,    \* the copy the pass built its ConfigMaps from
          cms,     \* generation every persisted ConfigMap was rendered from
          deps,    \* what every persisted Deployment was built from
          edits, faults

vars == <<spec, unseen, cached, queued, pc, view, cms, deps, edits, faults>>

\* `dir` is the part of the path that is itself a reference, if any.
FileIn(path, dir, from) ==
  IF from = NoRef THEN {} ELSE {[path |-> path, dir |-> dir, from |-> from]}

File(path, from) == FileIn(path, NoRef, from)

-----------------------------------------------------------------------------
(* LLM profiles.                                                           *)

NoProfile == [cred   |-> NoRef, oauth2 |-> [enabled |-> FALSE, ref |-> NoRef],
              tls    |-> [ca |-> NoRef, client |-> NoRef]]

ResolveLLMProfile(s, ref) ==
  IF ref \in DOMAIN s.profiles THEN s.profiles[ref] ELSE NoProfile

\* An explicit reference, else the only profile there is.
effectiveLLMProfileRef(s, ref) ==
  IF ref # NoRef THEN ref
  ELSE IF Cardinality(DOMAIN s.profiles) = 1
       THEN CHOOSE n \in DOMAIN s.profiles : TRUE
       ELSE NoRef

InvestigationRef(s)     == effectiveLLMProfileRef(s, s.investigation)
WorkflowDiscoveryRef(s) == effectiveLLMProfileRef(s, s.workflowDiscovery)
AlignmentRef(s)         == effectiveLLMProfileRef(s, s.alignment)
AFLLMProfileRef(s)      == effectiveLLMProfileRef(s, s.afProfile)

llmTLSMaterialUsesOperatorMount(p) == p.tls.ca # NoRef \/ p.tls.client # NoRef

llmTLSMaterialNeedsDedicatedMount(p, base) ==
  llmTLSMaterialUsesOperatorMount(p) /\ p.tls # base.tls

\* The directory llmTLSMaterialPaths renders for a role: the base role's when
\* the base profile already mounts the same material.
llmTLSMaterialDir(p, base, role) ==
  IF llmTLSMaterialNeedsDedicatedMount(p, base) THEN role
  ELSE IF role \in {"workflow-tls", "alignment-tls", "llm-tls-client"}
       THEN "llm-tls-client" ELSE "af-llm-tls-client"

llmTLSMaterialPathsForRole(p, base, role) ==
  LET dir == llmTLSMaterialDir(p, base, role)
  IN  File(dir, p.tls.ca) \cup File(dir, p.tls.client)

llmTLSMaterialVolumeFor(p, role) == File(role, p.tls.ca) \cup File(role, p.tls.client)

-----------------------------------------------------------------------------
(* Kubernaut Agent: what its two ConfigMaps name.                          *)

applyKALLMProfileFields(p) ==
  llmTLSMaterialPathsForRole(p, p, "llm-tls-client")
    \cup (IF p.oauth2.enabled THEN File("oauth2", p.oauth2.ref) ELSE {})

\* The condition both KA siblings' ConfigMap blocks use for the OAuth2 dir.
SharesOAuth2(p, base) ==
  base.oauth2.enabled /\ p.oauth2.ref # NoRef /\ p.oauth2.ref = base.oauth2.ref

resolveKAPhaseModelOverride(p, base) ==
  File(IF p.cred # NoRef /\ p.cred # base.cred THEN "phase-credentials" ELSE "credentials", p.cred)
    \cup llmTLSMaterialPathsForRole(p, base, "workflow-tls")
    \cup (IF p.oauth2.enabled
          THEN File(IF SharesOAuth2(p, base) THEN "oauth2" ELSE "oauth2/workflow-discovery", p.oauth2.ref)
          ELSE {})

kaAlignmentLLMConfig(p, base) ==
  File(IF p.cred # NoRef /\ p.cred # base.cred THEN "alignment-credentials" ELSE "credentials", p.cred)
    \cup llmTLSMaterialPathsForRole(p, base, "alignment-tls")
    \cup (IF p.oauth2.enabled
          THEN File(IF SharesOAuth2(p, base) THEN "oauth2" ELSE "alignment-oauth2", p.oauth2.ref)
          ELSE {})

KubernautAgentLLMRuntimeConfigMap(s) ==
  IF s.runtimeConfigMap # NoRef \/ WorkflowDiscoveryRef(s) \in {NoRef, InvestigationRef(s)}
  THEN {}
  ELSE resolveKAPhaseModelOverride(ResolveLLMProfile(s, WorkflowDiscoveryRef(s)),
                                   ResolveLLMProfile(s, InvestigationRef(s)))

-----------------------------------------------------------------------------
(* Kubernaut Agent: what its Deployment mounts.                            *)

\* Mutant: forgets that a disabled base profile mounts nothing.
NeedsOAuth2MountByName(p, base) ==
  p.oauth2.enabled /\ p.oauth2.ref # NoRef /\ p.oauth2.ref # base.oauth2.ref

\* The condition the Deployment code uses for a sibling's own OAuth2 mount.
NeedsOAuth2Mount(p, base) ==
  /\ p.oauth2.enabled /\ p.oauth2.ref # NoRef
  /\ (~base.oauth2.enabled \/ p.oauth2.ref # base.oauth2.ref)

appendKAWorkflowDiscoveryCredentialMounts(s) ==
  LET base == ResolveLLMProfile(s, InvestigationRef(s))
      p    == ResolveLLMProfile(s, WorkflowDiscoveryRef(s))
  IN  IF WorkflowDiscoveryRef(s) \in {NoRef, InvestigationRef(s)} THEN {}
      ELSE (IF p.cred # base.cred THEN File("phase-credentials", p.cred) ELSE {})
             \cup (IF NeedsOAuth2Mount(p, base) THEN File("oauth2/workflow-discovery", p.oauth2.ref) ELSE {})
             \cup (IF llmTLSMaterialNeedsDedicatedMount(p, base)
                   THEN llmTLSMaterialVolumeFor(p, "workflow-tls") ELSE {})

appendKAAlignmentCredentialMounts(s) ==
  LET base == ResolveLLMProfile(s, InvestigationRef(s))
      p    == ResolveLLMProfile(s, AlignmentRef(s))
  IN  IF ~s.alignmentEnabled THEN {}
      ELSE (IF p.cred # base.cred THEN File("alignment-credentials", p.cred) ELSE {})
             \cup (IF NeedsOAuth2Mount(p, base) THEN File("alignment-oauth2", p.oauth2.ref) ELSE {})
             \cup (IF llmTLSMaterialNeedsDedicatedMount(p, base)
                   THEN llmTLSMaterialVolumeFor(p, "alignment-tls") ELSE {})

kaCredentialVolumesAndMounts(s) ==
  LET base == ResolveLLMProfile(s, InvestigationRef(s))
  IN  File("credentials", base.cred)
        \cup llmTLSMaterialVolumeFor(base, "llm-tls-client")
        \cup (IF base.oauth2.enabled THEN File("oauth2", base.oauth2.ref) ELSE {})
        \cup appendKAWorkflowDiscoveryCredentialMounts(s)
        \cup appendKAAlignmentCredentialMounts(s)

-----------------------------------------------------------------------------
(* API Frontend.                                                           *)

afAgentLLMConfigForRole(p, base, role) ==
  File("llm-credentials", p.cred)
    \cup llmTLSMaterialPathsForRole(p, base, role)
    \cup (IF p.oauth2.enabled THEN File("oauth2", p.oauth2.ref) ELSE {})

\* The triage block moves the API key to a mount of its own when the Secret
\* differs; nothing moves the OAuth2 directory.
afSeverityTriageConfig(s) ==
  LET base == ResolveLLMProfile(s, AFLLMProfileRef(s))
      p    == ResolveLLMProfile(s, s.triageProfile)
  IN  IF ~s.llmTriage \/ s.triageProfile \notin DOMAIN s.profiles THEN {}
      ELSE IF p.cred \in {NoRef, base.cred}
           THEN afAgentLLMConfigForRole(p, base, "severity-triage-tls")
           ELSE File("severity-triage-credentials", p.cred)
                  \cup afAgentLLMConfigForRole([cred |-> NoRef, oauth2 |-> p.oauth2, tls |-> p.tls],
                                             base, "severity-triage-tls")

apifrontendCredentialVolumesMountsEnv(s) ==
  LET base == ResolveLLMProfile(s, AFLLMProfileRef(s))
      p    == ResolveLLMProfile(s, s.triageProfile)
  IN  File("llm-credentials", base.cred)
        \cup llmTLSMaterialVolumeFor(base, "af-llm-tls-client")
        \cup (IF s.triageProfile \notin DOMAIN s.profiles THEN {}
              ELSE (IF p.cred # base.cred THEN File("severity-triage-credentials", p.cred) ELSE {})
                     \cup (IF llmTLSMaterialNeedsDedicatedMount(p, base)
                           THEN llmTLSMaterialVolumeFor(p, "severity-triage-tls") ELSE {}))
        \cup (IF base.oauth2.enabled THEN File("oauth2", base.oauth2.ref) ELSE {})

-----------------------------------------------------------------------------
(* Trust, fleet, telemetry and monitoring material.                        *)

TrustBundle == "inter-service-trust-bundle"

\* Manual mode mounts the administrator's CA object, the other modes the
\* trust bundle the operator publishes.
InterServiceCA(s) == IF s.tlsMode = "manual" THEN s.manualCA ELSE TrustBundle

InterServiceTLSCAVolume(s)  == File("tls-ca", InterServiceCA(s))
InterServiceTLSCAFileFor(s) == File("tls-ca", InterServiceCA(s))
apifrontendTLSCAFile(s)     == File("af/tls-ca", InterServiceCA(s))

resolveFleetTrustCAFile(trust, default, path) ==
  CASE trust.source = "secret"       -> File(path, trust.ref)
    [] trust.source = "interService" -> default
    [] OTHER                         -> {}     \* system, or a path of the image

FleetTrustMount(trust, path) == IF trust.source = "secret" THEN File(path, trust.ref) ELSE {}

effectiveFleetOAuth2SecretRef(s, c) ==
  IF s.override[c] # NoRef THEN s.override[c] ELSE s.fleetOAuth2Ref

FleetMetadataCacheEnabled(s) == s.fleet /\ s.backend = "fleetmetadatacache"

\* A component reads its client credentials from <its directory>/<Secret name>.
FleetCredentials(ref) == FileIn("fleet-oauth2", ref, ref)

fleetMCPGatewayAndOAuth2Config(s, ref, default) ==
  resolveFleetTrustCAFile(s.mcpTLS, default, "fleet-mcp-gateway-ca")
    \cup resolveFleetTrustCAFile(s.oauth2TLS, default, "fleet-oauth2-ca")
    \cup FleetCredentials(ref)

resolveMCPGatewayOnlyFleetConfig(s, ref, default) ==
  IF s.fleet THEN fleetMCPGatewayAndOAuth2Config(s, ref, default) ELSE {}

resolveFleetConfig(s, ref, default) ==
  IF ~s.fleet THEN {}
  ELSE fleetMCPGatewayAndOAuth2Config(s, ref, default)
         \cup resolveFleetTrustCAFile(s.acm.tls, default, "fleet-ca")
         \cup File("fleet-token", s.acm.token)

appendFleetSecretMounts(s, ref, includeBackend) ==
  IF ~s.fleet THEN {}
  ELSE FleetTrustMount(s.mcpTLS, "fleet-mcp-gateway-ca")
         \cup (IF includeBackend
               THEN FleetTrustMount(s.acm.tls, "fleet-ca") \cup File("fleet-token", s.acm.token)
               ELSE {})
         \cup FleetTrustMount(s.oauth2TLS, "fleet-oauth2-ca")
         \cup FleetCredentials(ref)

resolveTelemetryConfig(t) ==
  IF t.network THEN File("telemetry-ca", t.ca) \cup File("telemetry-client", t.client) ELSE {}

AppendTelemetrySecretMounts(t) ==
  IF t.network THEN File("telemetry-ca", t.ca) \cup File("telemetry-client", t.client) ELSE {}

MonitoringTLSVolume(s) == File("monitoring-ca", s.monitoringCA)

valkeyTLSConfig(s) ==
  IF s.valkey.tls THEN File("valkey-tls/ca", s.valkey.ca) \cup File("valkey-tls/client", s.valkey.client)
  ELSE {}

valkeyTLSMounts(s) ==
  IF s.valkey.tls THEN File("valkey-tls/ca", s.valkey.ca) \cup File("valkey-tls/client", s.valkey.client)
  ELSE {}

-----------------------------------------------------------------------------
(* The builders, one per component: what its ConfigMap names and what its  *)
(* Deployment mounts.  `k` is the reconciler's copy kn and `v` the         *)
(* monitoring view knV2.                                                   *)

\* The builders, in the order they run: those of the components that are
\* always there, then the ones that the spec may switch off.
enabledDeploymentBuilders ==
  <<"datastorage", "aianalysis", "signalprocessing", "remediationorchestrator", "workflowexecution",
    "effectivenessmonitor", "notification", "kubernaut-agent", "authwebhook",
    "gateway", "apifrontend", "console", "fleetmetadatacache">>

Components == {enabledDeploymentBuilders[i] : i \in DOMAIN enabledDeploymentBuilders}

FleetReaders == {"gateway", "remediationorchestrator", "signalprocessing", "apifrontend",
                 "effectivenessmonitor", "kubernaut-agent"}

Enabled(s, c) ==
  CASE c = "gateway"            -> s.gateway
    [] c = "apifrontend"        -> s.apiFrontend
    [] c = "console"            -> s.console
    [] c = "fleetmetadatacache" -> FleetMetadataCacheEnabled(s)
    [] OTHER                    -> TRUE

GatewayConfigMap(v) ==
  LET ca == InterServiceTLSCAFileFor(v)
  IN  ca \cup resolveFleetConfig(v, effectiveFleetOAuth2SecretRef(v, "gateway"), ca)
         \cup resolveTelemetryConfig(v.telemetry["gateway"])

DataStorageConfigMap(k, v) ==
  InterServiceTLSCAFileFor(k) \cup valkeyTLSConfig(k)
    \cup File("signing-cert", k.signing) \cup resolveTelemetryConfig(v.telemetry["datastorage"])

AIAnalysisConfigMap(v) == InterServiceTLSCAFileFor(v)

SignalProcessingConfigMap(v) ==
  LET ca == InterServiceTLSCAFileFor(v)
  IN  ca \cup resolveMCPGatewayOnlyFleetConfig(v, effectiveFleetOAuth2SecretRef(v, "signalprocessing"), ca)

RemediationOrchestratorConfigMap(v) ==
  LET ca == InterServiceTLSCAFileFor(v)
  IN  ca \cup resolveFleetConfig(v, effectiveFleetOAuth2SecretRef(v, "remediationorchestrator"), ca)

\* With a CA for the Ansible controller an init container joins the two.
WorkflowExecutionConfigMap(k, v) ==
  LET ca == InterServiceTLSCAFileFor(v)
  IN  (IF k.aapCA # NoRef THEN File("combined-ca", k.aapCA) ELSE ca)
         \cup resolveMCPGatewayOnlyFleetConfig(v, v.weFleetRef, ca)

EffectivenessMonitorConfigMap(v) ==
  LET ca == InterServiceTLSCAFileFor(v)
  IN  ca \cup MonitoringTLSVolume(v)
         \cup resolveMCPGatewayOnlyFleetConfig(v, effectiveFleetOAuth2SecretRef(v, "effectivenessmonitor"), ca)

NotificationControllerConfigMap(v) == InterServiceTLSCAFileFor(v)

AuthWebhookConfigMap(v) == InterServiceTLSCAFileFor(v)

KubernautAgentConfigMap(k, v) ==
  LET base == ResolveLLMProfile(k, InvestigationRef(k))
      ca   == InterServiceTLSCAFileFor(v)
  IN  ca \cup MonitoringTLSVolume(v)
        \cup applyKALLMProfileFields(base)
        \cup (IF k.alignmentEnabled
              THEN kaAlignmentLLMConfig(ResolveLLMProfile(k, AlignmentRef(k)), base) ELSE {})
        \cup resolveTelemetryConfig(v.telemetry["kubernaut-agent"])
        \cup resolveMCPGatewayOnlyFleetConfig(v, effectiveFleetOAuth2SecretRef(v, "kubernaut-agent"), ca)

APIFrontendConfigMap(k, v) ==
  LET base == ResolveLLMProfile(k, AFLLMProfileRef(k))
  IN  apifrontendTLSCAFile(k) \cup MonitoringTLSVolume(v)
        \cup afAgentLLMConfigForRole(base, base, "af-llm-tls-client")
        \cup afSeverityTriageConfig(k)
        \cup resolveFleetConfig(v, effectiveFleetOAuth2SecretRef(v, "apifrontend"), apifrontendTLSCAFile(v))

FleetMetadataCacheConfigMap(k, v) ==
  LET ca == InterServiceTLSCAFileFor(v)
  IN  ca \cup valkeyTLSConfig(k)
        \cup File("fmc/fleet-oauth2", effectiveFleetOAuth2SecretRef(v, "fleetmetadatacache"))
        \cup resolveFleetTrustCAFile(v.mcpTLS, ca, "fleet-mcp-gateway-ca")
        \cup resolveFleetTrustCAFile(v.oauth2TLS, ca, "fleet-oauth2-ca")

ConsoleConfigMaps(k) == InterServiceTLSCAFileFor(k) \cup File("console-auth", k.consoleSecret)

\* The files a component's ConfigMap names.
ConfigFiles(c, k, v) ==
  CASE c = "gateway"                 -> GatewayConfigMap(v)
    [] c = "datastorage"             -> DataStorageConfigMap(k, v)
    [] c = "aianalysis"              -> AIAnalysisConfigMap(v)
    [] c = "signalprocessing"        -> SignalProcessingConfigMap(v)
    [] c = "remediationorchestrator" -> RemediationOrchestratorConfigMap(v)
    [] c = "workflowexecution"       -> WorkflowExecutionConfigMap(k, v)
    [] c = "effectivenessmonitor"    -> EffectivenessMonitorConfigMap(v)
    [] c = "notification"            -> NotificationControllerConfigMap(v)
    [] c = "kubernaut-agent"         -> KubernautAgentConfigMap(k, v)
    [] c = "authwebhook"             -> AuthWebhookConfigMap(v)
    [] c = "apifrontend"             -> APIFrontendConfigMap(k, v)
    [] c = "fleetmetadatacache"      -> FleetMetadataCacheConfigMap(k, v)
    [] OTHER                         -> ConsoleConfigMaps(k)

GatewayDeployment(k, v) ==
  InterServiceTLSCAVolume(k) \cup appendFleetSecretMounts(v, effectiveFleetOAuth2SecretRef(v, "gateway"), TRUE)
    \cup AppendTelemetrySecretMounts(v.telemetry["gateway"])

DataStorageDeployment(k) ==
  InterServiceTLSCAVolume(k) \cup valkeyTLSMounts(k) \cup File("signing-cert", k.signing)
    \cup AppendTelemetrySecretMounts(k.telemetry["datastorage"])

AIAnalysisDeployment(k) == InterServiceTLSCAVolume(k) \cup File("policies", k.aiPolicy)

SignalProcessingDeployment(k, v) ==
  InterServiceTLSCAVolume(k) \cup File("policies", k.spPolicy)
    \cup appendFleetSecretMounts(v, effectiveFleetOAuth2SecretRef(v, "signalprocessing"), FALSE)

RemediationOrchestratorDeployment(k, v) ==
  InterServiceTLSCAVolume(k)
    \cup appendFleetSecretMounts(v, effectiveFleetOAuth2SecretRef(v, "remediationorchestrator"), TRUE)

WorkflowExecutionDeployment(k, v) ==
  InterServiceTLSCAVolume(k) \cup File("combined-ca", k.aapCA)
    \cup appendFleetSecretMounts(v, v.weFleetRef, FALSE)

EffectivenessMonitorDeployment(k, v) ==
  InterServiceTLSCAVolume(k) \cup MonitoringTLSVolume(v)
    \cup appendFleetSecretMounts(v, effectiveFleetOAuth2SecretRef(v, "effectivenessmonitor"), FALSE)

NotificationDeployment(k) ==
  InterServiceTLSCAVolume(k)
    \cup File("routing", IF k.routing # NoRef THEN k.routing ELSE "notification-routing")
    \cup UNION {FileIn("credentials", r, r) : r \in k.credentials}

KubernautAgentDeployment(k, v) ==
  InterServiceTLSCAVolume(k) \cup MonitoringTLSVolume(v)
    \cup File("llm-runtime", IF k.runtimeConfigMap # NoRef THEN k.runtimeConfigMap ELSE "llm-runtime")
    \cup kaCredentialVolumesAndMounts(k)
    \cup AppendTelemetrySecretMounts(v.telemetry["kubernaut-agent"])
    \cup appendFleetSecretMounts(v, effectiveFleetOAuth2SecretRef(v, "kubernaut-agent"), FALSE)

AuthWebhookDeployment(k) == InterServiceTLSCAVolume(k)

\* The frontend has a mount of its own for the trust bundle, in every mode.
APIFrontendDeployment(k, v) ==
  File("af/tls-ca", TrustBundle) \cup MonitoringTLSVolume(k)
    \cup apifrontendCredentialVolumesMountsEnv(k)
    \cup appendFleetSecretMounts(v, effectiveFleetOAuth2SecretRef(v, "apifrontend"), TRUE)

FleetMetadataCacheDeployment(k, v) ==
  InterServiceTLSCAVolume(v) \cup valkeyTLSMounts(k)
    \cup File("fmc/fleet-oauth2", effectiveFleetOAuth2SecretRef(v, "fleetmetadatacache"))
    \cup FleetTrustMount(v.mcpTLS, "fleet-mcp-gateway-ca")
    \cup FleetTrustMount(v.oauth2TLS, "fleet-oauth2-ca")

ConsoleDeployment(k) == InterServiceTLSCAVolume(k) \cup File("console-auth", k.consoleSecret)

\* The files a component's Deployment mounts.
Mounts(c, k, v) ==
  CASE c = "gateway"                 -> GatewayDeployment(k, v)
    [] c = "datastorage"             -> DataStorageDeployment(k)
    [] c = "aianalysis"              -> AIAnalysisDeployment(k)
    [] c = "signalprocessing"        -> SignalProcessingDeployment(k, v)
    [] c = "remediationorchestrator" -> RemediationOrchestratorDeployment(k, v)
    [] c = "workflowexecution"       -> WorkflowExecutionDeployment(k, v)
    [] c = "effectivenessmonitor"    -> EffectivenessMonitorDeployment(k, v)
    [] c = "notification"            -> NotificationDeployment(k)
    [] c = "kubernaut-agent"         -> KubernautAgentDeployment(k, v)
    [] c = "authwebhook"             -> AuthWebhookDeployment(k)
    [] c = "apifrontend"             -> APIFrontendDeployment(k, v)
    [] c = "fleetmetadatacache"      -> FleetMetadataCacheDeployment(k, v)
    [] OTHER                         -> ConsoleDeployment(k)

-----------------------------------------------------------------------------
(* What phaseValidate checks: the spec itself, and that the objects it     *)
(* names exist and have their keys.                                        *)

validateLLMProfileContent(p) ==
  p.cred # NoRef /\ (p.oauth2.enabled => p.oauth2.ref # NoRef)

validateLLMProfileRefs(s) ==
  LET Resolves(ref) == ref \in DOMAIN s.profiles
  IN  /\ Resolves(InvestigationRef(s)) /\ Resolves(WorkflowDiscoveryRef(s))
      /\ s.alignmentEnabled => Resolves(AlignmentRef(s))
      /\ s.apiFrontend => /\ Resolves(AFLLMProfileRef(s))
                          /\ s.triageProfile # NoRef => Resolves(s.triageProfile)

validateLLMProfiles(s) ==
  (\A n \in DOMAIN s.profiles : validateLLMProfileContent(s.profiles[n])) /\ validateLLMProfileRefs(s)

validateFleetTrust(trust) == (trust.source = "secret") = (trust.ref # NoRef)

ValidateFleet(s) ==
  s.fleet =>
    /\ IF s.backend = "acm" THEN s.acm.token # NoRef /\ validateFleetTrust(s.acm.tls)
       ELSE s.acm.token = NoRef /\ s.acm.tls.ref = NoRef
    /\ validateFleetTrust(s.mcpTLS) /\ validateFleetTrust(s.oauth2TLS)
    /\ \A c \in FleetReaders : effectiveFleetOAuth2SecretRef(s, c) # NoRef
    /\ s.weFleetRef # NoRef
    /\ FleetMetadataCacheEnabled(s) => effectiveFleetOAuth2SecretRef(s, "fleetmetadatacache") # NoRef

appendPrecreatedLLMProfileReference(s, ref) ==
  LET p == ResolveLLMProfile(s, ref)
  IN  {p.cred, p.tls.ca, p.tls.client} \cup (IF p.oauth2.enabled THEN {p.oauth2.ref} ELSE {})

\* Mutant: the alignment agent is forgotten among the LLM consumers.
LLMReferencesNoAlignment(s) ==
  appendPrecreatedLLMProfileReference(s, InvestigationRef(s))
    \cup appendPrecreatedLLMProfileReference(s, WorkflowDiscoveryRef(s))
    \cup (IF s.apiFrontend THEN appendPrecreatedLLMProfileReference(s, AFLLMProfileRef(s))
                                 \cup appendPrecreatedLLMProfileReference(s, s.triageProfile) ELSE {})

appendPrecreatedLLMReferences(s) ==
  LET consumers ==
        {InvestigationRef(s), WorkflowDiscoveryRef(s)}
          \cup (IF s.alignmentEnabled THEN {AlignmentRef(s)} ELSE {})
          \cup (IF s.apiFrontend THEN {AFLLMProfileRef(s)} ELSE {})
          \cup (IF s.apiFrontend /\ s.llmTriage THEN {s.triageProfile} ELSE {})
  IN  UNION {appendPrecreatedLLMProfileReference(s, ref) : ref \in consumers}

appendPrecreatedFleetReferences(s) ==
  IF ~s.fleet THEN {}
  ELSE {effectiveFleetOAuth2SecretRef(s, c) :
          c \in {d \in FleetReaders \cup {"fleetmetadatacache"} : Enabled(s, d)}}
         \cup {s.weFleetRef}

precreatedConfigurationReferences(s) ==
  {s.aiPolicy, s.spPolicy, s.runtimeConfigMap, s.routing} \cup s.credentials
    \cup (IF s.console THEN {s.consoleSecret} ELSE {})
    \cup (IF s.valkey.tls THEN {s.valkey.ca, s.valkey.client} ELSE {})
    \cup appendPrecreatedLLMReferences(s)
    \cup appendPrecreatedFleetReferences(s)

\* The trust and telemetry Secrets have validators of their own.
validateFleetTrustSecrets(s) ==
  IF ~s.fleet THEN {} ELSE {s.mcpTLS.ref, s.oauth2TLS.ref, s.acm.tls.ref, s.acm.token}

validateTelemetrySecrets(s) ==
  UNION {IF s.telemetry[c].network THEN {s.telemetry[c].ca, s.telemetry[c].client} ELSE {} :
           c \in {d \in DOMAIN s.telemetry : Enabled(s, d)}}

\* The signing Secret is looked at in the explicit TLS modes only.
validateDataStorageSigningCertificate(s) == IF s.tlsMode = "service-ca" THEN {} ELSE {s.signing}

\* Every administrator-owned object phaseValidate has looked at.
VerifiedObjects(s) ==
  precreatedConfigurationReferences(s) \cup validateFleetTrustSecrets(s)
    \cup validateTelemetrySecrets(s) \cup validateDataStorageSigningCertificate(s)
    \cup {s.monitoringCA, s.manualCA}

Valid(s) ==
  /\ validateLLMProfiles(s) /\ ValidateFleet(s)
  /\ s.console => s.consoleSecret # NoRef /\ s.consoleIssuer

-----------------------------------------------------------------------------
(* The pass.                                                               *)

Absent == "absent"
NoDeployment == [kn |-> Absent, view |-> Absent, stamp |-> <<Absent, Absent>>]

\* deployConfigMaps: the ConfigMaps it writes, in its order.
ConfigMapOrder ==
  <<"datastorage", "aianalysis", "signalprocessing", "remediationorchestrator", "workflowexecution",
    "effectivenessmonitor", "notification", "notification-routing", "kubernaut-agent", "authwebhook",
    "llm-runtime", "gateway", "apifrontend", "fleetmetadatacache", "console">>

ConfigMaps == {ConfigMapOrder[i] : i \in DOMAIN ConfigMapOrder}

RendersConfigMap(s, cm) ==
  CASE cm = "notification-routing" -> s.routing = NoRef
    [] cm = "llm-runtime"          -> s.runtimeConfigMap = NoRef
    [] OTHER                       -> Enabled(s, cm)

\* enabledDeploymentBuilders: gateway and Console follow kn, the fleet
\* metadata cache follows the view.
Builds(c, k, v) == IF c = "fleetmetadatacache" THEN Enabled(v, c) ELSE Enabled(k, c)

\* The components whose objects it deletes when they are disabled, in its
\* order.  A disabled API Frontend is not among them.
CleanUps == <<"gateway", "console", "fleetmetadatacache">>

\* Mutant: the Console's builder runs for a spec that has no Console.
BuilderFailsDisabled(n, k, v) == enabledDeploymentBuilders[n] = "console" /\ k.consoleSecret = NoRef

\* The n-th builder runs and returns an error.  Neither the spec nor the
\* operator's environment names an image for the components in noImage;
\* consoleIssuer stands for the Console's three URLs.
BuilderFails(n, k, v) ==
  LET c == enabledDeploymentBuilders[n]
  IN  /\ Builds(c, k, v)
      /\ \/ c \in k.noImage
         \/ c = "kubernaut-agent" /\ ResolveLLMProfile(k, InvestigationRef(k)).cred = NoRef
         \/ c = "console" /\ (k.consoleSecret = NoRef \/ ~k.consoleIssuer)

\* A ConfigMap cannot be built, and none is written: lowConfidenceFloor, which
\* is a string, is no fraction, or the Console has no issuer.
RendererFails(s) == ~s.lowConfidenceFloor \/ (s.console /\ ~s.consoleIssuer)

First(seq, n) == {seq[i] : i \in 1..n}

\* The ConfigMap's hash, if this pass rendered it (stampConfigMapHash).
Hash(cm, rev) == IF RendersConfigMap(SpecOf[rev], cm) THEN rev ELSE Absent

\* Mutant: the agent's stamp ignores the runtime ConfigMap.
StampNoRuntime(c, rev) == <<Hash(c, rev), Absent>>

\* The agent's hash has the runtime ConfigMap's folded in.
Stamp(c, rev) ==
  <<Hash(c, rev), IF c = "kubernaut-agent" THEN Hash("llm-runtime", rev) ELSE Absent>>

\* The administrator changes the spec; the informer delivers the change.
Edit(s) ==
  /\ edits < MaxEdits /\ s # spec
  /\ spec' = s /\ unseen' = TRUE /\ edits' = edits + 1
  /\ UNCHANGED <<cached, queued, pc, view, cms, deps, faults>>

Sync ==
  /\ unseen
  /\ cached' = spec /\ unseen' = FALSE /\ queued' = TRUE
  /\ UNCHANGED <<spec, pc, view, cms, deps, edits, faults>>

\* A pass starts from the cached CR; an invalid one is tried again later.
phaseValidate ==
  /\ pc = "idle" /\ queued
  /\ IF Valid(SpecOf[cached]) THEN pc' = "validated" /\ queued' = FALSE
                             ELSE UNCHANGED <<pc, queued>>
  /\ UNCHANGED <<spec, unseen, cached, view, cms, deps, edits, faults>>

\* An API error is returned to the work queue, a crash is followed by a
\* restart that lists everything: either way the CR is queued again.
Retry == pc' = "idle" /\ faults < MaxFaults /\ faults' = faults + 1 /\ queued' = TRUE

Abort ==
  /\ pc # "idle" /\ Retry
  /\ UNCHANGED <<spec, unseen, cached, view, cms, deps, edits>>

\* phaseDeploy from the re-read CR up to deployConfigMaps.  The tool bindings
\* may patch the status on the way, which replaces kn by the persisted CR;
\* the view is a copy of kn after that.  All ConfigMaps are built, then n are
\* written.
deployConfigMaps(kn, n) ==
  /\ pc = "validated"
  /\ IF RendererFails(SpecOf[kn]) THEN n = 0 /\ pc' = "idle" /\ queued' = TRUE /\ UNCHANGED faults
     ELSE IF n = Len(ConfigMapOrder) THEN pc' = "configured" /\ UNCHANGED <<queued, faults>> ELSE Retry
  /\ view' = kn
  /\ cms' = [c \in ConfigMaps |->
               IF c \in First(ConfigMapOrder, n) /\ RendersConfigMap(SpecOf[kn], c) THEN kn ELSE cms[c]]
  /\ UNCHANGED <<spec, unseen, cached, deps, edits>>

\* deployWorkloads: the status patch of reconcileNetworkPolicies makes kn the
\* persisted CR; then m clean-ups and, after the last of them, n builders.
\* A builder that fails ends the pass like an API error, every time.
deployWorkloads(m, n) ==
  LET k == SpecOf[spec]
      v == SpecOf[view]
      last == Len(enabledDeploymentBuilders)
      gone(c)  == c \in First(CleanUps, m) /\ ~Builds(c, k, v)
      built(c) == c \in First(enabledDeploymentBuilders, n) /\ Builds(c, k, v)
  IN  /\ pc = "configured" /\ (n = 0 \/ m = Len(CleanUps))
      /\ \/ n = last /\ pc' = "idle" /\ UNCHANGED <<queued, faults>>
         \/ n < last /\ BuilderFails(n + 1, k, v) /\ m = Len(CleanUps)
              /\ pc' = "idle" /\ queued' = TRUE /\ UNCHANGED faults
         \/ Retry
      /\ \A i \in 1..n : ~BuilderFails(i, k, v)
      /\ cms' = [c \in ConfigMaps |-> IF gone(c) THEN Absent ELSE cms[c]]
      /\ deps' = [c \in Components |->
                    IF built(c) THEN [kn |-> spec, view |-> view, stamp |-> Stamp(c, view)]
                    ELSE IF gone(c) THEN NoDeployment ELSE deps[c]]
      /\ UNCHANGED <<spec, unseen, cached, view, edits>>

Deploy ==
  \/ \E kn \in {cached, spec}, n \in 0..Len(ConfigMapOrder) : deployConfigMaps(kn, n)
  \/ \E m \in 0..Len(CleanUps), n \in 0..Len(enabledDeploymentBuilders) : deployWorkloads(m, n)

Init ==
  /\ spec \in Revisions /\ cached = spec /\ unseen = FALSE /\ queued = TRUE
  /\ pc = "idle" /\ view = spec
  /\ cms = [c \in ConfigMaps |-> Absent] /\ deps = [c \in Components |-> NoDeployment]
  /\ edits = 0 /\ faults = 0

Next ==
  \/ \E s \in EditTargets : Edit(s)
  \/ Sync \/ phaseValidate \/ Abort \/ Deploy

Spec == Init /\ [][Next]_vars

\* The informer delivers, and the single worker takes the pass on.
FairSpec == Spec /\ WF_vars(Sync) /\ WF_vars(phaseValidate) /\ WF_vars(Deploy)

-----------------------------------------------------------------------------
(* Properties.                                                             *)

TypeOK ==
  /\ spec \in Revisions /\ cached \in Revisions /\ view \in Revisions
  /\ unseen \in BOOLEAN /\ queued \in BOOLEAN /\ pc \in {"idle", "validated", "configured"}
  /\ \A c \in ConfigMaps : cms[c] \in Revisions \cup {Absent}
  /\ \A c \in Components : deps[c].kn \in Revisions \cup {Absent} /\ deps[c].view \in Revisions \cup {Absent}
  /\ edits \in 0..MaxEdits /\ faults \in 0..MaxFaults

\* Nothing is left to do for the spec as it is.
Settled == pc = "idle" /\ ~queued /\ ~unseen

\* What the files of the component's ConfigMaps are read from.
NamedFiles(c) ==
  ConfigFiles(c, SpecOf[cms[c]], SpecOf[cms[c]])
    \cup (IF c = "kubernaut-agent" /\ SpecOf[spec].runtimeConfigMap = NoRef
          THEN KubernautAgentLLMRuntimeConfigMap(SpecOf[cms["llm-runtime"]]) ELSE {})

MountedFiles(c) == Mounts(c, SpecOf[deps[c].kn], SpecOf[deps[c].view])

\* What the API frontend's ConfigMap names and its Deployment does not mount:
\* the administrator's CA in manual mode, where the frontend alone mounts the
\* operator's trust bundle, and the OAuth2 Secret of the severity-triage
\* profile, unless the frontend's own profile has the same one.
APIFrontendGap(s) ==
  LET base == ResolveLLMProfile(s, AFLLMProfileRef(s))
      p    == ResolveLLMProfile(s, s.triageProfile)
  IN  (IF s.tlsMode = "manual" THEN apifrontendTLSCAFile(s) ELSE {})
        \cup (IF s.llmTriage /\ p.oauth2.enabled /\ ~SharesOAuth2(p, base)
              THEN File("oauth2", p.oauth2.ref) ELSE {})

\* Once the operator has settled, every file a component's configuration
\* names is mounted into its pods, at that path and from that object: the
\* renderer and the Deployment builder agree on which sibling profile shares
\* the base profile's mounts, whatever edits, faults and stale copies the
\* passes went through (configmaps.go and deployments.go decide separately).
ConfigFilesMounted ==
  Settled => \A c \in Components :
    Enabled(SpecOf[spec], c) =>
      NamedFiles(c) \ (IF c = "apifrontend" THEN APIFrontendGap(SpecOf[spec]) ELSE {}) \subseteq MountedFiles(c)

\* The same for the API frontend alone and without the exception: its
\* configuration names only files that its Deployment mounts.
APIFrontendFilesMounted ==
  Settled /\ SpecOf[spec].apiFrontend => NamedFiles("apifrontend") \subseteq MountedFiles("apifrontend")

\* Objects the operator renders itself.
Rendered == ConfigMaps \cup {TrustBundle}

\* Three mounts have no validator: the CA of the Ansible controller, the
\* signing Secret in service-CA mode, and the objects of a severity-triage
\* profile while LLM triage is switched off.
Unverified(s) ==
  {s.aapCA} \cup (IF s.tlsMode = "service-ca" THEN {s.signing} ELSE {})
    \cup (IF s.llmTriage THEN {} ELSE appendPrecreatedLLMProfileReference(s, s.triageProfile))

\* Once settled, every administrator-owned object some pod mounts is one that
\* phaseValidate has looked up for this spec, so no pod waits for a volume
\* that the operator never checked (the collector of references and the
\* Deployment builders list the objects separately).
MountsVerified ==
  Settled => \A c \in Components :
    Enabled(SpecOf[spec], c) =>
      {f.from : f \in MountedFiles(c)}
        \subseteq VerifiedObjects(SpecOf[spec]) \cup Rendered \cup Unverified(SpecOf[spec])

\* Once settled, a Deployment's pods carry the hash of the very ConfigMaps
\* that are persisted, the agent's runtime ConfigMap included: no pod was
\* last rolled for an older configuration.  (notification-routing has no
\* stamp in the code: componentCMHashKey does not name it.)
RolledOutTogether ==
  Settled => \A c \in Components :
    Enabled(SpecOf[spec], c) =>
      /\ deps[c].stamp[1] = cms[c]
      /\ c = "kubernaut-agent" /\ SpecOf[spec].runtimeConfigMap = NoRef => deps[c].stamp[2] = cms["llm-runtime"]

\* A gateway, Console or fleet metadata cache that the spec has switched off
\* has neither Deployment nor ConfigMap left.
DisabledRemoved ==
  \A c \in {"gateway", "console", "fleetmetadatacache"} :
    ~Enabled(SpecOf[spec], c) => deps[c] = NoDeployment /\ cms[c] = Absent

\* What phaseValidate does not look at.
Buildable(s) == s.lowConfidenceFloor /\ \A c \in Components : Enabled(s, c) => c \notin s.noImage

\* After the last edit and the last fault the operator settles, if the spec is
\* valid and can be built, with everything built from it: a Deployment built
\* from a spec that no pass has validated does not stay, and nothing stays of
\* a gateway, Console or fleet metadata cache that is switched off, although
\* which to delete is decided from two different copies.
Converges ==
  <>[](Valid(SpecOf[spec]) /\ Buildable(SpecOf[spec]) =>
         /\ Settled /\ DisabledRemoved
         /\ \A c \in Components : Enabled(SpecOf[spec], c) => deps[c].kn = spec /\ deps[c].view = spec)
=============================================================================
