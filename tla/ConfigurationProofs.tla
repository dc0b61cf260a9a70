------------------------ MODULE ConfigurationProofs --------------------------
(***************************************************************************)
(* What the workloads are configured with: proofs about Rendering, for     *)
(* every set of specs and every bound, and about RuntimeTLS, for every set *)
(* of modes and every bound.  The two specifications share no variable and *)
(* no proof step; Spec is the one of Rendering, SpecTLS the one of         *)
(* RuntimeTLS.                                                             *)
(*                                                                         *)
(* Rendering: lemmas compare the renderers with the Deployment builders,   *)
(* and with the collector of references, for any spec; an invariant of the *)
(* pass brings both to the same spec.  RuntimeTLS: an invariant orders the *)
(* bundles of the persisted configuration, of the manager's cache and of   *)
(* the pass.                                                               *)
(***************************************************************************)
EXTENDS Rendering, RuntimeTLS, TLAPS

\* A step is for Zenon, unless it names another prover.
USE Zenon

-----------------------------------------------------------------------------
(* Rendering: files.                                                       *)

\* The fleet files that a rendered configuration names are those that
\* appendFleetSecretMounts mounts, or the default CA it was given.
LEMMA FleetFilesMounted ==
  ASSUME NEW s, NEW ref, NEW default, NEW backend \in BOOLEAN
  PROVE  /\ resolveMCPGatewayOnlyFleetConfig(s, ref, default)
              \subseteq appendFleetSecretMounts(s, ref, backend) \cup default
         /\ resolveFleetConfig(s, ref, default) \subseteq appendFleetSecretMounts(s, ref, TRUE) \cup default
BY DEF resolveMCPGatewayOnlyFleetConfig, resolveFleetConfig, appendFleetSecretMounts, FleetTrustMount,
       resolveFleetTrustCAFile, fleetMCPGatewayAndOAuth2Config

\* The telemetry renderer and the telemetry mounts agree on the files.
LEMMA TelemetryMounted ==
  ASSUME NEW t PROVE resolveTelemetryConfig(t) = AppendTelemetrySecretMounts(t)
BY DEF resolveTelemetryConfig, AppendTelemetrySecretMounts

\* Every file that these components' ConfigMaps name is mounted by their
\* Deployment builders, when both work from the same spec.
LEMMA ControllerFilesMounted ==
  ASSUME NEW s, NEW c \in {"gateway", "datastorage", "aianalysis", "signalprocessing", "remediationorchestrator",
                    "workflowexecution", "effectivenessmonitor", "notification", "authwebhook", "console"}
  PROVE  ConfigFiles(c, s, s) \subseteq Mounts(c, s, s)
<1>1. CASE c = "gateway"
  BY <1>1, FleetFilesMounted, TelemetryMounted DEF ConfigFiles, Mounts, GatewayConfigMap, GatewayDeployment,
     InterServiceTLSCAVolume, InterServiceTLSCAFileFor
<1>2. CASE c = "datastorage"
  BY <1>2, TelemetryMounted DEF ConfigFiles, Mounts, DataStorageConfigMap, DataStorageDeployment,
     InterServiceTLSCAVolume, InterServiceTLSCAFileFor, valkeyTLSConfig, valkeyTLSMounts
<1>3. CASE c \in {"aianalysis", "notification", "authwebhook", "console"}
  BY <1>3 DEF ConfigFiles, Mounts, AIAnalysisConfigMap, AIAnalysisDeployment, NotificationControllerConfigMap,
     NotificationDeployment, AuthWebhookConfigMap, AuthWebhookDeployment, ConsoleConfigMaps, ConsoleDeployment,
     InterServiceTLSCAVolume, InterServiceTLSCAFileFor
<1>4. CASE c = "signalprocessing"
  BY <1>4, FleetFilesMounted DEF ConfigFiles, Mounts, SignalProcessingConfigMap, SignalProcessingDeployment,
     InterServiceTLSCAVolume, InterServiceTLSCAFileFor
<1>5. CASE c = "remediationorchestrator"
  BY <1>5, FleetFilesMounted DEF ConfigFiles, Mounts, RemediationOrchestratorConfigMap,
     RemediationOrchestratorDeployment, InterServiceTLSCAVolume, InterServiceTLSCAFileFor
<1>6. CASE c = "workflowexecution"
  BY <1>6, FleetFilesMounted DEF ConfigFiles, Mounts, WorkflowExecutionConfigMap, WorkflowExecutionDeployment,
     InterServiceTLSCAVolume, InterServiceTLSCAFileFor
<1>7. CASE c = "effectivenessmonitor"
  BY <1>7, FleetFilesMounted DEF ConfigFiles, Mounts, EffectivenessMonitorConfigMap,
     EffectivenessMonitorDeployment, InterServiceTLSCAVolume, InterServiceTLSCAFileFor
<1> QED
  BY <1>1, <1>2, <1>3, <1>4, <1>5, <1>6, <1>7

\* The same for the fleet metadata cache, which mounts its trust itself.
LEMMA FleetMetadataCacheFilesMounted ==
  ASSUME NEW s
  PROVE  ConfigFiles("fleetmetadatacache", s, s) \subseteq Mounts("fleetmetadatacache", s, s)
BY DEF ConfigFiles, Mounts, FleetMetadataCacheConfigMap, FleetMetadataCacheDeployment, InterServiceTLSCAVolume,
       InterServiceTLSCAFileFor, valkeyTLSConfig, valkeyTLSMounts, resolveFleetTrustCAFile, FleetTrustMount

-----------------------------------------------------------------------------
(* Profiles that share the mounts of a base profile.                       *)

\* A sibling profile finds its TLS material either in the base profile's mount
\* or in one of its own (llmTLSMaterialDir and the mounts decide separately).
LEMMA SiblingTLSMounted ==
  ASSUME NEW p, NEW base, NEW role, NEW home,
         \/ role \in {"workflow-tls", "alignment-tls", "llm-tls-client"} /\ home = "llm-tls-client"
         \/ role \in {"severity-triage-tls", "af-llm-tls-client"} /\ home = "af-llm-tls-client"
  PROVE  llmTLSMaterialPathsForRole(p, base, role)
           \subseteq llmTLSMaterialVolumeFor(base, home)
             \cup (IF llmTLSMaterialNeedsDedicatedMount(p, base) THEN llmTLSMaterialVolumeFor(p, role) ELSE {})
<1>1. CASE llmTLSMaterialNeedsDedicatedMount(p, base)
  BY <1>1 DEF llmTLSMaterialPathsForRole, llmTLSMaterialVolumeFor, llmTLSMaterialDir
<1>2. CASE ~llmTLSMaterialNeedsDedicatedMount(p, base)
  <2>1. llmTLSMaterialDir(p, base, role) = home
    BY <1>2 DEF llmTLSMaterialDir
  <2>2. CASE ~llmTLSMaterialUsesOperatorMount(p)
    BY <2>2 DEF llmTLSMaterialPathsForRole, llmTLSMaterialUsesOperatorMount, File, FileIn
  <2>3. CASE p.tls = base.tls
    BY <2>1, <2>3 DEF llmTLSMaterialPathsForRole, llmTLSMaterialVolumeFor
  <2> QED
    BY <1>2, <2>2, <2>3 DEF llmTLSMaterialNeedsDedicatedMount
<1> QED
  BY <1>1, <1>2

\* A sibling profile's credentials file is the base profile's, or its own mount.
LEMMA SiblingCredentialMounted ==
  ASSUME NEW p, NEW base, NEW own, NEW home
  PROVE  File(IF p.cred # NoRef /\ p.cred # base.cred THEN own ELSE home, p.cred)
           \subseteq File(home, base.cred) \cup (IF p.cred # base.cred THEN File(own, p.cred) ELSE {})
BY DEF File, FileIn

LEMMA SiblingOAuth2Mounted ==
  ASSUME NEW p, NEW base, NEW own
  PROVE  (IF p.oauth2.enabled THEN File(IF SharesOAuth2(p, base) THEN "oauth2" ELSE own, p.oauth2.ref) ELSE {})
           \subseteq (IF base.oauth2.enabled THEN File("oauth2", base.oauth2.ref) ELSE {})
             \cup (IF NeedsOAuth2Mount(p, base) THEN File(own, p.oauth2.ref) ELSE {})
<1>1. CASE SharesOAuth2(p, base)
  BY <1>1 DEF SharesOAuth2
<1>2. CASE ~SharesOAuth2(p, base)
  BY <1>2 DEF SharesOAuth2, NeedsOAuth2Mount, File, FileIn
<1> QED
  BY <1>1, <1>2

\* The agent's runtime ConfigMap names only files of the credential mounts.
LEMMA WorkflowDiscoveryMounted ==
  ASSUME NEW s
  PROVE  KubernautAgentLLMRuntimeConfigMap(s) \subseteq kaCredentialVolumesAndMounts(s)
<1> DEFINE base == ResolveLLMProfile(s, InvestigationRef(s))
           p    == ResolveLLMProfile(s, WorkflowDiscoveryRef(s))
<1> HIDE DEF base, p
<1>1. resolveKAPhaseModelOverride(p, base)
        \subseteq File("credentials", base.cred)
          \cup llmTLSMaterialVolumeFor(base, "llm-tls-client")
          \cup (IF base.oauth2.enabled THEN File("oauth2", base.oauth2.ref) ELSE {})
          \cup (IF p.cred # base.cred THEN File("phase-credentials", p.cred) ELSE {})
          \cup (IF NeedsOAuth2Mount(p, base) THEN File("oauth2/workflow-discovery", p.oauth2.ref) ELSE {})
          \cup (IF llmTLSMaterialNeedsDedicatedMount(p, base)
                THEN llmTLSMaterialVolumeFor(p, "workflow-tls") ELSE {})
  <2>1. llmTLSMaterialPathsForRole(p, base, "workflow-tls")
           \subseteq llmTLSMaterialVolumeFor(base, "llm-tls-client")
             \cup (IF llmTLSMaterialNeedsDedicatedMount(p, base)
                   THEN llmTLSMaterialVolumeFor(p, "workflow-tls") ELSE {})
    BY SiblingTLSMounted
  <2> QED
    BY SMT, <2>1, SiblingCredentialMounted, SiblingOAuth2Mounted DEF resolveKAPhaseModelOverride
<1> QED
  BY <1>1 DEF KubernautAgentLLMRuntimeConfigMap, kaCredentialVolumesAndMounts,
     appendKAWorkflowDiscoveryCredentialMounts, base, p

\* So does the section of the alignment check, when it is enabled.
LEMMA AlignmentMounted ==
  ASSUME NEW s, s.alignmentEnabled
  PROVE  kaAlignmentLLMConfig(ResolveLLMProfile(s, AlignmentRef(s)), ResolveLLMProfile(s, InvestigationRef(s)))
           \subseteq kaCredentialVolumesAndMounts(s)
<1> DEFINE base == ResolveLLMProfile(s, InvestigationRef(s))
           p    == ResolveLLMProfile(s, AlignmentRef(s))
<1> HIDE DEF base, p
<1>1. kaAlignmentLLMConfig(p, base)
        \subseteq File("credentials", base.cred)
          \cup llmTLSMaterialVolumeFor(base, "llm-tls-client")
          \cup (IF base.oauth2.enabled THEN File("oauth2", base.oauth2.ref) ELSE {})
          \cup (IF p.cred # base.cred THEN File("alignment-credentials", p.cred) ELSE {})
          \cup (IF NeedsOAuth2Mount(p, base) THEN File("alignment-oauth2", p.oauth2.ref) ELSE {})
          \cup (IF llmTLSMaterialNeedsDedicatedMount(p, base)
                THEN llmTLSMaterialVolumeFor(p, "alignment-tls") ELSE {})
  <2>1. llmTLSMaterialPathsForRole(p, base, "alignment-tls")
           \subseteq llmTLSMaterialVolumeFor(base, "llm-tls-client")
             \cup (IF llmTLSMaterialNeedsDedicatedMount(p, base)
                   THEN llmTLSMaterialVolumeFor(p, "alignment-tls") ELSE {})
    BY SiblingTLSMounted
  <2> QED
    BY SMT, <2>1, SiblingCredentialMounted, SiblingOAuth2Mounted DEF kaAlignmentLLMConfig
<1> QED
  BY <1>1 DEF kaCredentialVolumesAndMounts, appendKAAlignmentCredentialMounts, base, p

\* Every file that the agent's two ConfigMaps name is mounted.
LEMMA KubernautAgentFilesMounted ==
  ASSUME NEW s
  PROVE  ConfigFiles("kubernaut-agent", s, s) \cup KubernautAgentLLMRuntimeConfigMap(s)
           \subseteq Mounts("kubernaut-agent", s, s)
<1> DEFINE base == ResolveLLMProfile(s, InvestigationRef(s))
<1>1. applyKALLMProfileFields(base) \subseteq kaCredentialVolumesAndMounts(s)
  <2> HIDE DEF base
  <2>1. llmTLSMaterialPathsForRole(base, base, "llm-tls-client") = llmTLSMaterialVolumeFor(base, "llm-tls-client")
    BY DEF llmTLSMaterialPathsForRole, llmTLSMaterialVolumeFor, llmTLSMaterialDir,
           llmTLSMaterialNeedsDedicatedMount
  <2> QED
    BY <2>1 DEF applyKALLMProfileFields, kaCredentialVolumesAndMounts, base
<1>2. ConfigFiles("kubernaut-agent", s, s) \subseteq Mounts("kubernaut-agent", s, s)
  BY <1>1, AlignmentMounted, FleetFilesMounted, TelemetryMounted DEF ConfigFiles, Mounts,
     KubernautAgentConfigMap, KubernautAgentDeployment, InterServiceTLSCAVolume, InterServiceTLSCAFileFor
<1>3. kaCredentialVolumesAndMounts(s) \subseteq Mounts("kubernaut-agent", s, s)
  BY DEF Mounts, KubernautAgentDeployment
<1> QED
  BY <1>2, <1>3, WorkflowDiscoveryMounted

\* The severity-triage section names mounted files, and those of the gap.
LEMMA SeverityTriageMounted ==
  ASSUME NEW s
  PROVE  afSeverityTriageConfig(s) \subseteq apifrontendCredentialVolumesMountsEnv(s) \cup APIFrontendGap(s)
<1> DEFINE base == ResolveLLMProfile(s, AFLLMProfileRef(s))
           p    == ResolveLLMProfile(s, s.triageProfile)
           mine == apifrontendCredentialVolumesMountsEnv(s)
<1> SUFFICES ASSUME s.llmTriage, s.triageProfile \in DOMAIN s.profiles
             PROVE  afSeverityTriageConfig(s) \subseteq mine \cup APIFrontendGap(s)
  BY DEF afSeverityTriageConfig
<1>1. mine = File("llm-credentials", base.cred)
               \cup llmTLSMaterialVolumeFor(base, "af-llm-tls-client")
               \cup ((IF p.cred # base.cred THEN File("severity-triage-credentials", p.cred) ELSE {})
                     \cup (IF llmTLSMaterialNeedsDedicatedMount(p, base)
                           THEN llmTLSMaterialVolumeFor(p, "severity-triage-tls") ELSE {}))
               \cup (IF base.oauth2.enabled THEN File("oauth2", base.oauth2.ref) ELSE {})
  BY DEF apifrontendCredentialVolumesMountsEnv
<1>2. (IF p.oauth2.enabled THEN File("oauth2", p.oauth2.ref) ELSE {})
         \subseteq (IF base.oauth2.enabled THEN File("oauth2", base.oauth2.ref) ELSE {}) \cup APIFrontendGap(s)
  <2>1. CASE SharesOAuth2(p, base)
    BY <2>1 DEF SharesOAuth2
  <2>2. CASE ~SharesOAuth2(p, base)
    BY <2>2 DEF APIFrontendGap
  <2> QED
    BY <2>1, <2>2
<1>3. ASSUME NEW q, q.tls = p.tls
      PROVE  llmTLSMaterialPathsForRole(q, base, "severity-triage-tls")
               \subseteq llmTLSMaterialVolumeFor(base, "af-llm-tls-client")
                 \cup (IF llmTLSMaterialNeedsDedicatedMount(p, base)
                       THEN llmTLSMaterialVolumeFor(p, "severity-triage-tls") ELSE {})
  <2>1. llmTLSMaterialPathsForRole(q, base, "severity-triage-tls")
          = llmTLSMaterialPathsForRole(p, base, "severity-triage-tls")
    BY <1>3 DEF llmTLSMaterialPathsForRole, llmTLSMaterialDir, llmTLSMaterialNeedsDedicatedMount,
       llmTLSMaterialUsesOperatorMount
  <2> QED
    BY <2>1, SiblingTLSMounted
<1>4. CASE p.cred \in {NoRef, base.cred}
  <2>1. afSeverityTriageConfig(s) = afAgentLLMConfigForRole(p, base, "severity-triage-tls")
    BY <1>4 DEF afSeverityTriageConfig
  <2>2. File("llm-credentials", p.cred) \subseteq File("llm-credentials", base.cred)
    BY <1>4 DEF File, FileIn
  <2> HIDE DEF base, p, mine
  <2> QED
    BY <1>1, <1>2, <1>3, <2>1, <2>2 DEF afAgentLLMConfigForRole
<1>5. CASE p.cred \notin {NoRef, base.cred}
  <2> DEFINE q == [cred |-> NoRef, oauth2 |-> p.oauth2, tls |-> p.tls]
  <2>1. afSeverityTriageConfig(s) = File("severity-triage-credentials", p.cred)
                                      \cup afAgentLLMConfigForRole(q, base, "severity-triage-tls")
    BY <1>5 DEF afSeverityTriageConfig
  <2>2. q.cred = NoRef /\ q.oauth2 = p.oauth2 /\ q.tls = p.tls
    OBVIOUS
  <2>3. File("llm-credentials", q.cred) = {}
    BY <2>2 DEF File, FileIn
  <2> HIDE DEF base, p, mine, q
  <2> QED
    BY <1>1, <1>2, <1>3, <1>5, <2>1, <2>2, <2>3 DEF afAgentLLMConfigForRole
<1> QED
  BY <1>4, <1>5

\* Every file that the API frontend's ConfigMap names is mounted, or in the gap.
LEMMA APIFrontendFilesCovered ==
  ASSUME NEW s
  PROVE  ConfigFiles("apifrontend", s, s) \subseteq Mounts("apifrontend", s, s) \cup APIFrontendGap(s)
<1> DEFINE base == ResolveLLMProfile(s, AFLLMProfileRef(s))
<1>1. apifrontendTLSCAFile(s) \subseteq Mounts("apifrontend", s, s) \cup APIFrontendGap(s)
  BY DEF apifrontendTLSCAFile, InterServiceCA, Mounts, APIFrontendDeployment, APIFrontendGap
<1>2. afAgentLLMConfigForRole(base, base, "af-llm-tls-client") \subseteq apifrontendCredentialVolumesMountsEnv(s)
  <2> HIDE DEF base
  <2>1. llmTLSMaterialPathsForRole(base, base, "af-llm-tls-client")
          = llmTLSMaterialVolumeFor(base, "af-llm-tls-client")
    BY DEF llmTLSMaterialPathsForRole, llmTLSMaterialVolumeFor, llmTLSMaterialDir,
           llmTLSMaterialNeedsDedicatedMount
  <2> QED
    BY <2>1 DEF afAgentLLMConfigForRole, apifrontendCredentialVolumesMountsEnv, base
<1>3. apifrontendCredentialVolumesMountsEnv(s) \cup MonitoringTLSVolume(s)
        \cup appendFleetSecretMounts(s, effectiveFleetOAuth2SecretRef(s, "apifrontend"), TRUE)
          \subseteq Mounts("apifrontend", s, s)
  BY DEF Mounts, APIFrontendDeployment
<1>4. resolveFleetConfig(s, effectiveFleetOAuth2SecretRef(s, "apifrontend"), apifrontendTLSCAFile(s))
        \subseteq appendFleetSecretMounts(s, effectiveFleetOAuth2SecretRef(s, "apifrontend"), TRUE)
          \cup apifrontendTLSCAFile(s)
  BY FleetFilesMounted
<1>5. ConfigFiles("apifrontend", s, s)
        = apifrontendTLSCAFile(s) \cup MonitoringTLSVolume(s)
            \cup afAgentLLMConfigForRole(base, base, "af-llm-tls-client") \cup afSeverityTriageConfig(s)
            \cup resolveFleetConfig(s, effectiveFleetOAuth2SecretRef(s, "apifrontend"), apifrontendTLSCAFile(s))
  BY DEF ConfigFiles, APIFrontendConfigMap
<1> HIDE DEF base
<1> QED
  BY <1>1, <1>2, <1>3, <1>4, <1>5, SeverityTriageMounted

-----------------------------------------------------------------------------
(* Objects that are mounted.                                               *)

\* Every one of the files comes from an object in K.
From(files, K) == \A f \in files : f.from \in K

\* What MountsVerified allows a pod to mount.
Known(s) == VerifiedObjects(s) \cup Rendered \cup Unverified(s)

\* A file comes from its object.
LEMMA FromFile ==
  ASSUME NEW path, NEW dir, NEW from, NEW K, from \in K
  PROVE  From(File(path, from), K) /\ From(FileIn(path, dir, from), K)
BY SMT DEF From, File, FileIn

\* The trust, monitoring and Valkey mounts come from known objects.
LEMMA TrustVerified ==
  ASSUME NEW s
  PROVE  /\ From(InterServiceTLSCAVolume(s), Known(s))
         /\ From(File("af/tls-ca", TrustBundle), Known(s))
         /\ From(MonitoringTLSVolume(s), Known(s))
         /\ From(valkeyTLSMounts(s), Known(s))
<1>1. {TrustBundle, s.manualCA, s.monitoringCA} \subseteq Known(s)
  BY DEF Known, Rendered, VerifiedObjects
<1>2. s.valkey.tls => {s.valkey.ca, s.valkey.client} \subseteq Known(s)
  BY DEF Known, VerifiedObjects, precreatedConfigurationReferences
<1> QED
  BY <1>1, <1>2, FromFile DEF From, InterServiceTLSCAVolume, InterServiceCA, MonitoringTLSVolume,
     valkeyTLSMounts

\* The fleet CAs and the token are looked up when fleet is on.
LEMMA FleetTrustVerified ==
  ASSUME NEW s, s.fleet
  PROVE  /\ From(FleetTrustMount(s.mcpTLS, "fleet-mcp-gateway-ca"), Known(s))
         /\ From(FleetTrustMount(s.oauth2TLS, "fleet-oauth2-ca"), Known(s))
         /\ From(FleetTrustMount(s.acm.tls, "fleet-ca"), Known(s))
         /\ From(File("fleet-token", s.acm.token), Known(s))
<1>1. {s.mcpTLS.ref, s.oauth2TLS.ref, s.acm.tls.ref, s.acm.token} \subseteq Known(s)
  BY DEF Known, VerifiedObjects, validateFleetTrustSecrets
<1> QED
  BY <1>1, FromFile DEF From, FleetTrustMount

\* All the fleet mounts are, given that the OAuth2 reference is known.
LEMMA FleetVerified ==
  ASSUME NEW s, NEW ref, NEW backend \in BOOLEAN, s.fleet => ref \in Known(s)
  PROVE  From(appendFleetSecretMounts(s, ref, backend), Known(s))
<1>1. s.fleet => From(FleetCredentials(ref), Known(s))
  BY FromFile DEF FleetCredentials
<1> QED
  BY <1>1, FleetTrustVerified DEF From, appendFleetSecretMounts

\* appendPrecreatedFleetReferences collects the OAuth2 reference of every
\* component that reads the fleet.
LEMMA FleetReferencesVerified ==
  ASSUME NEW s, s.fleet
  PROVE  /\ s.weFleetRef \in Known(s)
         /\ \A c \in FleetReaders \cup {"fleetmetadatacache"} :
              Enabled(s, c) => effectiveFleetOAuth2SecretRef(s, c) \in Known(s)
BY DEF Known, VerifiedObjects, precreatedConfigurationReferences, appendPrecreatedFleetReferences

\* The telemetry Secrets of an enabled component are looked up.
LEMMA TelemetryVerified ==
  ASSUME NEW s, NEW c \in DOMAIN s.telemetry, Enabled(s, c)
  PROVE  From(AppendTelemetrySecretMounts(s.telemetry[c]), Known(s))
<1>1. s.telemetry[c].network => {s.telemetry[c].ca, s.telemetry[c].client} \subseteq Known(s)
  BY DEF Known, VerifiedObjects, validateTelemetrySecrets
<1> QED
  BY <1>1, FromFile DEF From, AppendTelemetrySecretMounts

\* The objects of every LLM profile in use are collected, but for those of a
\* severity-triage profile while LLM triage is off.
LEMMA ProfileVerified ==
  ASSUME NEW s, NEW ref,
         \/ ref \in {InvestigationRef(s), WorkflowDiscoveryRef(s)}
         \/ s.alignmentEnabled /\ ref = AlignmentRef(s)
         \/ s.apiFrontend /\ ref = AFLLMProfileRef(s)
         \/ s.apiFrontend /\ ref = s.triageProfile
  PROVE  LET p == ResolveLLMProfile(s, ref)
         IN  {p.cred, p.tls.ca, p.tls.client} \cup (IF p.oauth2.enabled THEN {p.oauth2.ref} ELSE {}) \subseteq Known(s)
<1>1. appendPrecreatedLLMProfileReference(s, ref) \subseteq appendPrecreatedLLMReferences(s) \cup Unverified(s)
  <2>1. CASE s.apiFrontend /\ ~s.llmTriage /\ ref = s.triageProfile
    BY <2>1 DEF Unverified
  <2>2. CASE ~(s.apiFrontend /\ ~s.llmTriage /\ ref = s.triageProfile)
    BY <2>2 DEF appendPrecreatedLLMReferences
  <2> QED
    BY <2>1, <2>2
<1> QED
  BY <1>1 DEF Known, VerifiedObjects, precreatedConfigurationReferences, appendPrecreatedLLMProfileReference

\* What the agent mounts for its profiles is known.
LEMMA AgentCredentialsVerified ==
  ASSUME NEW s
  PROVE  From(kaCredentialVolumesAndMounts(s), Known(s))
<1> DEFINE base == ResolveLLMProfile(s, InvestigationRef(s))
           wd   == ResolveLLMProfile(s, WorkflowDiscoveryRef(s))
           al   == ResolveLLMProfile(s, AlignmentRef(s))
           Refs(p) == {p.cred, p.tls.ca, p.tls.client} \cup (IF p.oauth2.enabled THEN {p.oauth2.ref} ELSE {})
<1>1. Refs(base) \subseteq Known(s) /\ Refs(wd) \subseteq Known(s)
        /\ (s.alignmentEnabled => Refs(al) \subseteq Known(s))
  BY ProfileVerified
<1>2. From(appendKAWorkflowDiscoveryCredentialMounts(s), Known(s))
  BY <1>1, FromFile DEF From, appendKAWorkflowDiscoveryCredentialMounts, NeedsOAuth2Mount,
     llmTLSMaterialVolumeFor
<1>3. From(appendKAAlignmentCredentialMounts(s), Known(s))
  BY <1>1, FromFile DEF From, appendKAAlignmentCredentialMounts, NeedsOAuth2Mount,
     llmTLSMaterialVolumeFor
<1>4. From(File("credentials", base.cred) \cup llmTLSMaterialVolumeFor(base, "llm-tls-client")
              \cup (IF base.oauth2.enabled THEN File("oauth2", base.oauth2.ref) ELSE {}), Known(s))
  BY <1>1, FromFile DEF From, llmTLSMaterialVolumeFor
<1> QED
  BY <1>2, <1>3, <1>4 DEF From, kaCredentialVolumesAndMounts

\* What the API frontend mounts for its profiles is known.
LEMMA FrontendCredentialsVerified ==
  ASSUME NEW s, s.apiFrontend
  PROVE  From(apifrontendCredentialVolumesMountsEnv(s), Known(s))
<1> DEFINE base == ResolveLLMProfile(s, AFLLMProfileRef(s))
           p    == ResolveLLMProfile(s, s.triageProfile)
           Refs(q) == {q.cred, q.tls.ca, q.tls.client} \cup (IF q.oauth2.enabled THEN {q.oauth2.ref} ELSE {})
<1>1. Refs(base) \subseteq Known(s) /\ Refs(p) \subseteq Known(s)
  BY ProfileVerified
<1>2. From(File("llm-credentials", base.cred) \cup llmTLSMaterialVolumeFor(base, "af-llm-tls-client"), Known(s))
  BY <1>1, FromFile DEF From, llmTLSMaterialVolumeFor
<1>3. From(File("severity-triage-credentials", p.cred) \cup llmTLSMaterialVolumeFor(p, "severity-triage-tls"), Known(s))
  BY <1>1, FromFile DEF From, llmTLSMaterialVolumeFor
<1>4. base.oauth2.enabled => From(File("oauth2", base.oauth2.ref), Known(s))
  BY <1>1, FromFile
<1> QED
  BY <1>2, <1>3, <1>4 DEF From, apifrontendCredentialVolumesMountsEnv

\* Every object that an enabled component's builder mounts is known, when the
\* pass works from one spec.
LEMMA MountsKnown ==
  ASSUME NEW s, NEW c \in Components, Enabled(s, c),
         {"gateway", "datastorage", "kubernaut-agent"} \subseteq DOMAIN s.telemetry
  PROVE  From(Mounts(c, s, s), Known(s))
<1>1. CASE c \in {"gateway", "remediationorchestrator", "signalprocessing", "effectivenessmonitor"}
  <2> DEFINE ref == effectiveFleetOAuth2SecretRef(s, c)
  <2>1. s.fleet => ref \in Known(s)
    BY <1>1, FleetReferencesVerified DEF FleetReaders
  <2>2. \A b \in BOOLEAN : From(appendFleetSecretMounts(s, ref, b), Known(s))
    BY <2>1, FleetVerified
  <2>3. c = "gateway" => From(AppendTelemetrySecretMounts(s.telemetry["gateway"]), Known(s))
    BY TelemetryVerified
  <2>4. From(File("policies", s.spPolicy), Known(s))
    BY SMT, FromFile DEF Known, VerifiedObjects, precreatedConfigurationReferences
  <2> QED
    BY <1>1, <2>2, <2>3, <2>4, TrustVerified DEF From, Mounts, GatewayDeployment,
       RemediationOrchestratorDeployment, SignalProcessingDeployment, EffectivenessMonitorDeployment
<1>2. CASE c = "datastorage"
  <2>1. From(AppendTelemetrySecretMounts(s.telemetry["datastorage"]), Known(s))
    BY <1>2, TelemetryVerified
  <2>2. From(File("signing-cert", s.signing), Known(s))
    BY SMT, FromFile DEF Known, VerifiedObjects, validateDataStorageSigningCertificate, Unverified
  <2> QED
    BY <1>2, <2>1, <2>2, TrustVerified DEF From, Mounts, DataStorageDeployment
<1>3. CASE c = "aianalysis"
  <2>1. From(File("policies", s.aiPolicy), Known(s))
    BY SMT, FromFile DEF Known, VerifiedObjects, precreatedConfigurationReferences
  <2> QED
    BY <1>3, <2>1, TrustVerified DEF From, Mounts, AIAnalysisDeployment
<1>4. CASE c = "workflowexecution"
  <2>1. From(File("combined-ca", s.aapCA), Known(s))
    BY SMT, FromFile DEF Known, Unverified
  <2>2. From(appendFleetSecretMounts(s, s.weFleetRef, FALSE), Known(s))
    BY FleetVerified, FleetReferencesVerified
  <2> QED
    BY <1>4, <2>1, <2>2, TrustVerified DEF From, Mounts, WorkflowExecutionDeployment
<1>5. CASE c = "notification"
  <2>1. {IF s.routing # NoRef THEN s.routing ELSE "notification-routing"} \subseteq Known(s)
    <3>1. "notification-routing" \in Known(s)
      BY SMT DEF Known, Rendered, ConfigMaps, ConfigMapOrder
    <3> QED
      BY <3>1 DEF Known, VerifiedObjects, precreatedConfigurationReferences
  <2>2. From(UNION {FileIn("credentials", r, r) : r \in s.credentials}, s.credentials)
    BY SMT DEF From, FileIn
  <2>3. s.credentials \subseteq Known(s)
    BY DEF Known, VerifiedObjects, precreatedConfigurationReferences
  <2> QED
    BY <1>5, <2>1, <2>2, <2>3, FromFile, TrustVerified DEF From, Mounts, NotificationDeployment
<1>6. CASE c = "kubernaut-agent"
  <2>1. {IF s.runtimeConfigMap # NoRef THEN s.runtimeConfigMap ELSE "llm-runtime"} \subseteq Known(s)
    <3>1. "llm-runtime" \in Known(s)
      BY SMT DEF Known, Rendered, ConfigMaps, ConfigMapOrder
    <3> QED
      BY <3>1 DEF Known, VerifiedObjects, precreatedConfigurationReferences
  <2>2. From(AppendTelemetrySecretMounts(s.telemetry["kubernaut-agent"]), Known(s))
    BY <1>6, TelemetryVerified
  <2>3. From(appendFleetSecretMounts(s, effectiveFleetOAuth2SecretRef(s, "kubernaut-agent"), FALSE), Known(s))
    BY <1>6, FleetVerified, FleetReferencesVerified DEF FleetReaders
  <2> QED
    BY <1>6, <2>1, <2>2, <2>3, AgentCredentialsVerified, FromFile, TrustVerified
       DEF From, Mounts, KubernautAgentDeployment
<1>7. CASE c = "authwebhook"
  BY <1>7, TrustVerified DEF Mounts, AuthWebhookDeployment
<1>8. CASE c = "apifrontend"
  <2>1. From(appendFleetSecretMounts(s, effectiveFleetOAuth2SecretRef(s, "apifrontend"), TRUE), Known(s))
    BY <1>8, FleetVerified, FleetReferencesVerified DEF FleetReaders
  <2>2. s.apiFrontend
    BY <1>8 DEF Enabled
  <2> QED
    BY <1>8, <2>1, <2>2, FrontendCredentialsVerified, TrustVerified DEF From, Mounts, APIFrontendDeployment
<1>9. CASE c = "fleetmetadatacache"
  <2>1. s.fleet
    BY <1>9 DEF Enabled, FleetMetadataCacheEnabled
  <2>2. effectiveFleetOAuth2SecretRef(s, "fleetmetadatacache") \in Known(s)
    BY <1>9, <2>1, FleetReferencesVerified
  <2>3. /\ From(File("fmc/fleet-oauth2", effectiveFleetOAuth2SecretRef(s, "fleetmetadatacache")), Known(s))
        /\ From(FleetTrustMount(s.mcpTLS, "fleet-mcp-gateway-ca"), Known(s))
        /\ From(FleetTrustMount(s.oauth2TLS, "fleet-oauth2-ca"), Known(s))
    BY <2>1, <2>2, FleetTrustVerified, FromFile
  <2> QED
    BY <1>9, <2>3, TrustVerified DEF From, Mounts, FleetMetadataCacheDeployment
<1>10. CASE c = "console"
  <2>1. s.console
    BY <1>10 DEF Enabled
  <2>2. s.consoleSecret \in Known(s)
    BY <2>1 DEF Known, VerifiedObjects, precreatedConfigurationReferences
  <2> QED
    BY <1>10, <2>2, FromFile, TrustVerified DEF From, Mounts, ConsoleDeployment
<1> QED
  BY SMT, <1>1, <1>2, <1>3, <1>4, <1>5, <1>6, <1>7, <1>8, <1>9, <1>10 DEF Components, enabledDeploymentBuilders

-----------------------------------------------------------------------------
(* The pass.                                                               *)

\* Every ConfigMap the spec asks for is rendered from it.
CurrentConfigMaps ==
  \A c \in ConfigMaps : RendersConfigMap(SpecOf[spec], c) => cms[c] = spec

\* So is every Deployment, stamp included.
CurrentDeployments ==
  \A c \in Components :
    Enabled(SpecOf[spec], c) => deps[c] = [kn |-> spec, view |-> spec, stamp |-> Stamp(c, spec)]

\* The inductive invariant: a pass that nothing has overtaken works from the
\* spec, has validated it, and leaves ConfigMaps and Deployments of it.
RenderingInv ==
  /\ TypeOK
  /\ ~unseen => cached = spec
  /\ ~queued => Valid(SpecOf[cached])
  /\ ~unseen /\ ~queued /\ pc = "configured" => view = spec /\ CurrentConfigMaps
  /\ ~unseen /\ ~queued /\ pc = "idle" => CurrentConfigMaps /\ CurrentDeployments /\ DisabledRemoved

\* A whole pass writes every ConfigMap.
LEMMA EveryConfigMapWritten == First(ConfigMapOrder, Len(ConfigMapOrder)) = ConfigMaps
BY SMT DEF First, ConfigMaps, ConfigMapOrder

\* A whole pass runs every builder.
LEMMA EveryBuilderRuns == First(enabledDeploymentBuilders, Len(enabledDeploymentBuilders)) = Components
BY SMT DEF First, Components, enabledDeploymentBuilders

\* Every component has a ConfigMap.
LEMMA ComponentsHaveConfigMaps == Components \subseteq ConfigMaps
BY SMT DEF Components, enabledDeploymentBuilders, ConfigMaps, ConfigMapOrder

\* A component's ConfigMap is rendered exactly when it is enabled.
LEMMA RenderedAsEnabled ==
  ASSUME NEW s, NEW c \in Components PROVE RendersConfigMap(s, c) = Enabled(s, c)
BY SMT DEF RendersConfigMap, Components, enabledDeploymentBuilders

\* In a settled state a Deployment is built from the spec.
LEMMA SettledDeployment ==
  ASSUME RenderingInv, Settled, NEW c \in Components, Enabled(SpecOf[spec], c)
  PROVE  deps[c].kn = spec /\ deps[c].view = spec /\ deps[c].stamp = Stamp(c, spec)
<1>1. CurrentDeployments
  BY DEF RenderingInv, Settled
<1>2. deps[c] = [kn |-> spec, view |-> spec, stamp |-> Stamp(c, spec)]
  BY <1>1 DEF CurrentDeployments
<1> QED
  BY SMT, <1>2

\* In a settled state the ConfigMaps are rendered from the spec.
LEMMA SettledConfigMaps ==
  ASSUME RenderingInv, Settled
  PROVE  CurrentConfigMaps
BY DEF RenderingInv, Settled

\* The bounds of the instance.
LEMMA RenderingBounds == MaxEdits \in Nat /\ MaxFaults \in Nat /\ EditTargets \subseteq Revisions
BY RenderingAssumption

\* Every step keeps the invariant: an edit or a fault makes the CR unseen or
\* queued again, and only a whole pass ends with neither.
LEMMA RenderingInvKept == RenderingInv /\ [Next]_vars => RenderingInv'
<1> SUFFICES ASSUME RenderingInv, [Next]_vars PROVE RenderingInv'
  OBVIOUS
<1> USE DEF RenderingInv
<1>1. CASE UNCHANGED vars
  BY <1>1 DEF vars, TypeOK, CurrentConfigMaps, CurrentDeployments, DisabledRemoved
<1>2. ASSUME NEW s \in EditTargets, Edit(s) PROVE RenderingInv'
  BY SMT, <1>2, RenderingBounds DEF Edit, TypeOK
<1>3. CASE Sync
  BY <1>3 DEF Sync, TypeOK
<1>4. CASE phaseValidate
  BY <1>4 DEF phaseValidate, TypeOK, CurrentConfigMaps, CurrentDeployments, DisabledRemoved
<1>5. CASE Abort
  BY SMT, <1>5, RenderingBounds DEF Abort, Retry, TypeOK
<1>6. ASSUME NEW k \in {cached, spec}, NEW n \in 0..Len(ConfigMapOrder), deployConfigMaps(k, n)
      PROVE  RenderingInv'
  <2>1. TypeOK'
    <3>1. k \in Revisions
      BY DEF TypeOK
    <3>2. \A c \in ConfigMaps : cms'[c] \in Revisions \cup {Absent}
      BY <1>6, <3>1 DEF deployConfigMaps, TypeOK
    <3>3. faults' \in 0..MaxFaults
      BY SMT, <1>6, RenderingBounds DEF deployConfigMaps, Retry, TypeOK
    <3>4. queued' \in BOOLEAN /\ pc' \in {"idle", "validated", "configured"}
      BY <1>6 DEF deployConfigMaps, Retry, TypeOK
    <3> QED
      BY <1>6, <3>1, <3>2, <3>3, <3>4 DEF deployConfigMaps, TypeOK
  <2>2. (~unseen' => cached' = spec') /\ (~queued' => Valid(SpecOf[cached']))
    BY <1>6 DEF deployConfigMaps, Retry
  <2>3. CASE n = Len(ConfigMapOrder)
    <3>1. pc' = "configured"
      <4>1. n # 0
        BY SMT, <2>3 DEF ConfigMapOrder
      <4> QED
        BY <1>6, <2>3, <4>1 DEF deployConfigMaps
    <3>2. ~unseen => view' = spec' /\ CurrentConfigMaps'
      BY <1>6, <2>3, EveryConfigMapWritten DEF deployConfigMaps, CurrentConfigMaps
    <3> QED
      BY <1>6, <2>1, <2>2, <3>1, <3>2 DEF deployConfigMaps
  <2>4. CASE n # Len(ConfigMapOrder)
    BY <1>6, <2>1, <2>2, <2>4 DEF deployConfigMaps, Retry
  <2> QED
    BY <2>3, <2>4
<1>7. ASSUME NEW m \in 0..Len(CleanUps), NEW n \in 0..Len(enabledDeploymentBuilders), deployWorkloads(m, n)
      PROVE  RenderingInv'
  <2>1. TypeOK'
    <3>1. \A c \in ConfigMaps : cms'[c] \in Revisions \cup {Absent}
      BY <1>7 DEF deployWorkloads, TypeOK
    <3>2. ASSUME NEW c \in Components
          PROVE  deps'[c].kn \in Revisions \cup {Absent} /\ deps'[c].view \in Revisions \cup {Absent}
      <4>1. \/ deps'[c] = [kn |-> spec, view |-> view, stamp |-> Stamp(c, view)]
            \/ deps'[c] = NoDeployment
            \/ deps'[c] = deps[c]
        BY <1>7 DEF deployWorkloads
      <4> QED
        BY SMT, <4>1 DEF TypeOK, NoDeployment
    <3>3. faults' \in 0..MaxFaults
      BY SMT, <1>7, RenderingBounds DEF deployWorkloads, Retry, TypeOK
    <3>4. queued' \in BOOLEAN /\ pc' \in {"idle", "validated", "configured"}
      BY <1>7 DEF deployWorkloads, Retry, TypeOK
    <3> QED
      BY <1>7, <3>1, <3>2, <3>3, <3>4 DEF deployWorkloads, TypeOK
  <2>2. (~unseen' => cached' = spec') /\ (~queued' => Valid(SpecOf[cached']))
    BY SMT, <1>7 DEF deployWorkloads, Retry
  <2>3. pc' = "idle"
    BY <1>7 DEF deployWorkloads, Retry
  <2>4. ASSUME ~unseen', ~queued' PROVE CurrentConfigMaps' /\ CurrentDeployments' /\ DisabledRemoved'
    <3>1. n = Len(enabledDeploymentBuilders) /\ ~unseen /\ ~queued
      BY SMT, <1>7, <2>4 DEF deployWorkloads, Retry
    <3>2. pc = "configured" /\ view = spec /\ CurrentConfigMaps /\ spec' = spec
      BY <1>7, <3>1 DEF deployWorkloads
    <3>3. \A c \in First(CleanUps, m) :
            c \in Components /\ Builds(c, SpecOf[spec], SpecOf[spec]) = Enabled(SpecOf[spec], c)
      BY SMT DEF First, CleanUps, Builds, Components, enabledDeploymentBuilders
    <3>4. CurrentConfigMaps'
      BY <1>7, <3>2, <3>3, RenderedAsEnabled DEF deployWorkloads, CurrentConfigMaps
    <3>5. CurrentDeployments'
      BY <1>7, <3>1, <3>2, EveryBuilderRuns DEF deployWorkloads, CurrentDeployments, Builds
    <3>6. DisabledRemoved'
      <4> SUFFICES ASSUME NEW c \in {"gateway", "console", "fleetmetadatacache"}, ~Enabled(SpecOf[spec], c)
                   PROVE  deps'[c] = NoDeployment /\ cms'[c] = Absent
        BY <3>2 DEF DisabledRemoved
      <4>1. c \in First(CleanUps, m)
        BY SMT, <1>7, <3>1 DEF deployWorkloads, First, CleanUps, enabledDeploymentBuilders
      <4>2. c \in Components /\ c \in ConfigMaps /\ ~Builds(c, SpecOf[spec], SpecOf[view])
        BY <3>2, <3>3, <4>1, ComponentsHaveConfigMaps
      <4> QED
        BY <1>7, <4>1, <4>2 DEF deployWorkloads
    <3> QED
      BY <3>4, <3>5, <3>6
  <2> QED
    BY <2>1, <2>2, <2>3, <2>4
<1> QED
  BY <1>1, <1>2, <1>3, <1>4, <1>5, <1>6, <1>7 DEF Next, Deploy

\* The invariant holds of every reachable state.
LEMMA RenderingInvHolds == Spec => []RenderingInv
<1>1. Init => RenderingInv
  <2> SUFFICES ASSUME Init PROVE RenderingInv
    OBVIOUS
  <2>1. \A c \in Components : deps[c].kn = Absent /\ deps[c].view = Absent
    BY DEF Init, NoDeployment
  <2>2. \A c \in ConfigMaps : cms[c] = Absent
    BY DEF Init
  <2>3. edits \in 0..MaxEdits /\ faults \in 0..MaxFaults
    BY SMT, RenderingBounds DEF Init
  <2> QED
    BY <2>1, <2>2, <2>3 DEF Init, RenderingInv, TypeOK
<1> QED
  BY <1>1, RenderingInvKept, PTL DEF Spec

\* For every spec, and whatever edits, faults and stale copies its passes went
\* through: once the operator has settled, the files that a component's
\* ConfigMaps name are mounted into its pods (configmaps.go and deployments.go).
THEOREM RenderingFilesMounted == Spec => []ConfigFilesMounted
<1>1. RenderingInv => ConfigFilesMounted
  <2> SUFFICES ASSUME RenderingInv, Settled, NEW c \in Components, Enabled(SpecOf[spec], c)
               PROVE  NamedFiles(c) \ (IF c = "apifrontend" THEN APIFrontendGap(SpecOf[spec]) ELSE {})
                        \subseteq MountedFiles(c)
    BY DEF ConfigFilesMounted
  <2> DEFINE s == SpecOf[spec]
  <2>1. cms[c] = spec /\ (s.runtimeConfigMap = NoRef => cms["llm-runtime"] = spec)
    <3>1. "llm-runtime" \in ConfigMaps /\ RendersConfigMap(s, "llm-runtime") = (s.runtimeConfigMap = NoRef)
      BY SMT DEF ConfigMaps, ConfigMapOrder, RendersConfigMap
    <3> QED
      BY <3>1, RenderedAsEnabled, ComponentsHaveConfigMaps DEF RenderingInv, Settled, CurrentConfigMaps
  <2>2. MountedFiles(c) = Mounts(c, s, s)
    BY SettledDeployment DEF MountedFiles
  <2>3. NamedFiles(c) \subseteq ConfigFiles(c, s, s)
          \cup (IF c = "kubernaut-agent" THEN KubernautAgentLLMRuntimeConfigMap(s) ELSE {})
    BY <2>1 DEF NamedFiles
  <2>4. CASE c = "apifrontend"
    BY <2>2, <2>3, <2>4, APIFrontendFilesCovered
  <2>5. CASE c = "kubernaut-agent"
    BY <2>2, <2>3, <2>5, KubernautAgentFilesMounted
  <2>6. CASE c \notin {"apifrontend", "kubernaut-agent"}
    BY SMT, <2>2, <2>3, <2>6, ControllerFilesMounted, FleetMetadataCacheFilesMounted
       DEF Components, enabledDeploymentBuilders
  <2> QED
    BY <2>4, <2>5, <2>6
<1> QED
  BY <1>1, RenderingInvHolds, PTL

\* Once settled, every administrator-owned object that a pod mounts has been
\* looked up by phaseValidate for this spec, or is one of the named exceptions.
THEOREM RenderingMountsVerified == Spec => []MountsVerified
<1>1. RenderingInv => MountsVerified
  <2> SUFFICES ASSUME RenderingInv, Settled, NEW c \in Components, Enabled(SpecOf[spec], c)
               PROVE  {f.from : f \in MountedFiles(c)} \subseteq Known(SpecOf[spec])
    BY DEF MountsVerified, Known
  <2>1. MountedFiles(c) = Mounts(c, SpecOf[spec], SpecOf[spec])
    BY SettledDeployment DEF MountedFiles
  <2>2. {"gateway", "datastorage", "kubernaut-agent"} \subseteq DOMAIN SpecOf[spec].telemetry
    BY RenderingAssumption DEF RenderingInv, TypeOK
  <2> QED
    BY <2>1, <2>2, MountsKnown DEF From
<1> QED
  BY <1>1, RenderingInvHolds, PTL

\* Once settled, the pods carry the hash of the persisted ConfigMaps
\* (stampConfigMapHash), the agent's runtime ConfigMap included.
THEOREM RenderingRollsTogether == Spec => []RolledOutTogether
<1>1. RenderingInv => RolledOutTogether
  <2> SUFFICES ASSUME RenderingInv, Settled, NEW c \in Components, Enabled(SpecOf[spec], c)
               PROVE  /\ deps[c].stamp[1] = cms[c]
                      /\ c = "kubernaut-agent" /\ SpecOf[spec].runtimeConfigMap = NoRef
                           => deps[c].stamp[2] = cms["llm-runtime"]
    BY DEF RolledOutTogether
  <2>1. deps[c].stamp = Stamp(c, spec) /\ cms[c] = spec
    BY RenderedAsEnabled, ComponentsHaveConfigMaps, SettledDeployment, SettledConfigMaps DEF CurrentConfigMaps
  <2>2. Hash(c, spec) = spec
    BY RenderedAsEnabled DEF Hash
  <2>3. ASSUME SpecOf[spec].runtimeConfigMap = NoRef
        PROVE  Hash("llm-runtime", spec) = spec /\ cms["llm-runtime"] = spec
    BY SMT, <2>3 DEF RenderingInv, Settled, CurrentConfigMaps, Hash, RendersConfigMap, ConfigMaps, ConfigMapOrder
  <2> QED
    BY SMT, <2>1, <2>2, <2>3 DEF Stamp
<1> QED
  BY <1>1, RenderingInvHolds, PTL

\* Whatever the passes went through, a settled CR is one that phaseValidate
\* accepts, and nothing is left of a gateway, Console or fleet metadata cache
\* that it has switched off.
THEOREM RenderingSettlesClean == Spec => [](Settled => Valid(SpecOf[spec]) /\ DisabledRemoved)
<1>1. RenderingInv => (Settled => Valid(SpecOf[spec]) /\ DisabledRemoved)
  BY DEF RenderingInv, Settled
<1> QED
  BY <1>1, RenderingInvHolds, PTL

--------------------------------------------------------------------------
(* RuntimeTLS                                                              *)

\* The bundle that the pass holds, and the one in the cache, are never ahead
\* of the persisted one, and the operator has hashed a bundle only after its
\* cache held one.
BundlesOrdered ==
  /\ \A w \in Webhooks : cwh[w].bundle # None => wh[w].bundle # None
  /\ tls.mode # "referenced" =>
       /\ \A w \in Webhooks : wh[w].hash[1] # None => cwh[w].bundle # None
       /\ step \in {2, 4} => /\ found.bundle # None => cwh[Hook].bundle # None
                             /\ wh[Hook].hash[1] # None => found.bundle # None
  /\ tls.mode = "referenced" => \A w \in Webhooks : Exists(wh[w]) => wh[w].bundle # None

\* What the configurations of a CR whose spec.tls never changed look like.
OfMode(c) ==
  IF Exists(c) THEN c.inject = InjectFor(tls.mode) /\ c.hash[2] = InjectFor(tls.mode)
  ELSE c.bundle = None /\ c.hash[1] = None

\* What a pass knows: its copy of spec.tls while it runs, that only two modes
\* wait for a bundle, and the CA it writes in referenced mode.
PassKnown ==
  /\ (knTLS = NoTLS) = (phase = "idle")
  /\ phase \in {"validate", "bundles"} => knTLS.mode \in {"provisioned", "manual"}
  /\ phase = "deploy" /\ knTLS.mode = "referenced" => caRead # None

\* The generated Issuers have the names that this spec.tls generates.
IssuersOfSpec ==
  /\ \A o \in GeneratedIssuers : certs[o] # "absent" => o \in CertManagerBootstrapIssuerNames(tls)
  /\ issuerRef \notin GeneratedIssuers

\* What holds while spec.tls has never been edited.
Unedited ==
  /\ phase # "idle" => knTLS = tls
  /\ \A w \in Webhooks : OfMode(wh[w])
  /\ BundlesOrdered
  /\ phase = "validated" /\ knTLS.mode \in {"provisioned", "manual"} => \A w \in Webhooks : wh[w].bundle # None

\* The inductive invariant.
TLSInv ==
  /\ TypeOKTLS
  /\ PassKnown
  /\ ~edited => Unedited /\ IssuersOfSpec

\* What a spec.tls holds, and values of the small sets of RuntimeTLS.
LEMMA TLSConstants ==
  /\ \A s \in TLSSpecs : /\ s.mode \in Modes /\ s.names \in {"default", "own"} /\ s # NoTLS
                         /\ s.issuer \in External \cup {None} /\ s.bootstrap \in Bootstraps
  /\ NoConfiguration \in Configurations /\ None \in CAs
  /\ \A m \in Modes : InjectFor(m) \in {"service-ca", "cert-manager", "nobody"}
<1>1. NoConfiguration \in Configurations /\ None \in CAs
  BY DEF NoConfiguration, Configurations, CAs, None
<1>2. ASSUME NEW s \in TLSSpecs
      PROVE  /\ s.mode \in Modes /\ s.names \in {"default", "own"} /\ s.mode # None
             /\ s.issuer \in External \cup {None} /\ s.bootstrap \in Bootstraps
  BY DEF TLSSpecs, Modes, None
<1>3. NoTLS.mode = None
  BY DEF NoTLS
<1> QED
  BY <1>1, <1>2, <1>3 DEF InjectFor, Modes

\* Where a CA may come from.
LEMMA CAsKnown ==
  ASSUME TypeOKTLS
  PROVE  /\ \A s \in TLSSpecs : readRuntimeTLSCA(s) \in CAs
         /\ External \cup GeneratedIssuers \subseteq CAs
<1>1. \A n \in {"default", "own"} : mat[n].ca \in CAs
  BY DEF TypeOKTLS
<1>2. trust.ca \in CAs
  BY DEF TypeOKTLS
<1> QED
  BY <1>1, <1>2, TLSConstants DEF readRuntimeTLSCA, GeneratedIssuers, CAs

\* The resolved issuer, when there is one, exists.
LEMMA ResolvedIssuer ==
  ASSUME TypeOKTLS, NEW s, resolveCertManagerIssuer(s) # {}
  PROVE  LET i == CHOOSE i \in resolveCertManagerIssuer(s) : TRUE
         IN  /\ i \in resolveCertManagerIssuer(s) /\ i \in Issuers
             /\ i \in External \cup GeneratedIssuers
<1>1. (CHOOSE i \in resolveCertManagerIssuer(s) : TRUE) \in resolveCertManagerIssuer(s)
  OBVIOUS
<1>2. resolveCertManagerIssuer(s) \subseteq Issuers
  BY DEF resolveCertManagerIssuer
<1>3. Issuers \subseteq External \cup GeneratedIssuers
  BY DEF Issuers, TypeOKTLS
<1> QED
  BY <1>1, <1>2, <1>3

\* Creating the generated objects keeps their types.
LEMMA ProvisioningTypes ==
  ASSUME TypeOKTLS, NEW s, resolveCertManagerIssuer(s) # {}, NEW n \in Nat, ensureCertManagerTLSResources(s, n)
  PROVE  /\ certs' \in [CertObjects -> {"absent", "pending", "ready"}]
         /\ issuerRef' \in External \cup GeneratedIssuers \cup {None}
BY ResolvedIssuer DEF TypeOKTLS, ensureCertManagerTLSResources

LEMMA ProvisionTypes ==
  ASSUME TypeOKTLS, NEW s, Provision(s)
  PROVE  /\ certs' \in [CertObjects -> {"absent", "pending", "ready"}]
         /\ issuerRef' \in External \cup GeneratedIssuers \cup {None}
<1>1. Len(CertManagerTLSResources(s)) \in Nat
  BY SMT DEF CertManagerTLSResources
<1> QED
  BY <1>1, ProvisioningTypes DEF Provision, TypeOKTLS

\* The desired configuration is a configuration.
LEMMA DesiredType ==
  ASSUME TypeOKTLS, knTLS.mode \in Modes
  PROVE  Desired(found) \in Configurations
<1>1. InjectFor(knTLS.mode) \in {"service-ca", "cert-manager", "nobody"}
  BY TLSConstants
<1>2. preserveWebhookCABundle(found) \in CAs
  BY DEF preserveWebhookCABundle, TypeOKTLS, Configurations
<1> QED
  BY <1>1, <1>2 DEF Desired, Configurations, mergeAnnotations

\* The types of the variables of a pass.
PassType ==
  /\ knTLS \in TLSSpecs \cup {NoTLS}
  /\ phase \in {"idle", "validate", "bundles", "validated", "migrated", "deploy"}
  /\ step \in 0..4 /\ (step # 0) = (phase \in {"validate", "deploy"})
  /\ found \in Configurations /\ caRead \in CAs

\* The end of a pass keeps them.
LEMMA IdleType == Idle => PassType'
BY SMT, TLSConstants DEF Idle, PassType, CAs

\* Initially there are no configurations.
LEMMA InitTLSInv == InitTLS => TLSInv
<1> SUFFICES ASSUME InitTLS PROVE TLSInv
  OBVIOUS
<1>1. TypeOKTLS
  <2>1. caRead \in CAs /\ mat \in [{"default", "own"} -> [ca : CAs, leaf : CAs, aw : CAs]]
    BY TLSConstants DEF InitTLS
  <2>2. tls \in TLSSpecs /\ events \in 0..MaxEvents
    BY SMT, RuntimeTLSAssumption DEF InitTLS
  <2>3. found \in Configurations /\ wh \in [Webhooks -> Configurations] /\ cwh = wh
    BY TLSConstants DEF InitTLS
  <2>4. PassType
    BY SMT, <2>1, <2>3 DEF InitTLS, PassType
  <2>5. fresh \in [Webhooks -> BOOLEAN] /\ tlsReady \in BOOLEAN /\ edited \in BOOLEAN
    BY DEF InitTLS
  <2>6. /\ certs \in [CertObjects -> {"absent", "pending", "ready"}]
        /\ issuers \subseteq External /\ issuerRef \in External \cup GeneratedIssuers \cup {None}
        /\ deployed \in TLSSpecs \cup {NoTLS}
    BY DEF InitTLS, External
  <2>7. /\ signing \in BOOLEAN /\ refused \subseteq {"leaf", "aw"}
        /\ trust \in [ca : CAs, owner : {None, "operator", "admin"}, inject : BOOLEAN]
    BY TLSConstants DEF InitTLS, NoTrust
  <2> QED
    BY <2>1, <2>2, <2>3, <2>4, <2>5, <2>6, <2>7 DEF TypeOKTLS, PassType
<1>2. \A w \in Webhooks : wh[w] = NoConfiguration /\ cwh[w] = NoConfiguration
  BY DEF InitTLS
<1>3. ~Exists(NoConfiguration) /\ NoConfiguration.bundle = None /\ NoConfiguration.hash[1] = None
  BY DEF NoConfiguration, Exists
<1>4. (\A w \in Webhooks : OfMode(wh[w])) /\ BundlesOrdered
  BY SMT, <1>2, <1>3 DEF OfMode, BundlesOrdered, InitTLS
<1>5. IssuersOfSpec
  BY DEF IssuersOfSpec, InitTLS, GeneratedIssuers, CertObjects, Bootstraps, None
<1> QED
  BY <1>1, <1>4, <1>5 DEF TLSInv, PassKnown, Unedited, InitTLS

\* A step keeps the variables' types.
LEMMA TLSTypeStep == TLSInv /\ [NextTLS]_tlsVars => TypeOKTLS'
<1> SUFFICES ASSUME TLSInv, [NextTLS]_tlsVars PROVE TypeOKTLS'
  OBVIOUS
<1>a. TypeOKTLS /\ MaxEvents \in Nat
  BY RuntimeTLSAssumption DEF TLSInv
<1>b. None \in CAs /\ NoConfiguration \in Configurations
  BY TLSConstants DEF CAs
<1>c. PassType
  BY <1>a DEF PassType, TypeOKTLS
<1>1. CASE UNCHANGED tlsVars
  BY <1>a, <1>1 DEF tlsVars, pass, hooks, cm, material, bounds, TypeOKTLS
<1>2. CASE validateTLSConfiguration
  <2>1. certs' \in [CertObjects -> {"absent", "pending", "ready"}]
          /\ issuerRef' \in External \cup GeneratedIssuers \cup {None}
    BY <1>a, <1>2, ProvisionTypes DEF validateTLSConfiguration
  <2>2. tlsReady' \in BOOLEAN
    BY <1>a, <1>2 DEF validateTLSConfiguration, Fail, Validated, TypeOKTLS
  <2>3. PassType'
    BY SMT, <1>a, <1>c, <1>2, IdleType DEF validateTLSConfiguration, Fail, Validated, TypeOKTLS, PassType
  <2> QED
    BY <1>a, <1>2, <2>1, <2>2, <2>3 DEF validateTLSConfiguration, TypeOKTLS, PassType, hooks, material, bounds
<1>3. ASSUME NEW n \in 1..4, PartialProvisioning(n) PROVE TypeOKTLS'
  <2>0. n \in Nat
    BY SMT
  <2>1. certs' \in [CertObjects -> {"absent", "pending", "ready"}]
          /\ issuerRef' \in External \cup GeneratedIssuers \cup {None}
    BY <1>a, <1>3, <2>0, ProvisioningTypes DEF PartialProvisioning
  <2>2. PassType' /\ tlsReady' = FALSE
    BY <1>3, IdleType DEF PartialProvisioning, Fail
  <2>3. events' \in 0..MaxEvents
    BY SMT, <1>a, <1>3 DEF PartialProvisioning, Event, TypeOKTLS
  <2> QED
    BY <1>a, <1>3, <2>1, <2>2, <2>3 DEF PartialProvisioning, TypeOKTLS, PassType, hooks, material
<1>4. CASE ensureWebhookConfiguration
  BY SMT, <1>a, <1>4 DEF ensureWebhookConfiguration, TypeOKTLS, hooks, cm, material, bounds, Hook, Webhooks
<1>5. CASE ensureUnowned
  <2>1. Desired(found) \in Configurations
    BY <1>a, <1>5, TLSConstants, DesiredType DEF ensureUnowned, TLSInv, PassKnown, TypeOKTLS
  <2> DEFINE d == Desired(found)
  <2> HIDE DEF d
  <2>2. \/ UNCHANGED hooks
        \/ Write(Hook, d)
    BY <1>5 DEF ensureUnowned, d
  <2>3. /\ wh' \in [Webhooks -> Configurations] /\ cwh' \in [Webhooks -> Configurations]
        /\ fresh' \in [Webhooks -> BOOLEAN] /\ \A w \in Webhooks : fresh'[w] => cwh'[w] = wh'[w]
    <3>1. d \in Configurations /\ Hook \in Webhooks
      BY <2>1 DEF d, Hook, Webhooks
    <3>2. CASE UNCHANGED hooks
      BY <1>a, <3>2 DEF TypeOKTLS, hooks
    <3>3. CASE Write(Hook, d)
      BY <1>a, <3>1, <3>3 DEF TypeOKTLS, Write
    <3> QED
      BY <2>2, <3>2, <3>3
  <2>4. Advance \/ Fail \/ (Idle /\ UNCHANGED tlsReady)
    BY <1>5 DEF ensureUnowned
  <2>5. PassType'
    <3>1. CASE Advance
      BY SMT, <1>b, <1>c, <1>5, <3>1, IdleType DEF Advance, PassType, ensureUnowned
    <3> QED
      BY <2>4, <3>1, IdleType DEF Fail
  <2>6. deployed' \in TLSSpecs \cup {NoTLS} /\ refused' \subseteq {"leaf", "aw"}
    BY <1>a, <1>5 DEF Advance, clearStaleServingCertErrors, TypeOKTLS, ensureUnowned
  <2>7. tlsReady' \in BOOLEAN
    BY <1>a, <1>5 DEF Fail, TypeOKTLS, ensureUnowned
  <2> QED
    BY <1>a, <1>5, <2>3, <2>5, <2>6, <2>7 DEF ensureUnowned, TypeOKTLS, PassType, cm, bounds
<1>6. CASE validateWebhookCABundles
  <2>1. PassType'
    BY SMT, <1>c, <1>6, IdleType DEF validateWebhookCABundles, Fail, Validated, PassType
  <2>2. tlsReady' \in BOOLEAN
    BY <1>6 DEF validateWebhookCABundles, Fail, Validated
  <2> QED
    BY <1>a, <1>6, <2>1, <2>2 DEF validateWebhookCABundles, TypeOKTLS, PassType, hooks, cm, material, bounds
<1>b1. ASSUME NEW s \in TLSSpecs, ensureTLSConfigMaps(s)
       PROVE  trust' \in [ca : CAs, owner : {None, "operator", "admin"}, inject : BOOLEAN]
  BY <1>a, <1>b1, TLSConstants, CAsKnown DEF ensureTLSConfigMaps, TypeOKTLS
<1>7. CASE ensureMigrationPrereqs
  <2>1. certs' \in [CertObjects -> {"absent", "pending", "ready"}]
          /\ issuerRef' \in External \cup GeneratedIssuers \cup {None}
    BY <1>a, <1>7, ProvisionTypes DEF ensureMigrationPrereqs
  <2>2. PassType'
    BY SMT, <1>a, <1>b, <1>c, <1>7, IdleType DEF ensureMigrationPrereqs, TypeOKTLS, PassType
  <2>3. trust' \in [ca : CAs, owner : {None, "operator", "admin"}, inject : BOOLEAN]
    BY <1>a, <1>b1, <1>7 DEF ensureMigrationPrereqs, TypeOKTLS
  <2> QED
    BY <1>a, <1>7, <2>1, <2>2, <2>3 DEF ensureMigrationPrereqs, TypeOKTLS, PassType, hooks, bounds
<1>8. CASE ensureRuntimeTLS
  <2>1. certs' \in [CertObjects -> {"absent", "pending", "ready"}]
          /\ issuerRef' \in External \cup GeneratedIssuers \cup {None}
    BY <1>a, <1>8, ProvisionTypes DEF ensureRuntimeTLS
  <2>2. readRuntimeTLSCA(tls) \in CAs
    BY <1>a, CAsKnown DEF TypeOKTLS
  <2>3. PassType'
    BY SMT, <1>a, <1>b, <1>c, <1>8, <2>2, IdleType DEF ensureRuntimeTLS, Fail, TypeOKTLS, PassType
  <2>4. tlsReady' \in BOOLEAN
    BY <1>a, <1>8 DEF ensureRuntimeTLS, Fail, TypeOKTLS
  <2>5. trust' \in [ca : CAs, owner : {None, "operator", "admin"}, inject : BOOLEAN]
    BY <1>a, <1>b1, <1>8 DEF ensureRuntimeTLS, TypeOKTLS
  <2> QED
    BY <1>a, <1>8, <2>1, <2>3, <2>4, <2>5 DEF ensureRuntimeTLS, TypeOKTLS, PassType, hooks, bounds
<1>9. CASE AbortTLS
  BY SMT, <1>a, <1>b, <1>9 DEF AbortTLS, Idle, Event, TypeOKTLS, hooks, cm, material
<1>10. CASE ValidationError
  <2>1. PassType' /\ tlsReady' = FALSE
    BY <1>10, IdleType DEF ValidationError, Fail
  <2>2. events' \in 0..MaxEvents
    BY SMT, <1>a, <1>10 DEF ValidationError, Event, TypeOKTLS
  <2> QED
    BY <1>a, <1>10, <2>1, <2>2 DEF ValidationError, TypeOKTLS, PassType, hooks, cm, material
<1>11. ASSUME NEW e \in Edits, EditTLS(e) PROVE TypeOKTLS'
  <2>1. e[2] \in TLSSpecs
    BY SMT, RuntimeTLSAssumption
  <2> QED
    BY SMT, <1>a, <1>11, <2>1 DEF EditTLS, Event, TypeOKTLS, pass, hooks, cm, material
<1>12. ASSUME NEW w \in Webhooks, Deliver(w) PROVE TypeOKTLS'
  BY <1>a, <1>12 DEF Deliver, TypeOKTLS, pass, cm, material, bounds
<1>13. ASSUME NEW w \in Webhooks, Inject(w) PROVE TypeOKTLS'
  <2>0. \A n \in {"default", "own"} : mat[n].aw \in CAs
    BY <1>a DEF TypeOKTLS
  <2>1. PICK ca \in CAs : SetBundle(w, ca)
    BY <1>a, <1>13, <2>0, TLSConstants DEF Inject, TypeOKTLS, CAs
  <2>2. [wh[w] EXCEPT !.bundle = ca] \in Configurations
    <3>1. wh[w] \in Configurations
      BY <1>a DEF TypeOKTLS
    <3> QED
      BY <3>1 DEF Configurations
  <2> QED
    BY <1>a, <2>1, <2>2 DEF SetBundle, Write, TypeOKTLS, pass, cm, material, bounds
<1>14. CASE PlatformIssues
  <2>1. \A c \in {"ca", "leaf", "aw"} : mat["default"][c] \in CAs
    BY <1>a DEF TypeOKTLS
  <2>2. "platform" \in CAs
    BY DEF CAs
  <2>3. mat' \in [{"default", "own"} -> [ca : CAs, leaf : CAs, aw : CAs]]
    BY SMT, <1>a, <1>14, <2>1, <2>2 DEF PlatformIssues, TypeOKTLS
  <2>4. refused' \subseteq {"leaf", "aw"}
    BY <1>a, <1>14 DEF PlatformIssues, TypeOKTLS
  <2> QED
    BY <1>a, <1>14, <2>3, <2>4 DEF PlatformIssues, TypeOKTLS, pass, hooks, cm, bounds
<1>15. CASE PlatformTrust
  <2>1. trust' \in [ca : CAs, owner : {None, "operator", "admin"}, inject : BOOLEAN]
    BY <1>a, <1>15 DEF PlatformTrust, TypeOKTLS, CAs
  <2> QED
    BY <1>a, <1>15, <2>1 DEF PlatformTrust, TypeOKTLS, pass, hooks, cm, bounds
<1>16. CASE Supply
  <2>1. \A n \in {"default", "own"} : mat[n].ca \in CAs
    BY <1>a DEF TypeOKTLS
  <2>2. "admin" \in CAs /\ tls.names \in {"default", "own"}
    BY <1>a, TLSConstants DEF CAs, TypeOKTLS
  <2>3. mat' \in [{"default", "own"} -> [ca : CAs, leaf : CAs, aw : CAs]]
    BY SMT, <1>a, <1>16, <2>1, <2>2 DEF Supply, TypeOKTLS
  <2>4. trust' \in [ca : CAs, owner : {None, "operator", "admin"}, inject : BOOLEAN]
    <3>1. trust \in [ca : CAs, owner : {None, "operator", "admin"}, inject : BOOLEAN]
      BY <1>a DEF TypeOKTLS
    <3>2. \/ trust' = trust
          \/ trust' = [trust EXCEPT !.ca = "admin", !.owner = IF trust.owner = None THEN "admin" ELSE trust.owner]
      BY <1>16 DEF Supply
    <3> QED
      BY <2>2, <3>1, <3>2
  <2>5. signing' \in BOOLEAN
    BY <1>a, <1>16 DEF Supply, TypeOKTLS
  <2> QED
    BY <1>a, <1>16, <2>3, <2>4, <2>5 DEF Supply, TypeOKTLS, pass, hooks, cm, bounds
<1>17. ASSUME NEW o \in Certificates, CertManagerIssues(o) PROVE TypeOKTLS'
  <2> DEFINE s == mat["default"]
  <2>1. s \in [ca : CAs, leaf : CAs, aw : CAs]
    BY <1>a DEF TypeOKTLS
  <2>2. issuerRef \in CAs /\ "cm1" \in CAs
    BY <1>a, CAsKnown DEF TypeOKTLS, CAs
  <2>3. \/ mat' = [mat EXCEPT !["default"].ca = IF s.ca = None THEN "cm1" ELSE s.ca]
        \/ mat' = [mat EXCEPT !["default"].leaf = s.ca]
        \/ mat' = [mat EXCEPT !["default"].aw = issuerRef]
    BY <1>17 DEF CertManagerIssues
  <2> HIDE DEF s
  <2>4. mat' \in [{"default", "own"} -> [ca : CAs, leaf : CAs, aw : CAs]]
    BY SMT, <1>a, <2>1, <2>2, <2>3 DEF TypeOKTLS
  <2>5. certs' \in [CertObjects -> {"absent", "pending", "ready"}] /\ signing' \in BOOLEAN
    BY <1>a, <1>17 DEF CertManagerIssues, TypeOKTLS
  <2> QED
    BY <1>a, <1>17, <2>4, <2>5 DEF CertManagerIssues, TypeOKTLS, pass, hooks, bounds
<1>18. CASE RenewCA
  <2>1. mat' \in [{"default", "own"} -> [ca : CAs, leaf : CAs, aw : CAs]]
    BY SMT, <1>a, <1>18 DEF RenewCA, TypeOKTLS, CAs
  <2> QED
    BY SMT, <1>a, <1>18, <2>1 DEF RenewCA, Event, TypeOKTLS, pass, hooks, cm
<1>19. ASSUME NEW s \in SUBSET External, ChangeIssuers(s) PROVE TypeOKTLS'
  BY SMT, <1>a, <1>19 DEF ChangeIssuers, Event, TypeOKTLS, pass, hooks, material
<1>20. CASE RemoveLeftovers
  <2>1. mat' \in [{"default", "own"} -> [ca : CAs, leaf : CAs, aw : CAs]]
    <3>1. mat \in [{"default", "own"} -> [ca : CAs, leaf : CAs, aw : CAs]]
      BY <1>a DEF TypeOKTLS
    <3>2. mat' = mat \/ mat' = [mat EXCEPT !["default"].leaf = None, !["default"].aw = None]
      BY <1>20 DEF RemoveLeftovers
    <3> QED
      BY SMT, <1>b, <3>1, <3>2
  <2>2. trust' \in [ca : CAs, owner : {None, "operator", "admin"}, inject : BOOLEAN]
    BY <1>a, <1>b, <1>20 DEF RemoveLeftovers, NoTrust, TypeOKTLS
  <2>3. certs' \in [CertObjects -> {"absent", "pending", "ready"}]
    BY <1>a, <1>20 DEF RemoveLeftovers, TypeOKTLS
  <2> QED
    BY <1>a, <1>20, <2>1, <2>2, <2>3 DEF RemoveLeftovers, TypeOKTLS, pass, hooks, bounds
<1> QED
  BY <1>1, <1>2, <1>3, <1>4, <1>5, <1>6, <1>7, <1>8, <1>9, <1>10, <1>11, <1>12, <1>13, <1>14, <1>15, <1>16, <1>17,
     <1>18, <1>19, <1>20
     DEF NextTLS, Reconcile, Environment, Issuance, Administrator

\* A step keeps what a pass knows.
LEMMA TLSPassStep == TLSInv /\ [NextTLS]_tlsVars => PassKnown'
<1> SUFFICES ASSUME TLSInv, [NextTLS]_tlsVars PROVE PassKnown'
  OBVIOUS
<1>a. tls \in TLSSpecs /\ tls # NoTLS /\ PassKnown
  BY TLSConstants DEF TLSInv, TypeOKTLS
<1>b. Idle => PassKnown'
  BY DEF Idle, PassKnown
<1>1. CASE UNCHANGED <<phase, knTLS, caRead>>
  BY <1>a, <1>1 DEF PassKnown
<1>2. CASE validateTLSConfiguration
  BY <1>a, <1>b, <1>2 DEF validateTLSConfiguration, Fail, Validated, PassKnown
<1>3. CASE ValidationError \/ \E n \in 1..4 : PartialProvisioning(n)
  BY <1>b, <1>3 DEF ValidationError, PartialProvisioning, Fail
<1>4. CASE ensureUnowned
  BY <1>a, <1>b, <1>4 DEF ensureUnowned, Advance, Fail, PassKnown
<1>5. CASE validateWebhookCABundles
  BY <1>a, <1>b, <1>5 DEF validateWebhookCABundles, Fail, Validated, PassKnown
<1>6. CASE ensureMigrationPrereqs
  BY <1>a, <1>b, <1>6 DEF ensureMigrationPrereqs, PassKnown
<1>7. CASE ensureRuntimeTLS
  BY <1>a, <1>b, <1>7
     DEF ensureRuntimeTLS, Fail, PassKnown, RuntimeTLSResolved, ValidateInternalCASecret
<1>8. CASE AbortTLS
  BY <1>b, <1>8 DEF AbortTLS
<1>9. CASE Environment \/ Administrator \/ RenewCA
  BY <1>1, <1>9
     DEF Environment, Issuance, Administrator, pass, EditTLS, Deliver, Inject, SetBundle, PlatformIssues,
         PlatformTrust, Supply, CertManagerIssues, RenewCA, ChangeIssuers, RemoveLeftovers
<1> QED
  BY <1>1, <1>2, <1>3, <1>4, <1>5, <1>6, <1>7, <1>8, <1>9
     DEF NextTLS, Reconcile, tlsVars, pass, ensureWebhookConfiguration

\* The parts of the desired configuration, which always exists.
LEMMA DesiredShape ==
  ASSUME TypeOKTLS, knTLS.mode \in Modes
  PROVE  /\ Exists(Desired(found)) /\ Desired(found).inject = InjectFor(knTLS.mode)
         /\ Desired(found).hash = <<Desired(found).bundle, InjectFor(knTLS.mode)>>
         /\ Desired(found).bundle = IF knTLS.mode = "referenced" THEN caRead ELSE found.bundle
BY TLSConstants DEF Desired, mergeAnnotations, preserveWebhookCABundle, Exists

\* The heart of the matter.  A write without a bundle would need a read that saw
\* none; then no hash with a bundle was ever written, the configuration is either
\* absent or has the desired hash already, and in the latter case ensureResource
\* does not write.
LEMMA WriteKeepsBundle ==
  ASSUME TLSInv, ~edited, ensureUnowned, ~UNCHANGED hooks
  PROVE  /\ Write(Hook, Desired(found)) /\ Hook \in Webhooks /\ knTLS.mode = tls.mode /\ tls.mode \in Modes
         /\ Desired(found).bundle = None => wh[Hook].bundle = None
<1>1. TypeOKTLS /\ knTLS.mode = tls.mode /\ knTLS.mode \in Modes /\ Hook \in Webhooks /\ OfMode(wh[Hook]) /\ BundlesOrdered
  <2>1. TypeOKTLS /\ knTLS = tls /\ tls \in TLSSpecs
    BY DEF TLSInv, Unedited, ensureUnowned, TypeOKTLS
  <2>2. tls.mode \in Modes
    BY <2>1, TLSConstants
  <2>3. Hook \in Webhooks
    BY DEF Hook, Webhooks
  <2> QED
    BY <2>1, <2>2, <2>3 DEF TLSInv, Unedited
<1> DEFINE d == Desired(found)
<1> HIDE DEF d
<1>2. /\ Write(Hook, d)
      /\ Exists(cwh[Hook]) => fresh[Hook]
      /\ (IF Exists(cwh[Hook]) THEN cwh[Hook] ELSE wh[Hook]).hash # d.hash
      /\ step \in {2, 4}
  BY DEF ensureUnowned, d
<1>3. wh[Hook].hash # d.hash
  BY <1>1, <1>2 DEF TypeOKTLS
<1>4. ASSUME d.bundle = None, Exists(wh[Hook]) PROVE FALSE
  <2>1. wh[Hook].hash \in CAs \X {"absent", "service-ca", "cert-manager", "nobody"}
    BY <1>1 DEF TypeOKTLS, Configurations
  <2>2. wh[Hook].hash[1] = None
    <3>1. CASE tls.mode = "referenced"
      <4>1. phase = "deploy" /\ caRead # None
        BY <1>1, <3>1 DEF TLSInv, PassKnown, ensureUnowned
      <4> QED
        BY <1>1, <1>4, <3>1, <4>1, DesiredShape DEF d
    <3>2. CASE tls.mode # "referenced"
      BY <1>1, <1>2, <1>4, <3>2, DesiredShape DEF d, BundlesOrdered
    <3> QED
      BY <3>1, <3>2
  <2>3. wh[Hook].hash[2] = InjectFor(knTLS.mode)
    BY <1>1, <1>4 DEF OfMode
  <2>4. d.hash = <<None, InjectFor(knTLS.mode)>>
    BY <1>1, <1>4, DesiredShape DEF d
  <2> QED
    BY SMT, <1>3, <2>1, <2>2, <2>3, <2>4
<1> QED
  BY <1>1, <1>2, <1>4 DEF OfMode, d

\* Only an edit changes spec.tls.
LEMMA TLSUneditedSpec == [NextTLS]_tlsVars /\ ~edited' => ~edited /\ tls' = tls
<1> SUFFICES ASSUME [NextTLS]_tlsVars, ~edited' PROVE ~edited /\ tls' = tls
  OBVIOUS
<1>1. CASE UNCHANGED <<tls, edited>>
  BY <1>1
<1>2. ASSUME NEW e \in Edits, EditTLS(e) PROVE FALSE
  BY <1>2 DEF EditTLS
<1>3. CASE validateTLSConfiguration \/ ValidationError \/ \E n \in 1..4 : PartialProvisioning(n)
  BY <1>1, <1>3 DEF validateTLSConfiguration, ValidationError, PartialProvisioning, bounds
<1>4. CASE ensureWebhookConfiguration \/ ensureUnowned \/ validateWebhookCABundles
  BY <1>1, <1>4 DEF ensureWebhookConfiguration, ensureUnowned, validateWebhookCABundles, bounds
<1>5. CASE ensureMigrationPrereqs \/ ensureRuntimeTLS \/ AbortTLS \/ RenewCA
  BY <1>1, <1>5 DEF ensureMigrationPrereqs, ensureRuntimeTLS, AbortTLS, RenewCA, bounds
<1>6. CASE RemoveLeftovers \/ \E s \in SUBSET External : ChangeIssuers(s)
  BY <1>1, <1>6 DEF RemoveLeftovers, ChangeIssuers, bounds
<1>7. CASE Environment
  BY <1>1, <1>7 DEF Environment, Issuance, Deliver, Inject, SetBundle, PlatformIssues, PlatformTrust, Supply,
                    CertManagerIssues, bounds
<1> QED
  BY <1>1, <1>2, <1>3, <1>4, <1>5, <1>6, <1>7 DEF NextTLS, Reconcile, Administrator, tlsVars, bounds

\* A step keeps the order of the bundles, as long as spec.tls is not edited.
LEMMA TLSUneditedStep == TLSInv /\ [NextTLS]_tlsVars /\ ~edited' => Unedited'
<1> SUFFICES ASSUME TLSInv, [NextTLS]_tlsVars, ~edited' PROVE Unedited'
  OBVIOUS
<1>a. ~edited /\ tls' = tls
  BY TLSUneditedSpec
<1>b. Unedited /\ TypeOKTLS /\ PassKnown
  BY <1>a DEF TLSInv
<1>c. \A w \in Webhooks : wh[w] \in Configurations /\ cwh[w] \in Configurations
  BY <1>b DEF TypeOKTLS
<1>d. ASSUME UNCHANGED <<wh, cwh>>, step' \notin {2, 4} PROVE (\A w \in Webhooks : OfMode(wh[w]))' /\ BundlesOrdered'
  BY <1>a, <1>b, <1>d DEF Unedited, BundlesOrdered, OfMode, Exists, InjectFor
<1>1. CASE UNCHANGED <<pass, hooks>>
  BY <1>a, <1>b, <1>1 DEF pass, hooks, Unedited, BundlesOrdered, OfMode, Exists, InjectFor, Hook
<1>2. CASE validateTLSConfiguration
  BY SMT, <1>a, <1>b, <1>d, <1>2 DEF validateTLSConfiguration, Fail, Idle, Validated, Unedited, hooks
<1>3. CASE ValidationError \/ \E n \in 1..4 : PartialProvisioning(n)
  BY SMT, <1>d, <1>3 DEF ValidationError, PartialProvisioning, Fail, Idle, Unedited, hooks
<1>4. CASE ensureWebhookConfiguration
  <2>1. step' \in {2, 4} /\ Hook' = Hook /\ Hook \in Webhooks /\ found' = cwh[Hook]
          /\ UNCHANGED <<wh, cwh, tls, phase, knTLS>>
    BY SMT, <1>4 DEF ensureWebhookConfiguration, Hook, Webhooks, hooks
  <2>2. BundlesOrdered'
    BY <1>b, <2>1 DEF Unedited, BundlesOrdered, Exists
  <2> QED
    BY <1>b, <2>1, <2>2 DEF Unedited, OfMode, Exists, InjectFor
<1>5. CASE ensureUnowned
  <2>1. step' \notin {2, 4} /\ phase' # "validated" /\ (phase' # "idle" => knTLS' = tls')
    BY SMT, <1>a, <1>b, <1>5 DEF ensureUnowned, Advance, Fail, Idle, Unedited
  <2>2. CASE UNCHANGED hooks
    BY <1>d, <2>1, <2>2 DEF Unedited, hooks
  <2>3. CASE ~UNCHANGED hooks
    <3> DEFINE d == Desired(found)
    <3>1. /\ Write(Hook, d) /\ Hook \in Webhooks /\ knTLS.mode = tls.mode /\ tls.mode \in Modes
          /\ d.bundle = None => wh[Hook].bundle = None
      BY <1>a, <1>5, <2>3, WriteKeepsBundle
    <3>2. /\ Exists(d) /\ d.inject = InjectFor(tls.mode) /\ d.hash = <<d.bundle, InjectFor(tls.mode)>>
          /\ d.bundle = IF tls.mode = "referenced" THEN caRead ELSE found.bundle
      BY <1>b, <3>1, DesiredShape
    <3>3. tls.mode = "referenced" => d.bundle # None
      BY <1>b, <1>5, <3>1, <3>2 DEF PassKnown, ensureUnowned
    <3> HIDE DEF d
    <3>4. /\ \A w \in Webhooks : wh'[w] = IF w = Hook THEN d ELSE wh[w]
          /\ cwh' = cwh
      BY <1>b, <3>1 DEF Write, TypeOKTLS
    <3>5. ASSUME NEW w \in Webhooks PROVE OfMode(wh[w])'
      <4>1. CASE w = Hook
        BY SMT, <1>a, <3>2, <3>4, <4>1 DEF OfMode, Exists, InjectFor
      <4>2. CASE w # Hook
        BY <1>a, <1>b, <3>4, <4>2 DEF OfMode, Exists, InjectFor, Unedited
      <4> QED
        BY <4>1, <4>2
    <3>6. /\ \A w \in Webhooks : cwh[w].bundle # None => wh[w].bundle # None
          /\ tls.mode # "referenced" => /\ found.bundle # None => cwh[Hook].bundle # None
                                    /\ \A w \in Webhooks : wh[w].hash[1] # None => cwh[w].bundle # None
          /\ tls.mode = "referenced" => \A w \in Webhooks : Exists(wh[w]) => wh[w].bundle # None
      BY <1>b, <1>5 DEF Unedited, BundlesOrdered, ensureUnowned
    <3>7. \A w \in Webhooks : cwh'[w].bundle # None => wh'[w].bundle # None
      BY <3>1, <3>4, <3>6
    <3>8. tls'.mode # "referenced" => \A w \in Webhooks : wh'[w].hash[1] # None => cwh'[w].bundle # None
      BY SMT, <1>a, <3>1, <3>2, <3>4, <3>6
    <3>9. tls'.mode = "referenced" => \A w \in Webhooks : Exists(wh'[w]) => wh'[w].bundle # None
      BY <1>a, <3>3, <3>4, <3>6 DEF Exists
    <3>10. BundlesOrdered'
      BY <2>1, <3>7, <3>8, <3>9 DEF BundlesOrdered, Exists
    <3> QED
      BY <2>1, <3>5, <3>10 DEF Unedited
  <2> QED
    BY <2>2, <2>3
<1>6. CASE validateWebhookCABundles
  BY SMT, <1>a, <1>b, <1>d, <1>6 DEF validateWebhookCABundles, Fail, Idle, Validated, Unedited, BundlesOrdered, hooks
<1>7. CASE ensureMigrationPrereqs \/ ensureRuntimeTLS
  <2>1. UNCHANGED <<wh, cwh>> /\ step' \notin {2, 4} /\ phase' # "validated" /\ (phase' # "idle" => knTLS' = tls')
    BY SMT, <1>a, <1>b, <1>7 DEF ensureMigrationPrereqs, ensureRuntimeTLS, Fail, Idle, TypeOKTLS, hooks
  <2> QED
    BY <1>d, <2>1 DEF Unedited
<1>8. CASE AbortTLS
  BY SMT, <1>d, <1>8 DEF AbortTLS, Idle, Unedited, hooks
<1>9. ASSUME NEW w \in Webhooks, Deliver(w) PROVE Unedited'
  <2>1. wh' = wh /\ (\A v \in Webhooks : cwh'[v] = IF v = w THEN wh[w] ELSE cwh[v])
          /\ UNCHANGED <<phase, step, knTLS, found>>
    BY <1>b, <1>9 DEF Deliver, TypeOKTLS, pass
  <2>2. BundlesOrdered'
    BY <1>a, <1>b, <2>1 DEF Unedited, BundlesOrdered, Exists, Hook, Webhooks
  <2> QED
    BY <1>a, <1>b, <2>1, <2>2 DEF Unedited, OfMode, Exists, InjectFor
<1>10. ASSUME NEW w \in Webhooks, Inject(w) PROVE Unedited'
  <2>1. PICK ca : ca # None /\ SetBundle(w, ca) /\ Exists(wh[w])
    BY <1>10 DEF Inject, SetBundle, Exists
  <2>2. (\A v \in Webhooks \ {w} : wh'[v] = wh[v]) /\ UNCHANGED <<cwh, phase, step, knTLS, found>>
    BY <1>b, <2>1 DEF SetBundle, Write, TypeOKTLS, pass
  <2>3. wh'[w].bundle = ca /\ wh'[w].inject = wh[w].inject /\ wh'[w].hash = wh[w].hash
    <3>1. wh'[w] = [wh[w] EXCEPT !.bundle = ca]
      BY <1>b, <2>1 DEF SetBundle, Write, TypeOKTLS
    <3> QED
      BY <1>c, <3>1 DEF Configurations
  <2>4. ASSUME NEW v \in Webhooks PROVE OfMode(wh[v])'
    <3>1. CASE v = w
      BY <1>a, <1>b, <2>1, <2>3, <3>1 DEF Unedited, OfMode, Exists, InjectFor
    <3>2. CASE v # w
      BY <1>a, <1>b, <2>2, <3>2 DEF Unedited, OfMode, Exists, InjectFor
    <3> QED
      BY <3>1, <3>2
  <2>5. BundlesOrdered'
    <3>1. Hook \in Webhooks /\ Hook' = Hook
      BY <2>2 DEF Hook, Webhooks
    <3>2. \A v \in Webhooks : /\ wh'[v].hash = wh[v].hash /\ wh'[v].inject = wh[v].inject
                              /\ wh[v].bundle # None => wh'[v].bundle # None
      BY <2>1, <2>2, <2>3
    <3>3. \A v \in Webhooks : cwh'[v].bundle # None => wh'[v].bundle # None
      BY <1>b, <2>2, <3>2 DEF Unedited, BundlesOrdered
    <3>4. tls'.mode # "referenced" =>
            /\ \A v \in Webhooks : wh'[v].hash[1] # None => cwh'[v].bundle # None
            /\ step' \in {2, 4} => /\ found'.bundle # None => cwh'[Hook'].bundle # None
                                   /\ wh'[Hook'].hash[1] # None => found'.bundle # None
      BY <1>a, <1>b, <2>2, <3>1, <3>2 DEF Unedited, BundlesOrdered
    <3>5. tls'.mode = "referenced" => \A v \in Webhooks : Exists(wh'[v]) => wh'[v].bundle # None
      BY <1>a, <1>b, <3>2 DEF Unedited, BundlesOrdered, Exists
    <3> QED
      BY <3>3, <3>4, <3>5 DEF BundlesOrdered, Exists
  <2> QED
    BY <1>a, <1>b, <2>1, <2>2, <2>3, <2>4, <2>5 DEF Unedited
<1>11. CASE Issuance \/ RenewCA \/ RemoveLeftovers \/ \E s \in SUBSET External : ChangeIssuers(s)
  BY <1>1, <1>11 DEF Issuance, PlatformIssues, PlatformTrust, Supply, CertManagerIssues, RenewCA, RemoveLeftovers,
                     ChangeIssuers
<1>12. ~\E e \in Edits : EditTLS(e)
  BY DEF EditTLS
<1> QED
  BY <1>1, <1>2, <1>3, <1>4, <1>5, <1>6, <1>7, <1>8, <1>9, <1>10, <1>11, <1>12
     DEF NextTLS, Reconcile, Environment, Administrator, tlsVars

\* Creating the objects of a spec.tls adds no Issuer of another name.
LEMMA ProvisioningOfSpec ==
  ASSUME TypeOKTLS, tls \in TLSSpecs, IssuersOfSpec, tls' = tls, resolveCertManagerIssuer(tls) # {}, NEW n \in 1..5,
         ensureCertManagerTLSResources(tls, n)
  PROVE  IssuersOfSpec'
<1>1. Resources(tls, n) \subseteq {tls.bootstrap, "ca", "ca-issuer", "leaf", "aw"}
  BY SMT DEF Resources, CertManagerTLSResources
<1>2. ASSUME NEW o \in GeneratedIssuers, certs'[o] # "absent" PROVE o \in CertManagerBootstrapIssuerNames(tls)'
  <2>1. o \in CertObjects /\ o \notin {"ca", "leaf", "aw"}
    BY DEF CertObjects, GeneratedIssuers, Bootstraps
  <2>2. certs[o] # "absent" \/ o \in Resources(tls, n)
    BY <1>2, <2>1 DEF ensureCertManagerTLSResources
  <2> QED
    BY <1>1, <2>1, <2>2 DEF IssuersOfSpec, CertManagerBootstrapIssuerNames
<1> DEFINE i == CHOOSE i \in resolveCertManagerIssuer(tls) : TRUE
<1>3. i \in resolveCertManagerIssuer(tls) /\ i \in Issuers
  BY ResolvedIssuer
<1> HIDE DEF i
<1>4. i \in issuers
  <2>1. CASE tls.issuer # None
    <3>1. i \in External
      BY <1>3, <2>1, TLSConstants DEF resolveCertManagerIssuer
    <3> QED
      BY <1>3, <3>1 DEF Issuers, External, GeneratedIssuers, Bootstraps
  <2>2. CASE tls.issuer = None
    <3>1. i \in Issuers \ CertManagerBootstrapIssuerNames(tls)
      BY <1>3, <2>2 DEF resolveCertManagerIssuer, selectSingleCertManagerIssuer
    <3> QED
      BY <3>1 DEF Issuers, IssuersOfSpec
  <2> QED
    BY <2>1, <2>2
<1>5. i \notin GeneratedIssuers
  BY <1>4 DEF TypeOKTLS, External, GeneratedIssuers, Bootstraps
<1>6. issuerRef' \in {i, issuerRef}
  BY DEF ensureCertManagerTLSResources, i
<1> QED
  BY <1>2, <1>5, <1>6 DEF IssuersOfSpec

\* A step adds no Issuer of another name, as long as spec.tls is not edited.
LEMMA TLSIssuersStep == TLSInv /\ [NextTLS]_tlsVars /\ ~edited' => IssuersOfSpec'
<1> SUFFICES ASSUME TLSInv, [NextTLS]_tlsVars, ~edited' PROVE IssuersOfSpec'
  OBVIOUS
<1>a. tls' = tls /\ IssuersOfSpec /\ TypeOKTLS /\ tls \in TLSSpecs
  BY TLSUneditedSpec DEF TLSInv, TypeOKTLS
<1>1. CASE UNCHANGED <<certs, issuerRef>>
  BY <1>a, <1>1 DEF IssuersOfSpec, CertManagerBootstrapIssuerNames
<1>2. CASE Provision(tls)
  <2>1. Len(CertManagerTLSResources(tls)) \in 1..5
    BY SMT DEF CertManagerTLSResources
  <2> QED
    BY <1>a, <1>1, <1>2, <2>1, ProvisioningOfSpec DEF Provision
<1>3. ASSUME NEW n \in 1..4, PartialProvisioning(n) PROVE IssuersOfSpec'
  <2>1. n \in 1..5
    BY SMT
  <2> QED
    BY <1>a, <1>3, <2>1, ProvisioningOfSpec DEF PartialProvisioning
<1>4. ASSUME NEW o \in Certificates, CertManagerIssues(o) PROVE IssuersOfSpec'
  <2>1. \A x \in GeneratedIssuers : certs'[x] = certs[x]
    BY <1>a, <1>4 DEF CertManagerIssues, TypeOKTLS, Certificates, CertObjects, GeneratedIssuers, Bootstraps
  <2> QED
    BY <1>a, <1>4, <2>1 DEF CertManagerIssues, IssuersOfSpec, CertManagerBootstrapIssuerNames
<1>5. CASE RemoveLeftovers
  <2>1. \A x \in GeneratedIssuers : certs'[x] # "absent" => certs[x] # "absent"
    BY <1>a, <1>5 DEF RemoveLeftovers, TypeOKTLS, CertObjects
  <2> QED
    BY <1>a, <1>5, <2>1 DEF RemoveLeftovers, IssuersOfSpec, CertManagerBootstrapIssuerNames
<1>6. CASE Reconcile
  BY <1>1, <1>2, <1>6 DEF Reconcile, validateTLSConfiguration, ensureWebhookConfiguration, ensureUnowned,
                          validateWebhookCABundles, ensureMigrationPrereqs, ensureRuntimeTLS, cm
<1>7. CASE AbortTLS \/ ValidationError \/ RenewCA \/ \E s \in SUBSET External : ChangeIssuers(s)
  BY <1>1, <1>7 DEF AbortTLS, ValidationError, RenewCA, ChangeIssuers, cm
<1>8. CASE (\E w \in Webhooks : Deliver(w) \/ Inject(w)) \/ PlatformIssues \/ PlatformTrust \/ Supply
  BY <1>1, <1>8 DEF Deliver, Inject, SetBundle, PlatformIssues, PlatformTrust, Supply, cm
<1>9. ~\E e \in Edits : EditTLS(e)
  BY DEF EditTLS
<1> QED
  BY <1>1, <1>3, <1>4, <1>5, <1>6, <1>7, <1>8, <1>9
     DEF NextTLS, Environment, Issuance, Administrator, tlsVars, cm

\* The invariant holds of every reachable state.
LEMMA TLSInvHolds == SpecTLS => []TLSInv
<1>1. TLSInv /\ [NextTLS]_tlsVars => TLSInv'
  BY TLSTypeStep, TLSPassStep, TLSUneditedStep, TLSIssuersStep DEF TLSInv
<1> QED
  BY InitTLSInv, <1>1, PTL DEF SpecTLS

\* For every bound and every set of modes: a pass that validateWebhookCABundles
\* has let through leaves no webhook configuration without a bundle behind.
THEOREM TLSReadyBundles == SpecTLS => []ReadyBundles
<1>1. TLSInv => ReadyBundles
  BY DEF TLSInv, Unedited, ReadyBundles
<1> QED
  BY TLSInvHolds, <1>1, PTL

\* No write of ensureWebhookConfiguration empties a bundle, however far the
\* cache lags between its two reads and the write.
THEOREM TLSKeepsBundle == SpecTLS => KeepsBundle
<1>1. TLSInv /\ [NextTLS]_tlsVars =>
        [~edited => \A w \in Webhooks : wh'[w].bundle = None => wh[w].bundle = None]_tlsVars
  <2> SUFFICES ASSUME TLSInv, NextTLS, ~edited, NEW w \in Webhooks, wh'[w].bundle = None
               PROVE  wh[w].bundle = None
    OBVIOUS
  <2>1. TypeOKTLS
    BY DEF TLSInv
  <2>2. CASE wh' = wh
    BY <2>2
  <2>3. CASE ensureUnowned /\ ~UNCHANGED hooks
    BY <2>1, <2>3, WriteKeepsBundle DEF Write, TypeOKTLS
  <2>4. ASSUME NEW v \in Webhooks, Inject(v) PROVE wh[w].bundle = None
    <3>1. PICK ca : ca # None /\ SetBundle(v, ca)
      BY <2>4 DEF Inject, SetBundle
    <3>2. wh[v] \in Configurations
      BY <2>1 DEF TypeOKTLS
    <3>3. wh'[v].bundle = ca
      BY <2>1, <3>1, <3>2 DEF SetBundle, Write, TypeOKTLS, Configurations
    <3> QED
      BY <2>1, <3>1, <3>3 DEF SetBundle, Write, TypeOKTLS
  <2>5. CASE Reconcile
    BY <2>2, <2>3, <2>5
       DEF Reconcile, hooks, validateTLSConfiguration, ensureWebhookConfiguration, validateWebhookCABundles,
           ensureMigrationPrereqs, ensureRuntimeTLS
  <2>6. CASE Issuance \/ Administrator \/ RenewCA \/ \E v \in Webhooks : Deliver(v)
    BY <2>2, <2>6
       DEF Issuance, Administrator, hooks, EditTLS, Deliver, PlatformIssues, PlatformTrust, Supply,
           CertManagerIssues, RenewCA, ChangeIssuers, RemoveLeftovers
  <2>7. CASE AbortTLS \/ ValidationError \/ \E n \in 1..4 : PartialProvisioning(n)
    BY <2>2, <2>7 DEF AbortTLS, ValidationError, PartialProvisioning, hooks
  <2> QED
    BY <2>4, <2>5, <2>6, <2>7 DEF NextTLS, Environment
<1> QED
  BY TLSInvHolds, <1>1, PTL DEF SpecTLS, KeepsBundle

\* While spec.tls keeps its bootstrapIssuerName, the AuthWebhook's certificate
\* names no Issuer that the operator has generated, wherever an earlier
\* provisioning stopped and whatever the administrator does to the external
\* ones: every Issuer this CR controls has a name that
\* selectSingleCertManagerIssuer leaves out.  (After a change of that name the
\* former Issuer is a candidate.)
THEOREM TLSNamesNoGeneratedIssuer == SpecTLS => [](~edited => issuerRef \notin GeneratedIssuers)
<1>1. TLSInv => (~edited => issuerRef \notin GeneratedIssuers)
  BY DEF TLSInv, IssuersOfSpec
<1> QED
  BY TLSInvHolds, <1>1, PTL

=============================================================================
