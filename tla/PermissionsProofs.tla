-------------------------- MODULE PermissionsProofs --------------------------
(***************************************************************************)
(* What the finalizer leaves behind: proofs about Permissions, for every   *)
(* set of specs, of namespaces, groups and administrators' roles, and for  *)
(* every number of edits, failed calls and restarts.                       *)
(*                                                                         *)
(* Every object that a builder makes for any spec is in Universe, and has  *)
(* a family that tells which prune or delete looks for it.  IInv is the    *)
(* invariant: the objects are of the Universe with one per key, and while  *)
(* the finalizer works, every object outside the namespace still has a     *)
(* delete to come, or is one that a listed exception excuses.              *)
(* CleanupComplete follows from it.                                        *)
(*                                                                         *)
(* Ordered is the second invariant: during a pass over a live CR, a write  *)
(* that may take a right away finds in the cluster, or after writes that   *)
(* come first, the objects that give this right to those who keep it.      *)
(* WantedRightsProofs goes on from there.                                  *)
(***************************************************************************)
EXTENDS Permissions, TLAPS

\* A step is for Zenon, unless it names another prover.
USE Zenon

--------------------------------------------------------------------------
(* Lists.                                                                  *)

IsSeq(list) == \E S : list \in Seq(S)

LEMMA MembersOfConcat ==
  ASSUME NEW T, NEW s \in Seq(T), NEW t \in Seq(T)
  PROVE  Members(s \o t) = Members(s) \cup Members(t)
<1>1. /\ DOMAIN s = 1 .. Len(s) /\ DOMAIN t = 1 .. Len(t)
      /\ DOMAIN (s \o t) = 1 .. (Len(s) + Len(t))
  BY SMT
<1>2. \A i \in 1 .. Len(s) : (s \o t)[i] = s[i]
  BY SMT
<1>3. \A i \in 1 .. Len(t) : (s \o t)[Len(s) + i] = t[i] /\ Len(s) + i \in 1 .. (Len(s) + Len(t))
  BY SMT
<1>4. \A i \in 1 .. (Len(s) + Len(t)) :
         i \in 1 .. Len(s) \/ (i - Len(s) \in 1 .. Len(t) /\ (s \o t)[i] = t[i - Len(s)])
  BY SMT
<1>5. \A i \in 1 .. Len(s) : i \in 1 .. (Len(s) + Len(t))
  BY SMT
<1>6. ASSUME NEW i \in DOMAIN (s \o t)  PROVE (s \o t)[i] \in Members(s) \cup Members(t)
  BY <1>1, <1>2, <1>4 DEF Members
<1>7. ASSUME NEW i \in DOMAIN s  PROVE s[i] \in Members(s \o t)
  BY <1>1, <1>2, <1>5 DEF Members
<1>8. ASSUME NEW i \in DOMAIN t  PROVE t[i] \in Members(s \o t)
  BY <1>1, <1>3 DEF Members
<1> QED
  BY <1>6, <1>7, <1>8 DEF Members

LEMMA Concat ==
  ASSUME NEW s, NEW t, IsSeq(s), IsSeq(t)
  PROVE  IsSeq(s \o t) /\ Members(s \o t) = Members(s) \cup Members(t)
<1>1. PICK S : s \in Seq(S)
  BY DEF IsSeq
<1>2. PICK T : t \in Seq(T)
  BY DEF IsSeq
<1> DEFINE U == S \cup T
<1>3. s \in Seq(U)
  BY <1>1, SMT
<1>4. t \in Seq(U)
  BY <1>2, SMT
<1> HIDE DEF U
<1>5. s \o t \in Seq(U)
  BY <1>3, <1>4, SMT
<1>6. IsSeq(s \o t)
  BY <1>5 DEF IsSeq
<1>7. Members(s \o t) = Members(s) \cup Members(t)
  BY ONLY <1>3, <1>4, MembersOfConcat, Zenon
<1> QED
  BY <1>6, <1>7

LEMMA Empty == IsSeq(<<>>) /\ Members(<<>>) = {}
<1>1. <<>> \in Seq({})
  BY SMT
<1>2. Members(<<>>) = {}
  BY SMT DEF Members
<1> QED
  BY <1>1, <1>2 DEF IsSeq

LEMMA Single == ASSUME NEW a  PROVE IsSeq(<<a>>) /\ Members(<<a>>) = {a}
<1>1. <<a>> \in Seq({a})
  BY SMT
<1>2. Members(<<a>>) = {a}
  BY SMT DEF Members
<1> QED
  BY <1>1, <1>2 DEF IsSeq

LEMMA Pair == ASSUME NEW a, NEW b  PROVE IsSeq(<<a, b>>) /\ Members(<<a, b>>) = {a, b}
<1>1. <<a, b>> \in Seq({a, b})
  BY SMT
<1>2. Members(<<a, b>>) = {a, b}
  BY SMT DEF Members
<1> QED
  BY <1>1, <1>2 DEF IsSeq

LEMMA Triple ==
  ASSUME NEW a, NEW b, NEW c  PROVE IsSeq(<<a, b, c>>) /\ Members(<<a, b, c>>) = {a, b, c}
<1>1. <<a, b, c>> \in Seq({a, b, c})
  BY SMT
<1>2. Members(<<a, b, c>>) = {a, b, c}
  BY SMT DEF Members
<1> QED
  BY <1>1, <1>2 DEF IsSeq

--------------------------------------------------------------------------
(* What the builders give, family by family.                               *)

RoleRights(s, n) ==
  CASE n = "aianalysis-controller" -> {"aianalysis"}
    [] n = "kubernaut-agent-client" -> {"use-agent"}
    [] n = "kubernaut-agent-investigator" -> {"investigate"}
    [] n = "signalprocessing-controller" -> {"signalprocessing"} \cup remoteReads(s)
    [] n = "remediationorchestrator-controller" -> {"remediation"}
    [] n = "workflowexecution-controller" -> {"workflowexecution"}
    [] n = "workflow-runner" -> {"run-workflows"}
    [] n = "effectivenessmonitor-controller" -> {"effectiveness"} \cup remoteReads(s)
    [] n = "notification-controller" -> {"notification"}
    [] n = "data-storage-auth-middleware" -> {"review-tokens"}
    [] n = "data-storage-client" -> {"use-datastorage"}
    [] n = "authwebhook-role" -> {"authwebhook"}
    [] n = "gateway-role" -> {"gateway"}
    [] n = "alertmanager-view" -> {"read-alerts"}
    [] n = "gateway-signal-source" -> {"send-signals"}
    [] n = "apifrontend-role" -> {"apifrontend"} \cup remoteReads(s)
    [] n = "console-access" -> {"use-console"}
    [] n = "fleetmetadatacache" -> {s.type}
    [] n = "fleetmetadatacache-auth-middleware" -> {"review-tokens"}
    [] n = "fmc-scope-check-client" -> {"check-scopes"}
    [] n = "fleet-caller-node-reader" -> {"read-nodes"}
    [] OTHER -> {"execute-remotely"}

NamedRole(s, n) == ClusterRole(n, RoleRights(s, n))

RoleNames ==
  {"aianalysis-controller", "kubernaut-agent-client", "kubernaut-agent-investigator",
   "signalprocessing-controller", "remediationorchestrator-controller",
   "workflowexecution-controller", "workflow-runner", "effectivenessmonitor-controller",
   "notification-controller", "data-storage-auth-middleware", "data-storage-client",
   "authwebhook-role", "gateway-role", "alertmanager-view", "gateway-signal-source",
   "apifrontend-role", "console-access", "fleetmetadatacache",
   "fleetmetadatacache-auth-middleware", "fmc-scope-check-client", "fleet-caller-node-reader",
   "fleet-caller-workflow-execution"}

LEMMA MembersOf == ASSUME NEW G, NEW list \in Seq(G)  PROVE Members(list) \subseteq G
  BY SMT DEF Members

\* The roles of ClusterRoles are told apart by their names.
LEMMA Roles ==
  ASSUME NEW s
  PROVE  Members(ClusterRoles(s)) \subseteq {NamedRole(s, n) : n \in RoleNames}
<1> DEFINE G == {NamedRole(s, n) : n \in RoleNames}
<1>1. /\ aianalysisControllerClusterRole \in G /\ kubernautAgentClientClusterRole \in G
      /\ kubernautAgentInvestigatorClusterRole \in G /\ signalprocessingClusterRole(s) \in G
      /\ remediationOrchestratorClusterRole \in G
      /\ workflowExecutionControllerClusterRole \in G
  BY SMT DEF NamedRole, RoleNames, RoleRights, aianalysisControllerClusterRole,
     kubernautAgentClientClusterRole, kubernautAgentInvestigatorClusterRole,
     signalprocessingClusterRole, remediationOrchestratorClusterRole,
     workflowExecutionControllerClusterRole
<1>2. /\ workflowRunnerClusterRole \in G /\ effectivenessMonitorControllerClusterRole(s) \in G
      /\ notificationControllerClusterRole \in G /\ dataStorageAuthMiddlewareClusterRole \in G
      /\ dataStorageClientClusterRole \in G /\ authWebhookClusterRole \in G
  BY SMT DEF NamedRole, RoleNames, RoleRights, workflowRunnerClusterRole,
     effectivenessMonitorControllerClusterRole, notificationControllerClusterRole,
     dataStorageAuthMiddlewareClusterRole, dataStorageClientClusterRole, authWebhookClusterRole
<1>3. /\ gatewayClusterRole \in G /\ alertmanagerViewClusterRole \in G
      /\ gatewaySignalSourceClusterRole \in G /\ apifrontendClusterRole(s) \in G
      /\ ConsoleAccessClusterRole \in G
  BY SMT DEF NamedRole, RoleNames, RoleRights, gatewayClusterRole, alertmanagerViewClusterRole,
     gatewaySignalSourceClusterRole, apifrontendClusterRole, ConsoleAccessClusterRole
<1>4. /\ fleetMetadataCacheClusterRole(s) \in G
      /\ fleetMetadataCacheAuthMiddlewareClusterRole \in G /\ fmcScopeCheckClientClusterRole \in G
      /\ fleetCallerNodeReaderClusterRole \in G /\ fleetCallerWorkflowExecutionClusterRole \in G
  BY SMT DEF NamedRole, RoleNames, RoleRights, fleetMetadataCacheClusterRole, mcpGatewayCRDPolicyRules,
     fleetMetadataCacheAuthMiddlewareClusterRole, fmcScopeCheckClientClusterRole,
     fleetCallerNodeReaderClusterRole, fleetCallerWorkflowExecutionClusterRole
<1> HIDE DEF G
<1>5. ClusterRoles(s) \in Seq(G)
  BY <1>1, <1>2, <1>3, <1>4, SMT DEF ClusterRoles, If
<1>6. Members(ClusterRoles(s)) \subseteq G
  BY <1>5, MembersOf
<1> QED
  BY <1>6 DEF G

\* Role and subject of each cluster-scoped binding
RoleRef(n) ==
  CASE n = "aianalysis-controller-binding" -> "aianalysis-controller"
    [] n = "kubernaut-agent-investigator-binding" -> "kubernaut-agent-investigator"
    [] n = "kubernaut-agent-auth-middleware-binding" -> "data-storage-auth-middleware"
    [] n = "signalprocessing-controller-binding" -> "signalprocessing-controller"
    [] n = "remediationorchestrator-controller-binding" -> "remediationorchestrator-controller"
    [] n = "workflowexecution-controller-binding" -> "workflowexecution-controller"
    [] n = "effectivenessmonitor-controller-binding" -> "effectivenessmonitor-controller"
    [] n = "notification-controller-binding" -> "notification-controller"
    [] n = "data-storage-auth-middleware-binding" -> "data-storage-auth-middleware"
    [] n = "authwebhook-binding" -> "authwebhook-role"
    [] n = "workflow-runner-binding" -> "workflow-runner"
    [] n = "gateway-role-binding" -> "gateway-role"
    [] n = "effectivenessmonitor-alertmanager-view-binding" -> "alertmanager-view"
    [] n = "effectivenessmonitor-monitoring-view" -> "cluster-monitoring-view"
    [] n = "kubernaut-agent-monitoring-view" -> "cluster-monitoring-view"
    [] n = "kubernaut-agent-alertmanager-view-binding" -> "alertmanager-view"
    [] n = "alertmanager-gateway-signal-source" -> "gateway-signal-source"
    [] n = "apifrontend-monitoring-view" -> "cluster-monitoring-view"
    [] n = "apifrontend-binding" -> "apifrontend-role"
    [] n = "fleetmetadatacache-binding" -> "fleetmetadatacache"
    [] n = "fleetmetadatacache-auth-middleware-binding" -> "fleetmetadatacache-auth-middleware"
    [] n = "gateway-fmc-scope-check-client" -> "fmc-scope-check-client"
    [] n = "remediationorchestrator-fmc-scope-check-client" -> "fmc-scope-check-client"
    [] n = "fleet-caller-read-view-binding" -> "view"
    [] n = "fleet-caller-read-node-reader-binding" -> "fleet-caller-node-reader"
    [] OTHER -> "fleet-caller-workflow-execution"

SubjectOf(s, n) ==
  CASE n = "aianalysis-controller-binding" -> SA("aianalysis")
    [] n \in {"kubernaut-agent-investigator-binding", "kubernaut-agent-auth-middleware-binding",
              "kubernaut-agent-monitoring-view", "kubernaut-agent-alertmanager-view-binding"}
       -> SA("kubernaut-agent")
    [] n = "signalprocessing-controller-binding" -> SA("signalprocessing")
    [] n \in {"remediationorchestrator-controller-binding",
              "remediationorchestrator-fmc-scope-check-client"} -> SA("remediationorchestrator")
    [] n = "workflowexecution-controller-binding" -> SA("workflowexecution")
    [] n \in {"effectivenessmonitor-controller-binding", "effectivenessmonitor-monitoring-view",
              "effectivenessmonitor-alertmanager-view-binding"} -> SA("effectivenessmonitor")
    [] n = "notification-controller-binding" -> SA("notification")
    [] n = "data-storage-auth-middleware-binding" -> SA("datastorage")
    [] n = "authwebhook-binding" -> SA("authwebhook")
    [] n = "workflow-runner-binding" -> Runner(s)
    [] n \in {"gateway-role-binding", "gateway-fmc-scope-check-client"} -> SA("gateway")
    [] n = "alertmanager-gateway-signal-source" -> <<Openshift, "alertmanager-main">>
    [] n \in {"apifrontend-monitoring-view", "apifrontend-binding"} -> SA("apifrontend")
    [] n \in {"fleetmetadatacache-binding", "fleetmetadatacache-auth-middleware-binding"}
       -> SA("fleetmetadatacache")
    [] n \in {"fleet-caller-read-view-binding", "fleet-caller-read-node-reader-binding"}
       -> Group("fleet-read")
    [] OTHER -> Group("fleet-execution")

BindingNames ==
  {"aianalysis-controller-binding", "kubernaut-agent-investigator-binding",
   "kubernaut-agent-auth-middleware-binding", "signalprocessing-controller-binding",
   "remediationorchestrator-controller-binding", "workflowexecution-controller-binding",
   "effectivenessmonitor-controller-binding", "notification-controller-binding",
   "data-storage-auth-middleware-binding", "authwebhook-binding", "workflow-runner-binding",
   "gateway-role-binding", "effectivenessmonitor-alertmanager-view-binding",
   "effectivenessmonitor-monitoring-view", "kubernaut-agent-monitoring-view",
   "kubernaut-agent-alertmanager-view-binding", "alertmanager-gateway-signal-source",
   "apifrontend-monitoring-view", "apifrontend-binding", "fleetmetadatacache-binding",
   "fleetmetadatacache-auth-middleware-binding", "gateway-fmc-scope-check-client",
   "remediationorchestrator-fmc-scope-check-client", "fleet-caller-read-view-binding",
   "fleet-caller-read-node-reader-binding", "fleet-caller-execution-binding"}

NamedBinding(s, n) == clusterRoleBinding(n, RoleRef(n), SubjectOf(s, n))

\* So are the bindings of ClusterRoleBindings.
LEMMA CoreBindings ==
  ASSUME NEW s
  PROVE  Members(ClusterRoleBindings(s)) \subseteq {NamedBinding(s, n) : n \in BindingNames}
<1> DEFINE G == {NamedBinding(s, n) : n \in BindingNames}
           core == [i \in DOMAIN coreBindings |->
                      clusterRoleBinding(coreBindings[i][3], coreBindings[i][2], SA(coreBindings[i][1]))]
<1>1. core \in Seq(G)
  <2>1. \A i \in DOMAIN coreBindings : /\ coreBindings[i][3] \in BindingNames
                                       /\ coreBindings[i][2] = RoleRef(coreBindings[i][3])
                                       /\ SA(coreBindings[i][1]) = SubjectOf(s, coreBindings[i][3])
    BY SMT DEF coreBindings, RoleRef, SubjectOf, BindingNames
  <2>2. DOMAIN coreBindings = 1 .. 10
    BY SMT DEF coreBindings
  <2>3. \A i \in 1 .. 10 : core[i] \in G
    BY <2>1, <2>2 DEF NamedBinding
  <2>4. core = [i \in 1 .. 10 |-> core[i]]
    BY <2>2
  <2> HIDE DEF G, core
  <2> QED
    BY <2>3, <2>4, SMT
<1>2. /\ clusterRoleBinding("workflow-runner-binding", "workflow-runner", Runner(s)) \in G
      /\ clusterRoleBinding("gateway-role-binding", "gateway-role", SA("gateway")) \in G
      /\ clusterRoleBinding("apifrontend-binding", "apifrontend-role", SA("apifrontend")) \in G
      /\ fleetMetadataCacheClusterRoleBinding \in G
      /\ clusterRoleBinding("fleetmetadatacache-auth-middleware-binding",
                            "fleetmetadatacache-auth-middleware", SA("fleetmetadatacache")) \in G
      /\ clusterRoleBinding("gateway-fmc-scope-check-client",
                            "fmc-scope-check-client", SA("gateway")) \in G
      /\ clusterRoleBinding("remediationorchestrator-fmc-scope-check-client",
                            "fmc-scope-check-client", SA("remediationorchestrator")) \in G
  BY SMT DEF NamedBinding, RoleRef, SubjectOf, BindingNames, fleetMetadataCacheClusterRoleBinding
<1>3. /\ groupClusterRoleBinding("fleet-caller-read-view-binding", "view", "fleet-read") \in G
      /\ groupClusterRoleBinding("fleet-caller-read-node-reader-binding",
                                 "fleet-caller-node-reader", "fleet-read") \in G
      /\ groupClusterRoleBinding("fleet-caller-execution-binding",
                                 "fleet-caller-workflow-execution", "fleet-execution") \in G
  BY SMT DEF NamedBinding, RoleRef, SubjectOf, BindingNames, groupClusterRoleBinding
<1>4. monitoringClusterRoleBindings(s) \in Seq(G)
  <2>1. /\ clusterRoleBinding("effectivenessmonitor-alertmanager-view-binding",
                              "alertmanager-view", SA("effectivenessmonitor")) \in G
        /\ clusterRoleBinding("effectivenessmonitor-monitoring-view",
                              "cluster-monitoring-view", SA("effectivenessmonitor")) \in G
        /\ clusterRoleBinding("kubernaut-agent-monitoring-view",
                              "cluster-monitoring-view", SA("kubernaut-agent")) \in G
        /\ clusterRoleBinding("kubernaut-agent-alertmanager-view-binding",
                              "alertmanager-view", SA("kubernaut-agent")) \in G
        /\ clusterRoleBinding("alertmanager-gateway-signal-source", "gateway-signal-source",
                              <<Openshift, "alertmanager-main">>) \in G
        /\ clusterRoleBinding("apifrontend-monitoring-view",
                              "cluster-monitoring-view", SA("apifrontend")) \in G
    BY SMT DEF NamedBinding, RoleRef, SubjectOf, BindingNames
  <2> HIDE DEF G
  <2> QED
    BY <2>1, SMT DEF monitoringClusterRoleBindings, If
<1> HIDE DEF G
<1>5. ClusterRoleBindings(s) \in Seq(G)
  BY <1>1, <1>2, <1>3, <1>4, SMT DEF ClusterRoleBindings, If
<1>6. Members(ClusterRoleBindings(s)) \subseteq G
  BY <1>5, MembersOf
<1> QED
  BY <1>6 DEF G

Components == Members(AllComponents)

\* The families of objects a spec may ask for
Accounts(s) == {ServiceAccount(Home, c) : c \in Components}
               \cup {ServiceAccount(s.wf, "kubernaut-workflow-runner")}
nsRole(c) == Role(Home, <<c, "ns-role">>, "none", {"read-configuration"})
NsRoles == {nsRole(c) : c \in Components}
nsBinding(c) == Binding(Home, <<c, "ns-rolebinding">>, "none", <<Home, <<c, "ns-role">> >>, {SA(c)})
NsBindings == {nsBinding(c) : c \in Components}
storageClient(c) == Binding(Home, <<c, "data-storage-client">>, "none",
                            <<Everywhere, <<"data-storage-client">> >>, {SA(c)})
Clients == {storageClient(c) : c \in Components}
Agents == {agentClient(c) : c \in Components}
catalogRole(c) == Role(Home, <<c, "workflow-catalog">>, "none", {"read-catalog"})
CatalogRoles == {catalogRole(c) : c \in Components}
catalogBinding(c) == Binding(Home, <<c, "workflow-catalog-binding">>, "none",
                             <<Home, <<c, "workflow-catalog">> >>, {SA(c)})
CatalogBindings == {catalogBinding(c) : c \in Components}
CoreRoles(s) == {NamedRole(s, n) : n \in RoleNames}
CoreRoleBindings(s) == {NamedBinding(s, n) : n \in BindingNames}
Gatewayed(s) == {c \in Components : s.mcp # Everywhere}
mcpRole(s, c) == Role(s.mcp, <<c, "mcpgateway">>, "mcp", {s.type})
McpRoles(s) == {mcpRole(s, c) : c \in Gatewayed(s)}
mcpBinding(s, c) == Binding(s.mcp, <<c, "mcpgateway-binding">>, "mcp",
                            <<s.mcp, <<c, "mcpgateway">> >>, {SA(c)})
McpBindings(s) == {mcpBinding(s, c) : c \in Gatewayed(s)}
Extras == {AdditionalComponentCRB(c, r) : c \in Components, r \in ExtraRoles}
WfUsers == {"datastorage", "workflowexecution", "runner"}
WfRight(c) == IF c = "runner" THEN "write-workflows" ELSE "read-dependencies"
WfSubject(s, c) == IF c = "runner" THEN Runner(s) ELSE SA(c)
wfRole(s, c) == Role(s.wf, <<c, "workflow">>, "none", {WfRight(c)})
WfRoles(s) == {wfRole(s, c) : c \in WfUsers}
wfBinding(s, c) == Binding(s.wf, <<c, "workflow-binding">>, "none", <<s.wf, <<c, "workflow">> >>,
                           {WfSubject(s, c)})
WfBindings(s) == {wfBinding(s, c) : c \in WfUsers}
AwxRole == Role(Everywhere, <<"workflowexecution-awx">>, "none", {"run-awx-jobs"})
AwxBinding(s) == Binding(Everywhere, <<"workflowexecution-awx-binding">>, "none",
                         <<Everywhere, <<"workflowexecution-awx">> >>, {Runner(s)})
toolRole(p) == Role(Everywhere, <<"tool", p>>, "none", {"use-tools"})
ToolRoles == {toolRole(p) : p \in Personas}
ToolBindings(s) == {toolBinding(s, r) : r \in Personas \cup ExtraRoles}

Pool(s) ==
  UNION {Accounts(s), NsRoles, NsBindings, Clients, Agents, CatalogRoles, CatalogBindings,
         CoreRoles(s), CoreRoleBindings(s), McpRoles(s), McpBindings(s), Extras, WfRoles(s),
         WfBindings(s), {AwxRole, AwxBinding(s)}, ToolRoles, ToolBindings(s), {consoleBinding(s)}}

\* The family is seen from the kind and the name.
OfPair(name) ==
  IF name[1] = "tool" THEN "toolRole"
  ELSE IF name[2] = "ns-role" THEN "nsRole"
  ELSE IF name[2] = "ns-rolebinding" THEN "nsBinding"
  ELSE IF name[2] = "data-storage-client" THEN "client"
  ELSE IF name[2] = "kubernaut-agent-client" THEN "agent"
  ELSE IF name[2] = "workflow-catalog" THEN "catalogRole"
  ELSE IF name[2] = "workflow-catalog-binding" THEN "catalogBinding"
  ELSE IF name[2] = "mcpgateway" THEN "mcpRole"
  ELSE IF name[2] = "mcpgateway-binding" THEN "mcpBinding"
  ELSE IF name[2] = "workflow" THEN "wfRole"
  ELSE "wfBinding"

OfSingle(kind, n) ==
  IF n \in {"workflowexecution-awx", "workflowexecution-awx-binding"} THEN "awx"
  ELSE IF n = "console-access-binding" THEN "console"
  ELSE IF kind = "Role" THEN "coreRole" ELSE "coreBinding"

FamilyAt(kind, name) ==
  IF kind = "ServiceAccount" THEN "account"
  ELSE IF Len(name) = 1 THEN OfSingle(kind, name[1])
  ELSE IF Len(name) = 2 THEN OfPair(name)
  ELSE IF name[1] = "tool" THEN "tool" ELSE "extra"

Family(o) == FamilyAt(o.kind, o.name)

LEMMA AllTheComponents ==
  Components = {"gateway", "datastorage", "aianalysis", "signalprocessing",
                "remediationorchestrator", "workflowexecution", "effectivenessmonitor",
                "notification", "kubernaut-agent", "authwebhook", "apifrontend",
                "fleetmetadatacache"}
  BY SMT DEF Components, Members, AllComponents

\* The builders stay within these families.
LEMMA NamespacedLists ==
  ASSUME NEW s
  PROVE  /\ Members(NamespaceRoles(s)) \subseteq NsRoles
         /\ Members(NamespaceRoleBindings(s)) \subseteq NsBindings
         /\ Members(DataStorageClientRoleBindings(s)) \subseteq Clients
         /\ KubernautAgentClientRoleBinding \in Agents
         /\ KubernautAgentClientAPIfrontendRoleBinding \in Agents
         /\ Members(catalogRoles) \subseteq CatalogRoles
         /\ Members(catalogRoleBindings) \subseteq CatalogBindings
<1>1. \A i \in DOMAIN ActiveComponents(s) : ActiveComponents(s)[i] \in Components
  BY DEF ActiveComponents, Components, Members
<1>2. Members(NamespaceRoles(s)) \subseteq NsRoles
  BY <1>1 DEF Members, NamespaceRoles, NsRoles, nsRole
<1>3. Members(NamespaceRoleBindings(s)) \subseteq NsBindings
  BY <1>1 DEF Members, NamespaceRoleBindings, NsBindings, nsBinding
<1>4. Members(DataStorageClientRoleBindings(s)) \subseteq Clients
  <2> DEFINE consumers == <<"aianalysis", "signalprocessing", "remediationorchestrator",
                            "workflowexecution", "effectivenessmonitor", "notification",
                            "kubernaut-agent", "authwebhook", "datastorage", "apifrontend">>
                          \o If(On(s, "gateway"), <<"gateway">>)
  <2>1. consumers \in Seq(Components)
    <3>1. /\ "aianalysis" \in Components /\ "signalprocessing" \in Components
          /\ "remediationorchestrator" \in Components /\ "workflowexecution" \in Components
          /\ "effectivenessmonitor" \in Components /\ "notification" \in Components
          /\ "kubernaut-agent" \in Components /\ "authwebhook" \in Components
          /\ "datastorage" \in Components /\ "apifrontend" \in Components
          /\ "gateway" \in Components
      BY AllTheComponents
    <3> QED
      BY <3>1, SMT DEF If
  <2>2. DataStorageClientRoleBindings(s) = [i \in DOMAIN consumers |->
            Binding(Home, <<consumers[i], "data-storage-client">>, "none",
                    <<Everywhere, <<"data-storage-client">> >>, {SA(consumers[i])})]
    BY DEF DataStorageClientRoleBindings
  <2> HIDE DEF consumers
  <2>3. \A i \in DOMAIN consumers : consumers[i] \in Components
    BY <2>1, SMT
  <2> QED
    BY <2>2, <2>3 DEF Members, Clients, storageClient
<1>5. KubernautAgentClientRoleBinding \in Agents /\ KubernautAgentClientAPIfrontendRoleBinding \in Agents
  BY AllTheComponents DEF Agents, KubernautAgentClientRoleBinding,
     KubernautAgentClientAPIfrontendRoleBinding
<1>6. \A i \in DOMAIN catalogReaders : catalogReaders[i] \in Components
  BY AllTheComponents, SMT DEF catalogReaders
<1>7. Members(catalogRoles) \subseteq CatalogRoles /\ Members(catalogRoleBindings) \subseteq CatalogBindings
  BY <1>6 DEF Members, catalogRoles, catalogRoleBindings, CatalogRoles, CatalogBindings,
     catalogRole, catalogBinding
<1> QED
  BY <1>2, <1>3, <1>4, <1>5, <1>7

LEMMA DesiredIs ==
  ASSUME NEW s \in Specs
  PROVE  /\ Desired[s].accounts = ServiceAccounts(s)
         /\ Desired[s].namespaced =
              <<NamespaceRoles(s), NamespaceRoleBindings(s), DataStorageClientRoleBindings(s),
                <<KubernautAgentClientRoleBinding>>,
                If(On(s, "apifrontend"), <<KubernautAgentClientAPIfrontendRoleBinding>>)>>
              \o TrustedWorkflowCatalogRBAC
         /\ Desired[s].core = <<ClusterRoles(s), ClusterRoleBindings(s)>>
         /\ Desired[s].mcp = MCPGatewayNamespaceRBAC(s)
         /\ Desired[s].extra = additionalBindings(s)
         /\ Desired[s].workflow = WorkflowNamespaceRBAC(s)
         /\ Desired[s].awx = AnsibleRBAC(s)
         /\ Desired[s].toolRoles = ToolClusterRoles(s)
         /\ Desired[s].tools = ToolClusterRoleBindings(s)
         /\ Desired[s].console = ConsoleAccessClusterRoleBinding(s)
  BY DEF Desired

LEMMA PersonaRoles ==
  ASSUME NEW s
  PROVE  /\ Members(ToolClusterRoles(s)) \subseteq ToolRoles
         /\ On(s, "apifrontend") => Members(ToolClusterRoles(s)) = ToolRoles
<1> DEFINE list == [i \in DOMAIN toolPersonas |->
                      Role(Everywhere, <<"tool", toolPersonas[i]>>, "none", {"use-tools"})]
<1>1. Members(list) = ToolRoles
  <2>1. Members(toolPersonas) = Personas
    BY SMT DEF Members, toolPersonas, Personas
  <2> QED
    BY <2>1 DEF Members, ToolRoles, toolRole
<1>2. ToolClusterRoles(s) = If(On(s, "apifrontend"), list)
  BY DEF ToolClusterRoles
<1> HIDE DEF list
<1> QED
  BY <1>1, <1>2, Empty DEF If

LEMMA OtherLists ==
  ASSUME NEW s \in Specs
  PROVE  /\ Members(ServiceAccounts(s)) \subseteq Accounts(s)
         /\ Members(MCPGatewayNamespaceRBAC(s)[1]) \subseteq McpRoles(s)
         /\ Members(MCPGatewayNamespaceRBAC(s)[2]) \subseteq McpBindings(s)
         /\ additionalBindings(s) \subseteq Extras
         /\ Members(WorkflowNamespaceRBAC(s)[1]) = WfRoles(s)
         /\ Members(WorkflowNamespaceRBAC(s)[2]) = WfBindings(s)
         /\ Members(AnsibleRBAC(s)) = {AwxRole, AwxBinding(s)}
         /\ Members(ToolClusterRoles(s)) \subseteq ToolRoles
         /\ On(s, "apifrontend") => Members(ToolClusterRoles(s)) = ToolRoles
         /\ ToolClusterRoleBindings(s) \subseteq ToolBindings(s)
         /\ Members(ConsoleAccessClusterRoleBinding(s)) \subseteq {consoleBinding(s)}
<1>0. s \in SpecType
  BY SpecsAssumption
<1>1. Members(ServiceAccounts(s)) \subseteq Accounts(s)
  <2> DEFINE own == [i \in DOMAIN AllComponents |-> ServiceAccount(Home, AllComponents[i])]
             runner == <<ServiceAccount(s.wf, "kubernaut-workflow-runner")>>
  <2>1. ServiceAccounts(s) = own \o runner
    BY DEF ServiceAccounts
  <2>2. own \in Seq(Accounts(s))
    <3>1. DOMAIN AllComponents = 1 .. 12
      BY SMT DEF AllComponents
    <3>2. \A i \in 1 .. 12 : own[i] \in Accounts(s)
      BY <3>1 DEF Accounts, Components, Members
    <3>3. own = [i \in 1 .. 12 |-> own[i]]
      BY <3>1
    <3> HIDE DEF own
    <3> QED
      BY <3>2, <3>3, SMT
  <2>3. runner \in Seq(Accounts(s))
    BY SMT DEF Accounts
  <2> HIDE DEF own, runner
  <2>4. own \o runner \in Seq(Accounts(s))
    BY <2>2, <2>3, SMT
  <2> QED
    BY <2>1, <2>4, MembersOf
<1>2. /\ Members(MCPGatewayNamespaceRBAC(s)[1]) \subseteq McpRoles(s)
      /\ Members(MCPGatewayNamespaceRBAC(s)[2]) \subseteq McpBindings(s)
  <2> DEFINE grants == If(On(s, "fmc"), <<"fleetmetadatacache">>)
                       \o If(mcpGatewayRemoteReadsEnabled(s),
                             <<"signalprocessing", "apifrontend", "effectivenessmonitor">>)
             active == If(s.mcp # Everywhere, grants)
  <2>1. \A i \in DOMAIN active : active[i] \in Gatewayed(s)
    <3>1. /\ "fleetmetadatacache" \in Components /\ "signalprocessing" \in Components
          /\ "apifrontend" \in Components /\ "effectivenessmonitor" \in Components
      BY AllTheComponents
    <3>2. grants \in Seq(Components)
      BY <3>1, SMT DEF If
    <3> HIDE DEF grants
    <3>3. \A i \in DOMAIN grants : grants[i] \in Components
      BY <3>2, SMT
    <3>4. CASE s.mcp # Everywhere
      BY <3>3, <3>4 DEF Gatewayed, If
    <3>5. CASE s.mcp = Everywhere
      <4>1. DOMAIN active = {}
        BY <3>5, SMT DEF If
      <4> QED BY <4>1
    <3> QED
      BY <3>4, <3>5
  <2>2. /\ MCPGatewayNamespaceRBAC(s)[1] = [i \in DOMAIN active |-> mcpRole(s, active[i])]
        /\ MCPGatewayNamespaceRBAC(s)[2] = [i \in DOMAIN active |-> mcpBinding(s, active[i])]
    BY SMT DEF MCPGatewayNamespaceRBAC, mcpGatewayCRDPolicyRules, mcpRole, mcpBinding
  <2> HIDE DEF active, grants
  <2>3. Members(MCPGatewayNamespaceRBAC(s)[1]) \subseteq McpRoles(s)
    <3>1. \A i \in DOMAIN active : mcpRole(s, active[i]) \in McpRoles(s)
      BY <2>1 DEF McpRoles
    <3>2. \A i \in DOMAIN MCPGatewayNamespaceRBAC(s)[1] : MCPGatewayNamespaceRBAC(s)[1][i] \in McpRoles(s)
      BY <2>2, <3>1
    <3> QED
      BY <3>2 DEF Members
  <2>4. Members(MCPGatewayNamespaceRBAC(s)[2]) \subseteq McpBindings(s)
    <3>1. \A i \in DOMAIN active : mcpBinding(s, active[i]) \in McpBindings(s)
      BY <2>1 DEF McpBindings
    <3>2. \A i \in DOMAIN MCPGatewayNamespaceRBAC(s)[2] : MCPGatewayNamespaceRBAC(s)[2][i] \in McpBindings(s)
      BY <2>2, <3>1
    <3> QED
      BY <3>2 DEF Members
  <2> QED
    BY <2>3, <2>4
<1>3. additionalBindings(s) \subseteq Extras
  <2>1. Members(additionalRBACComponents(s)) \subseteq Components
    <3>1. "kubernaut-agent" \in Components /\ "effectivenessmonitor" \in Components /\ "gateway" \in Components
      BY AllTheComponents
    <3>2. additionalRBACComponents(s) \in Seq(Components)
      BY <3>1, SMT DEF additionalRBACComponents, If
    <3> QED
      BY <3>2, MembersOf
  <2>2. s.extra \subseteq ExtraRoles
    BY <1>0, SMT DEF SpecType
  <2> SUFFICES ASSUME NEW o \in additionalBindings(s)  PROVE o \in Extras
    OBVIOUS
  <2>3. PICK c \in Members(additionalRBACComponents(s)), r \in s.extra : o = AdditionalComponentCRB(c, r)
    BY SMT DEF additionalBindings
  <2>4. c \in Components /\ r \in ExtraRoles
    BY <2>1, <2>2
  <2> QED
    BY <2>3, <2>4, SMT DEF Extras
<1>4. /\ Members(WorkflowNamespaceRBAC(s)[1]) = WfRoles(s)
      /\ Members(WorkflowNamespaceRBAC(s)[2]) = WfBindings(s)
  <2> DEFINE grants == << <<"datastorage", SA("datastorage"), "read-dependencies">>,
                          <<"workflowexecution", SA("workflowexecution"), "read-dependencies">>,
                          <<"runner", Runner(s), "write-workflows">> >>
  <2>1. /\ WorkflowNamespaceRBAC(s)[1] = [i \in DOMAIN grants |->
              Role(s.wf, <<grants[i][1], "workflow">>, "none", {grants[i][3]})]
        /\ WorkflowNamespaceRBAC(s)[2] = [i \in DOMAIN grants |->
              Binding(s.wf, <<grants[i][1], "workflow-binding">>, "none",
                      <<s.wf, <<grants[i][1], "workflow">> >>, {grants[i][2]})]
    BY SMT DEF WorkflowNamespaceRBAC
  <2>2. /\ DOMAIN grants = {1, 2, 3}
        /\ grants[1][1] = "datastorage" /\ grants[2][1] = "workflowexecution"
        /\ grants[3][1] = "runner"
        /\ grants[1][2] = SA("datastorage") /\ grants[2][2] = SA("workflowexecution")
        /\ grants[3][2] = Runner(s)
        /\ grants[1][3] = "read-dependencies" /\ grants[2][3] = "read-dependencies"
        /\ grants[3][3] = "write-workflows"
    BY SMT
  <2> HIDE DEF grants
  <2>3. /\ WfRight("datastorage") = "read-dependencies" /\ WfSubject(s, "datastorage") = SA("datastorage")
        /\ WfRight("workflowexecution") = "read-dependencies"
        /\ WfSubject(s, "workflowexecution") = SA("workflowexecution")
        /\ WfRight("runner") = "write-workflows" /\ WfSubject(s, "runner") = Runner(s)
    BY DEF WfRight, WfSubject
  <2>4. Members(WorkflowNamespaceRBAC(s)[1]) = WfRoles(s)
    <3> DEFINE W == WorkflowNamespaceRBAC(s)[1]
               R(c) == wfRole(s, c)
    <3>1. /\ DOMAIN W = {1, 2, 3} /\ W[1] = R("datastorage") /\ W[2] = R("workflowexecution")
          /\ W[3] = R("runner")
      <4>1. DOMAIN W = {1, 2, 3} /\ \A i \in {1, 2, 3} :
                                       W[i] = Role(s.wf, <<grants[i][1], "workflow">>, "none", {grants[i][3]})
        BY <2>1, <2>2
      <4>2. W[1] = R("datastorage")
        BY <4>1, <2>2, <2>3 DEF wfRole
      <4>3. W[2] = R("workflowexecution")
        BY <4>1, <2>2, <2>3 DEF wfRole
      <4>4. W[3] = R("runner")
        BY <4>1, <2>2, <2>3 DEF wfRole
      <4> QED
        BY <4>1, <4>2, <4>3, <4>4
    <3> HIDE DEF W
    <3>2. Members(W) = {R("datastorage"), R("workflowexecution"), R("runner")}
      BY <3>1 DEF Members
    <3> QED
      BY <3>2 DEF WfRoles, WfUsers, W
  <2>5. Members(WorkflowNamespaceRBAC(s)[2]) = WfBindings(s)
    <3> DEFINE W == WorkflowNamespaceRBAC(s)[2]
               B(c) == wfBinding(s, c)
    <3>1. /\ DOMAIN W = {1, 2, 3} /\ W[1] = B("datastorage") /\ W[2] = B("workflowexecution")
          /\ W[3] = B("runner")
      <4>1. DOMAIN W = {1, 2, 3} /\ \A i \in {1, 2, 3} :
                                       W[i] = Binding(s.wf, <<grants[i][1], "workflow-binding">>, "none",
                                                <<s.wf, <<grants[i][1], "workflow">> >>, {grants[i][2]})
        BY <2>1, <2>2
      <4>2. W[1] = B("datastorage")
        BY <4>1, <2>2, <2>3 DEF wfBinding
      <4>3. W[2] = B("workflowexecution")
        BY <4>1, <2>2, <2>3 DEF wfBinding
      <4>4. W[3] = B("runner")
        BY <4>1, <2>2, <2>3 DEF wfBinding
      <4> QED
        BY <4>1, <4>2, <4>3, <4>4
    <3> HIDE DEF W
    <3>2. Members(W) = {B("datastorage"), B("workflowexecution"), B("runner")}
      BY <3>1 DEF Members
    <3> QED
      BY <3>2 DEF WfBindings, WfUsers, W
  <2> QED
    BY <2>4, <2>5
<1>5. Members(AnsibleRBAC(s)) = {AwxRole, AwxBinding(s)}
  <2>1. AnsibleRBAC(s) = <<AwxRole, AwxBinding(s)>>
    BY DEF AnsibleRBAC, AwxRole, AwxBinding
  <2> QED
    BY <2>1, Pair
<1>6. /\ Members(ToolClusterRoles(s)) \subseteq ToolRoles
      /\ On(s, "apifrontend") => Members(ToolClusterRoles(s)) = ToolRoles
  BY PersonaRoles
<1>7. ToolClusterRoleBindings(s) \subseteq ToolBindings(s)
  <2>1. \A b \in s.tools : b[1] \in Personas \cup ExtraRoles
    BY <1>0, SMT DEF SpecType
  <2> QED
    BY <2>1 DEF ToolClusterRoleBindings, ToolBindings
<1>8. Members(ConsoleAccessClusterRoleBinding(s)) \subseteq {consoleBinding(s)}
  BY Empty, Single DEF ConsoleAccessClusterRoleBinding, If
<1> QED
  BY <1>1, <1>2, <1>3, <1>4, <1>5, <1>6, <1>7, <1>8

LEMMA Families ==
  ASSUME NEW s
  PROVE  /\ \A o \in Accounts(s) : Family(o) = "account"
         /\ \A o \in NsRoles : Family(o) = "nsRole"
         /\ \A o \in NsBindings : Family(o) = "nsBinding"
         /\ \A o \in Clients : Family(o) = "client"
         /\ \A o \in Agents : Family(o) = "agent"
         /\ \A o \in CatalogRoles : Family(o) = "catalogRole"
         /\ \A o \in CatalogBindings : Family(o) = "catalogBinding"
         /\ \A o \in CoreRoles(s) : Family(o) = "coreRole"
         /\ \A o \in CoreRoleBindings(s) : Family(o) = "coreBinding"
         /\ \A o \in McpRoles(s) : Family(o) = "mcpRole"
         /\ \A o \in McpBindings(s) : Family(o) = "mcpBinding"
         /\ \A o \in Extras : Family(o) = "extra"
         /\ \A o \in WfRoles(s) : Family(o) = "wfRole"
         /\ \A o \in WfBindings(s) : Family(o) = "wfBinding"
         /\ \A o \in {AwxRole, AwxBinding(s)} : Family(o) = "awx"
         /\ \A o \in ToolRoles : Family(o) = "toolRole"
         /\ \A o \in ToolBindings(s) : Family(o) = "tool"
         /\ Family(consoleBinding(s)) = "console"
<1>0. \A c \in Components : c # "tool"
  BY AllTheComponents
<1>1. \A ns, c : Family(ServiceAccount(ns, c)) = "account"
  BY SMT DEF Family, FamilyAt, ServiceAccount
<1>2. \A c : c # "tool" => /\ Family(nsRole(c)) = "nsRole" /\ Family(nsBinding(c)) = "nsBinding"
                           /\ Family(storageClient(c)) = "client" /\ Family(agentClient(c)) = "agent"
  BY SMT DEF Family, FamilyAt, OfPair, Role, Binding, nsRole, nsBinding, storageClient, agentClient
<1>3. \A c : c # "tool" => /\ Family(catalogRole(c)) = "catalogRole"
                           /\ Family(catalogBinding(c)) = "catalogBinding"
                           /\ Family(mcpRole(s, c)) = "mcpRole"
                           /\ Family(mcpBinding(s, c)) = "mcpBinding"
  BY SMT DEF Family, FamilyAt, OfPair, Role, Binding, catalogRole, catalogBinding, mcpRole, mcpBinding
<1>4. \A c : c # "tool" => /\ Family(wfRole(s, c)) = "wfRole" /\ Family(wfBinding(s, c)) = "wfBinding"
                           /\ \A r : Family(AdditionalComponentCRB(c, r)) = "extra"
  BY SMT DEF Family, FamilyAt, OfPair, Role, Binding, wfRole, wfBinding, AdditionalComponentCRB
<1>5. /\ \A n \in RoleNames : Family(NamedRole(s, n)) = "coreRole"
      /\ \A n \in BindingNames : Family(NamedBinding(s, n)) = "coreBinding"
      /\ Family(AwxRole) = "awx" /\ Family(AwxBinding(s)) = "awx"
      /\ Family(consoleBinding(s)) = "console"
  BY SMT DEF Family, FamilyAt, OfSingle, Role, Binding, ClusterRole, clusterRoleBinding, NamedRole,
     NamedBinding, RoleNames, BindingNames, AwxRole, AwxBinding, consoleBinding
<1>6. /\ \A p : Family(toolRole(p)) = "toolRole" /\ \A r : Family(toolBinding(s, r)) = "tool"
  BY SMT DEF Family, FamilyAt, OfPair, Role, Binding, toolRole, toolBinding
<1>7. \A o \in Accounts(s) : Family(o) = "account"
  BY <1>1 DEF Accounts
<1>8. /\ \A o \in NsRoles : Family(o) = "nsRole"
      /\ \A o \in NsBindings : Family(o) = "nsBinding"
      /\ \A o \in Clients : Family(o) = "client"
      /\ \A o \in Agents : Family(o) = "agent"
  BY <1>0, <1>2, SMT DEF NsRoles, NsBindings, Clients, Agents
<1>9. /\ \A o \in CatalogRoles : Family(o) = "catalogRole"
      /\ \A o \in CatalogBindings : Family(o) = "catalogBinding"
      /\ \A o \in McpRoles(s) : Family(o) = "mcpRole"
      /\ \A o \in McpBindings(s) : Family(o) = "mcpBinding"
  BY <1>0, <1>3, SMT DEF CatalogRoles, CatalogBindings, McpRoles, McpBindings, Gatewayed
<1>10. /\ \A o \in WfRoles(s) : Family(o) = "wfRole"
       /\ \A o \in WfBindings(s) : Family(o) = "wfBinding"
  BY <1>4, SMT DEF WfRoles, WfBindings, WfUsers
<1>11. \A o \in Extras : Family(o) = "extra"
  BY <1>0, <1>4, SMT DEF Extras
<1>12. /\ \A o \in CoreRoles(s) : Family(o) = "coreRole"
       /\ \A o \in CoreRoleBindings(s) : Family(o) = "coreBinding"
       /\ \A o \in {AwxRole, AwxBinding(s)} : Family(o) = "awx"
  BY <1>5 DEF CoreRoles, CoreRoleBindings
<1>13. /\ \A o \in ToolRoles : Family(o) = "toolRole"
       /\ \A o \in ToolBindings(s) : Family(o) = "tool"
  BY <1>6 DEF ToolRoles, ToolBindings
<1> QED
  BY <1>5, <1>7, <1>8, <1>9, <1>10, <1>11, <1>12, <1>13

\* So the kind and the name tell the family of an object.
LEMMA InFamily ==
  ASSUME NEW s, NEW o \in Pool(s)
  PROVE  /\ Family(o) = "account" => o \in Accounts(s)
         /\ Family(o) = "nsRole" => o \in NsRoles
         /\ Family(o) = "nsBinding" => o \in NsBindings
         /\ Family(o) = "client" => o \in Clients
         /\ Family(o) = "agent" => o \in Agents
         /\ Family(o) = "catalogRole" => o \in CatalogRoles
         /\ Family(o) = "catalogBinding" => o \in CatalogBindings
         /\ Family(o) = "coreRole" => o \in CoreRoles(s)
         /\ Family(o) = "coreBinding" => o \in CoreRoleBindings(s)
         /\ Family(o) = "mcpRole" => o \in McpRoles(s)
         /\ Family(o) = "mcpBinding" => o \in McpBindings(s)
         /\ Family(o) = "extra" => o \in Extras
         /\ Family(o) = "wfRole" => o \in WfRoles(s)
         /\ Family(o) = "wfBinding" => o \in WfBindings(s)
         /\ Family(o) = "awx" => o \in {AwxRole, AwxBinding(s)}
         /\ Family(o) = "toolRole" => o \in ToolRoles
         /\ Family(o) = "tool" => o \in ToolBindings(s)
         /\ Family(o) = "console" => o = consoleBinding(s)
  BY Families, SMT DEF Pool

\* Within a spec, objects with the same key are the same.
LEMMA Unique ==
  ASSUME NEW s, NEW x \in Pool(s), NEW y \in Pool(s), Key(x) = Key(y)
  PROVE  x = y
<1>1. Family(x) = Family(y)
  BY SMT DEF Family, Key
<1>2. \A ns, c, ms, d : Key(ServiceAccount(ns, c)) = Key(ServiceAccount(ms, d))
                          => ns = ms /\ c = d
  BY SMT DEF Key, ServiceAccount
<1>3. \A c, d : /\ Key(nsRole(c)) = Key(nsRole(d)) => c = d
                /\ Key(nsBinding(c)) = Key(nsBinding(d)) => c = d
                /\ Key(storageClient(c)) = Key(storageClient(d)) => c = d
                /\ Key(agentClient(c)) = Key(agentClient(d)) => c = d
  BY SMT DEF Key, Role, Binding, nsRole, nsBinding, storageClient, agentClient
<1>4. \A c, d : /\ Key(catalogRole(c)) = Key(catalogRole(d)) => c = d
                /\ Key(catalogBinding(c)) = Key(catalogBinding(d)) => c = d
                /\ Key(mcpRole(s, c)) = Key(mcpRole(s, d)) => c = d
                /\ Key(mcpBinding(s, c)) = Key(mcpBinding(s, d)) => c = d
  BY SMT DEF Key, Role, Binding, catalogRole, catalogBinding, mcpRole, mcpBinding
<1>5. \A c, d : /\ Key(NamedRole(s, c)) = Key(NamedRole(s, d)) => c = d
                /\ Key(NamedBinding(s, c)) = Key(NamedBinding(s, d)) => c = d
                /\ Key(wfRole(s, c)) = Key(wfRole(s, d)) => c = d
                /\ Key(wfBinding(s, c)) = Key(wfBinding(s, d)) => c = d
  <2>1. \A c, d : Key(NamedRole(s, c)) = Key(NamedRole(s, d)) => c = d
    BY SMT DEF Key, Role, ClusterRole, NamedRole
  <2>2. \A c, d : Key(NamedBinding(s, c)) = Key(NamedBinding(s, d)) => c = d
    BY SMT DEF Key, Binding, clusterRoleBinding, NamedBinding
  <2>3. \A c, d : /\ Key(wfRole(s, c)) = Key(wfRole(s, d)) => c = d
                  /\ Key(wfBinding(s, c)) = Key(wfBinding(s, d)) => c = d
    BY SMT DEF Key, Role, Binding, wfRole, wfBinding
  <2> QED
    BY <2>1, <2>2, <2>3
<1>6. /\ \A c, d : /\ Key(toolRole(c)) = Key(toolRole(d)) => c = d
                   /\ Key(toolBinding(s, c)) = Key(toolBinding(s, d)) => c = d
      /\ \A c, r, d, t : Key(AdditionalComponentCRB(c, r)) = Key(AdditionalComponentCRB(d, t))
                           => c = d /\ r = t
      /\ Key(AwxRole) # Key(AwxBinding(s))
  <2>1. \A c, d : Key(toolRole(c)) = Key(toolRole(d)) => c = d
    BY SMT DEF Key, Role, toolRole
  <2>2. \A c, d : Key(toolBinding(s, c)) = Key(toolBinding(s, d)) => c = d
    BY SMT DEF Key, Binding, toolBinding
  <2>3. \A c, r, d, t : Key(AdditionalComponentCRB(c, r)) = Key(AdditionalComponentCRB(d, t))
                           => c = d /\ r = t
    BY SMT DEF Key, Binding, AdditionalComponentCRB
  <2>4. Key(AwxRole) # Key(AwxBinding(s))
    BY SMT DEF Key, Role, Binding, AwxRole, AwxBinding
  <2> QED
    BY <2>1, <2>2, <2>3, <2>4
<1>7. CASE x \in Accounts(s) /\ y \in Accounts(s)
  BY <1>7, <1>2, SMT DEF Accounts
<1>8. CASE \/ x \in NsRoles /\ y \in NsRoles
           \/ x \in NsBindings /\ y \in NsBindings
           \/ x \in Clients /\ y \in Clients
           \/ x \in Agents /\ y \in Agents
  BY <1>8, <1>3, SMT DEF NsRoles, NsBindings, Clients, Agents
<1>9. CASE \/ x \in CatalogRoles /\ y \in CatalogRoles
           \/ x \in CatalogBindings /\ y \in CatalogBindings
           \/ x \in McpRoles(s) /\ y \in McpRoles(s)
           \/ x \in McpBindings(s) /\ y \in McpBindings(s)
  BY <1>9, <1>4, SMT DEF CatalogRoles, CatalogBindings, McpRoles, McpBindings
<1>10. CASE \/ x \in CoreRoles(s) /\ y \in CoreRoles(s)
            \/ x \in CoreRoleBindings(s) /\ y \in CoreRoleBindings(s)
            \/ x \in WfRoles(s) /\ y \in WfRoles(s)
            \/ x \in WfBindings(s) /\ y \in WfBindings(s)
  BY <1>10, <1>5, SMT DEF CoreRoles, CoreRoleBindings, WfRoles, WfBindings
<1>11. CASE \/ x \in ToolRoles /\ y \in ToolRoles
            \/ x \in ToolBindings(s) /\ y \in ToolBindings(s)
            \/ x \in Extras /\ y \in Extras
            \/ x \in {AwxRole, AwxBinding(s)} /\ y \in {AwxRole, AwxBinding(s)}
  BY <1>11, <1>6, SMT DEF ToolRoles, ToolBindings, Extras
<1>12. CASE x = consoleBinding(s) /\ y = consoleBinding(s)
  BY <1>12
<1> QED
  BY <1>1, <1>7, <1>8, <1>9, <1>10, <1>11, <1>12, Families, InFamily, SMT DEF Pool

\* The stages of a spec's lists
LEMMA Parts ==
  ASSUME NEW s \in Specs
  PROVE  /\ DOMAIN Desired[s].namespaced = 1 .. 7
         /\ Desired[s].namespaced[1] = NamespaceRoles(s)
         /\ Desired[s].namespaced[2] = NamespaceRoleBindings(s)
         /\ Desired[s].namespaced[3] = DataStorageClientRoleBindings(s)
         /\ Desired[s].namespaced[4] = <<KubernautAgentClientRoleBinding>>
         /\ Desired[s].namespaced[5] = If(On(s, "apifrontend"), <<KubernautAgentClientAPIfrontendRoleBinding>>)
         /\ Desired[s].namespaced[6] = catalogRoles
         /\ Desired[s].namespaced[7] = catalogRoleBindings
         /\ DOMAIN Desired[s].core = 1 .. 2
         /\ Desired[s].core[1] = ClusterRoles(s) /\ Desired[s].core[2] = ClusterRoleBindings(s)
         /\ DOMAIN Desired[s].mcp = 1 .. 2 /\ DOMAIN Desired[s].workflow = 1 .. 2
<1>1. /\ DOMAIN Desired[s].namespaced = 1 .. 7
      /\ Desired[s].namespaced[1] = NamespaceRoles(s)
      /\ Desired[s].namespaced[2] = NamespaceRoleBindings(s)
      /\ Desired[s].namespaced[3] = DataStorageClientRoleBindings(s)
      /\ Desired[s].namespaced[4] = <<KubernautAgentClientRoleBinding>>
      /\ Desired[s].namespaced[5] = If(On(s, "apifrontend"), <<KubernautAgentClientAPIfrontendRoleBinding>>)
      /\ Desired[s].namespaced[6] = catalogRoles
      /\ Desired[s].namespaced[7] = catalogRoleBindings
  <2> DEFINE L == Desired[s].namespaced
             e == If(On(s, "apifrontend"), <<KubernautAgentClientAPIfrontendRoleBinding>>)
             d == <<KubernautAgentClientRoleBinding>>
  <2>1. L = <<NamespaceRoles(s), NamespaceRoleBindings(s), DataStorageClientRoleBindings(s), d, e>>
            \o <<catalogRoles, catalogRoleBindings>>
    BY DesiredIs DEF TrustedWorkflowCatalogRBAC
  <2> HIDE DEF L, d, e
  <2>2. /\ DOMAIN L = 1 .. 7 /\ L[1] = NamespaceRoles(s) /\ L[2] = NamespaceRoleBindings(s)
        /\ L[3] = DataStorageClientRoleBindings(s) /\ L[4] = d /\ L[5] = e
        /\ L[6] = catalogRoles /\ L[7] = catalogRoleBindings
    BY <2>1, SMT
  <2> QED
    BY <2>2 DEF L, d, e
<1>2. ASSUME NEW L, NEW x, NEW y, L = <<x, y>>  PROVE DOMAIN L = 1 .. 2 /\ L[1] = x /\ L[2] = y
  BY <1>2, SMT
<1>3. DOMAIN Desired[s].core = 1 .. 2 /\ Desired[s].core[1] = ClusterRoles(s)
      /\ Desired[s].core[2] = ClusterRoleBindings(s)
  <2>1. Desired[s].core = <<ClusterRoles(s), ClusterRoleBindings(s)>>
    BY DesiredIs
  <2> QED
    BY <2>1, <1>2
<1>4. DOMAIN Desired[s].mcp = 1 .. 2
  <2>1. Desired[s].mcp = MCPGatewayNamespaceRBAC(s)
    BY DesiredIs
  <2>2. \E x, y : MCPGatewayNamespaceRBAC(s) = <<x, y>>
    BY DEF MCPGatewayNamespaceRBAC
  <2> QED
    BY <2>1, <2>2, <1>2
<1>5. DOMAIN Desired[s].workflow = 1 .. 2
  <2>1. Desired[s].workflow = WorkflowNamespaceRBAC(s)
    BY DesiredIs
  <2>2. \E x, y : WorkflowNamespaceRBAC(s) = <<x, y>>
    BY DEF WorkflowNamespaceRBAC
  <2> QED
    BY <2>1, <2>2, <1>2
<1> QED
  BY <1>1, <1>3, <1>4, <1>5

LEMMA AllOfTwo ==
  ASSUME NEW L, DOMAIN L = 1 .. 2
  PROVE  All(L) = Members(L[1]) \cup Members(L[2])
  BY SMT DEF All

LEMMA AllOfSeven ==
  ASSUME NEW L, DOMAIN L = 1 .. 7
  PROVE  All(L) = UNION {Members(L[1]), Members(L[2]), Members(L[3]), Members(L[4]), Members(L[5]),
                         Members(L[6]), Members(L[7])}
  BY SMT DEF All

\* What the parts of a spec give, by families
LEMMA Given ==
  ASSUME NEW s \in Specs
  PROVE  /\ Members(Desired[s].accounts) \subseteq Accounts(s)
         /\ All(Desired[s].namespaced) \subseteq
              UNION {NsRoles, NsBindings, Members(DataStorageClientRoleBindings(s)), Agents,
                     CatalogRoles, CatalogBindings}
         /\ All(Desired[s].core) \subseteq CoreRoles(s) \cup CoreRoleBindings(s)
         /\ All(Desired[s].mcp) \subseteq McpRoles(s) \cup McpBindings(s)
         /\ Desired[s].extra \subseteq Extras
         /\ All(Desired[s].workflow) = WfRoles(s) \cup WfBindings(s)
         /\ Members(Desired[s].awx) = {AwxRole, AwxBinding(s)}
         /\ Members(Desired[s].toolRoles) \subseteq ToolRoles
         /\ Desired[s].tools \subseteq ToolBindings(s)
         /\ Members(Desired[s].console) \subseteq {consoleBinding(s)}
         /\ Members(DataStorageClientRoleBindings(s)) \subseteq Clients
<1>1. All(Desired[s].namespaced) \subseteq
        UNION {NsRoles, NsBindings, Members(DataStorageClientRoleBindings(s)), Agents,
               CatalogRoles, CatalogBindings}
  <2> DEFINE L == Desired[s].namespaced
  <2>1. Members(L[4]) \subseteq Agents
    <3>1. L[4] = <<KubernautAgentClientRoleBinding>>
      BY Parts
    <3>2. Members(<<KubernautAgentClientRoleBinding>>) = {KubernautAgentClientRoleBinding}
      BY Single
    <3> QED
      BY <3>1, <3>2, NamespacedLists
  <2>2. Members(L[5]) \subseteq Agents
    <3>1. L[5] = If(On(s, "apifrontend"), <<KubernautAgentClientAPIfrontendRoleBinding>>)
      BY Parts
    <3>2. L[5] = <<KubernautAgentClientAPIfrontendRoleBinding>> \/ L[5] = <<>>
      BY <3>1 DEF If
    <3> QED
      BY <3>2, NamespacedLists, Single, Empty
  <2>3. /\ Members(L[1]) \subseteq NsRoles /\ Members(L[2]) \subseteq NsBindings
        /\ L[3] = DataStorageClientRoleBindings(s)
        /\ Members(L[6]) \subseteq CatalogRoles /\ Members(L[7]) \subseteq CatalogBindings
    BY Parts, NamespacedLists
  <2>4. All(L) = UNION {Members(L[1]), Members(L[2]), Members(L[3]), Members(L[4]), Members(L[5]),
                        Members(L[6]), Members(L[7])}
    BY Parts, AllOfSeven
  <2> HIDE DEF L
  <2>5. All(L) \subseteq UNION {NsRoles, NsBindings, Members(DataStorageClientRoleBindings(s)),
                               Agents, CatalogRoles, CatalogBindings}
    BY <2>1, <2>2, <2>3, <2>4
  <2> QED
    BY <2>5 DEF L
<1>2. All(Desired[s].core) \subseteq CoreRoles(s) \cup CoreRoleBindings(s)
  BY Parts, AllOfTwo, Roles, CoreBindings DEF CoreRoles, CoreRoleBindings
<1>3. All(Desired[s].mcp) \subseteq McpRoles(s) \cup McpBindings(s)
  BY Parts, AllOfTwo, OtherLists, DesiredIs
<1>4. All(Desired[s].workflow) = WfRoles(s) \cup WfBindings(s)
  BY Parts, AllOfTwo, OtherLists, DesiredIs
<1> QED
  BY <1>1, <1>2, <1>3, <1>4, OtherLists, NamespacedLists, DesiredIs

LabelOf(family) ==
  IF family \in {"coreRole", "coreBinding"} THEN "core"
  ELSE IF family \in {"mcpRole", "mcpBinding"} THEN "mcp"
  ELSE IF family = "extra" THEN "extra" ELSE "none"

KindOf(family) ==
  IF family = "account" THEN "ServiceAccount"
  ELSE IF family \in {"nsRole", "catalogRole", "coreRole", "mcpRole", "wfRole", "toolRole"} THEN "Role"
  ELSE "Binding"

Is(o, label, kind) == o.label = label /\ o.kind = kind

\* The family tells the label and the kind.
LEMMA Labels ==
  ASSUME NEW s, NEW o \in Pool(s)
  PROVE  /\ o.label = LabelOf(Family(o))
         /\ Family(o) # "awx" => o.kind = KindOf(Family(o))
<1>1. \A c : /\ \A ns : Is(ServiceAccount(ns, c), "none", "ServiceAccount")
             /\ Is(nsRole(c), "none", "Role") /\ Is(nsBinding(c), "none", "Binding")
             /\ Is(storageClient(c), "none", "Binding") /\ Is(agentClient(c), "none", "Binding")
             /\ Is(catalogRole(c), "none", "Role") /\ Is(catalogBinding(c), "none", "Binding")
  BY SMT DEF Is, ServiceAccount, nsRole, nsBinding, storageClient, agentClient, catalogRole,
     catalogBinding, Role, Binding
<1>2. \A c : /\ Is(NamedRole(s, c), "core", "Role") /\ Is(NamedBinding(s, c), "core", "Binding")
             /\ Is(mcpRole(s, c), "mcp", "Role") /\ Is(mcpBinding(s, c), "mcp", "Binding")
             /\ \A r : Is(AdditionalComponentCRB(c, r), "extra", "Binding")
  BY SMT DEF Is, NamedRole, NamedBinding, ClusterRole, clusterRoleBinding, mcpRole, mcpBinding,
     AdditionalComponentCRB, Role, Binding
<1>3. /\ \A c : /\ Is(wfRole(s, c), "none", "Role") /\ Is(wfBinding(s, c), "none", "Binding")
                /\ Is(toolRole(c), "none", "Role") /\ Is(toolBinding(s, c), "none", "Binding")
      /\ Is(AwxRole, "none", "Role") /\ Is(AwxBinding(s), "none", "Binding")
      /\ Is(consoleBinding(s), "none", "Binding")
  BY SMT DEF Is, wfRole, wfBinding, AwxRole, AwxBinding, toolRole, toolBinding, consoleBinding, Role, Binding
<1>4. /\ \A x \in Accounts(s) : Is(x, "none", "ServiceAccount")
      /\ \A x \in NsRoles : Is(x, "none", "Role")
      /\ \A x \in NsBindings : Is(x, "none", "Binding")
      /\ \A x \in Clients : Is(x, "none", "Binding")
      /\ \A x \in Agents : Is(x, "none", "Binding")
      /\ \A x \in CatalogRoles : Is(x, "none", "Role")
      /\ \A x \in CatalogBindings : Is(x, "none", "Binding")
  BY <1>1, SMT DEF Accounts, NsRoles, NsBindings, Clients, Agents, CatalogRoles, CatalogBindings
<1>5. /\ \A x \in CoreRoles(s) : Is(x, "core", "Role")
      /\ \A x \in CoreRoleBindings(s) : Is(x, "core", "Binding")
      /\ \A x \in McpRoles(s) : Is(x, "mcp", "Role")
      /\ \A x \in McpBindings(s) : Is(x, "mcp", "Binding")
      /\ \A x \in Extras : Is(x, "extra", "Binding")
  BY <1>2, SMT DEF CoreRoles, CoreRoleBindings, McpRoles, McpBindings, Extras
<1>6. /\ \A x \in WfRoles(s) : Is(x, "none", "Role")
      /\ \A x \in WfBindings(s) : Is(x, "none", "Binding")
      /\ \A x \in ToolRoles : Is(x, "none", "Role")
      /\ \A x \in ToolBindings(s) : Is(x, "none", "Binding")
  BY <1>3, SMT DEF WfRoles, WfBindings, ToolRoles, ToolBindings
<1> DEFINE f == Family(o)
<1>7. /\ f \in {"coreRole", "mcpRole"} => Is(o, LabelOf(f), "Role")
      /\ f \in {"coreBinding", "mcpBinding", "extra"} => Is(o, LabelOf(f), "Binding")
  BY <1>5, InFamily, SMT DEF LabelOf
<1>8. /\ f = "account" => Is(o, "none", "ServiceAccount")
      /\ f \in {"nsRole", "catalogRole", "wfRole", "toolRole"} => Is(o, "none", "Role")
      /\ f \in {"nsBinding", "client", "agent", "catalogBinding", "wfBinding", "tool", "console"}
           => Is(o, "none", "Binding")
      /\ f = "awx" => \E k : Is(o, "none", k)
  BY <1>3, <1>4, <1>6, InFamily, SMT
<1>9. f \in {"account", "nsRole", "nsBinding", "client", "agent", "catalogRole", "catalogBinding",
             "coreRole", "coreBinding", "mcpRole", "mcpBinding", "extra", "wfRole", "wfBinding",
             "awx", "toolRole", "tool", "console"}
  BY Families, SMT DEF Pool
<1> HIDE DEF f
<1>10. \/ f # "awx" /\ Is(o, LabelOf(f), KindOf(f))
       \/ f = "awx" /\ \E k : Is(o, LabelOf(f), k)
  BY <1>7, <1>8, <1>9, SMT DEF LabelOf, KindOf
<1> QED
  BY <1>10 DEF Is, f

LEMMA DeployedIs ==
  ASSUME NEW s \in Specs
  PROVE  Deployed[s] = AskedFor(s) \ (IF On(s, "gateway") THEN {} ELSE {gatewayAccount})
  BY DEF Deployed

\* What a spec deploys, by families
LEMMA Deployment ==
  ASSUME NEW s \in Specs, NEW d \in Deployed[s]
  PROVE  /\ d \in Pool(s)
         /\ d.label = "core" => d \in All(Desired[s].core)
         /\ d.label = "mcp" => d \in All(Desired[s].mcp)
         /\ d.label = "extra" => d \in Desired[s].extra
         /\ Family(d) = "awx" => On(s, "ansible")
         /\ Family(d) = "client" => d \in Members(DataStorageClientRoleBindings(s))
         /\ Family(d) = "tool" => d \in Desired[s].tools
         /\ Family(d) = "toolRole" => d \in Members(Desired[s].toolRoles)
         /\ Family(d) = "console" => d \in Members(Desired[s].console)
         /\ d = gatewayAccount => On(s, "gateway")
<1>1. \/ d \in Accounts(s) \/ d \in NsRoles \/ d \in NsBindings
      \/ d \in Clients /\ d \in Members(DataStorageClientRoleBindings(s))
      \/ d \in Agents \/ d \in CatalogRoles \/ d \in CatalogBindings
      \/ d \in CoreRoles(s) /\ d \in All(Desired[s].core)
      \/ d \in CoreRoleBindings(s) /\ d \in All(Desired[s].core)
      \/ d \in McpRoles(s) /\ d \in All(Desired[s].mcp)
      \/ d \in McpBindings(s) /\ d \in All(Desired[s].mcp)
      \/ d \in Extras /\ d \in Desired[s].extra
      \/ d \in WfRoles(s) \/ d \in WfBindings(s)
      \/ d \in {AwxRole, AwxBinding(s)} /\ On(s, "ansible")
      \/ d \in ToolRoles /\ d \in Members(Desired[s].toolRoles)
      \/ d \in ToolBindings(s) /\ d \in Desired[s].tools
      \/ d = consoleBinding(s) /\ d \in Members(Desired[s].console)
  <2>1. Members(If(On(s, "ansible"), Desired[s].awx)) \subseteq
          {x \in {AwxRole, AwxBinding(s)} : On(s, "ansible")}
    BY Given, Empty DEF If
  <2> QED
    BY <2>1, Given, DeployedIs, SMT DEF AskedFor
<1>2. d = gatewayAccount => On(s, "gateway")
  BY DeployedIs
<1>3. d \in Pool(s)
  BY <1>1, SMT DEF Pool
<1>4. d.label = LabelOf(Family(d))
  BY <1>3, Labels
<1>5. /\ d.label = "core" => Family(d) \in {"coreRole", "coreBinding"}
      /\ d.label = "mcp" => Family(d) \in {"mcpRole", "mcpBinding"}
      /\ d.label = "extra" => Family(d) = "extra"
  BY <1>4 DEF LabelOf
<1>6. /\ Family(d) \in {"coreRole", "coreBinding"} => d \in All(Desired[s].core)
      /\ Family(d) \in {"mcpRole", "mcpBinding"} => d \in All(Desired[s].mcp)
      /\ Family(d) = "extra" => d \in Desired[s].extra
      /\ Family(d) = "awx" => On(s, "ansible")
      /\ Family(d) = "client" => d \in Members(DataStorageClientRoleBindings(s))
      /\ Family(d) = "tool" => d \in Desired[s].tools
      /\ Family(d) = "toolRole" => d \in Members(Desired[s].toolRoles)
      /\ Family(d) = "console" => d \in Members(Desired[s].console)
  BY <1>1, Families, SMT
<1> QED
  BY <1>2, <1>3, <1>5, <1>6

--------------------------------------------------------------------------
(* The writes of a part.                                                   *)

Writes(stages) == UNION Members(stages)

Asks(W, S) == \A w \in W : w.op = "ensure" /\ w.family = "none" /\ w.obj \in S
Drops(f, W, S) == \A w \in W : w.op = "delete" /\ w.family = f /\ w.obj \in S
Covers(W, S) == \A o \in S : \E w \in W : w.obj = o

LEMMA EnsuresAre ==
  ASSUME NEW list  PROVE Asks(Ensures(list), Members(list)) /\ Covers(Ensures(list), Members(list))
<1>1. \A o, i : ensure(o, i).op = "ensure" /\ ensure(o, i).family = "none" /\ ensure(o, i).obj = o
  BY DEF ensure
<1>2. Asks(Ensures(list), Members(list))
  <2>1. \A i \in DOMAIN list : list[i] \in Members(list)
    BY DEF Members
  <2> QED
    BY <1>1, <2>1, SMT DEF Ensures, Asks
<1>3. \A i \in DOMAIN list : \E w \in Ensures(list) : w.obj = list[i]
  BY <1>1 DEF Ensures
<1> QED
  BY <1>2, <1>3 DEF Members, Covers

LEMMA EnsuresOfAre ==
  ASSUME NEW S  PROVE Asks(EnsuresOf(S), S) /\ Covers(EnsuresOf(S), S)
<1>1. \A o, i : ensure(o, i).op = "ensure" /\ ensure(o, i).family = "none" /\ ensure(o, i).obj = o
  BY DEF ensure
<1> QED
  BY <1>1, SMT DEF EnsuresOf, Asks, Covers

LEMMA DeletesAre ==
  ASSUME NEW f, NEW list
  PROVE  Drops(f, Deletes(f, list), Members(list)) /\ Covers(Deletes(f, list), Members(list))
<1>1. \A o, i : delete(f, o, i).op = "delete" /\ delete(f, o, i).family = f /\ delete(f, o, i).obj = o
  BY DEF delete
<1>2. Drops(f, Deletes(f, list), Members(list))
  <2>1. \A i \in DOMAIN list : list[i] \in Members(list)
    BY DEF Members
  <2> QED
    BY <1>1, <2>1, SMT DEF Deletes, Drops
<1>3. \A i \in DOMAIN list : \E w \in Deletes(f, list) : w.obj = list[i]
  BY <1>1 DEF Deletes
<1> QED
  BY <1>2, <1>3 DEF Members, Covers

LEMMA DeletesOfAre ==
  ASSUME NEW f, NEW S  PROVE Drops(f, DeletesOf(f, S), S) /\ Covers(DeletesOf(f, S), S)
<1>1. \A o, i : delete(f, o, i).op = "delete" /\ delete(f, o, i).family = f /\ delete(f, o, i).obj = o
  BY DEF delete
<1> QED
  BY <1>1, SMT DEF DeletesOf, Drops, Covers

LEMMA EnsuresAllAre ==
  ASSUME NEW L, NEW n \in Nat, DOMAIN L = 1 .. n
  PROVE  /\ IsSeq(EnsuresAll(L)) /\ DOMAIN EnsuresAll(L) = 1 .. n
         /\ Asks(Writes(EnsuresAll(L)), All(L)) /\ Covers(Writes(EnsuresAll(L)), All(L))
         /\ \A i \in 1 .. n : EnsuresAll(L)[i] = Ensures(L[i])
<1>1. DOMAIN EnsuresAll(L) = 1 .. n /\ \A i \in 1 .. n : EnsuresAll(L)[i] = Ensures(L[i])
  BY DEF EnsuresAll
<1>2. IsSeq(EnsuresAll(L))
  <2> DEFINE G == Members(EnsuresAll(L))
  <2>1. \A i \in 1 .. n : Ensures(L[i]) \in G
    BY <1>1 DEF Members
  <2>2. EnsuresAll(L) = [i \in 1 .. n |-> Ensures(L[i])]
    BY DEF EnsuresAll
  <2> HIDE DEF G
  <2>3. EnsuresAll(L) \in Seq(G)
    BY <2>1, <2>2, SMT
  <2> QED
    BY <2>3 DEF IsSeq
<1>3. \A i \in 1 .. n : /\ Asks(Ensures(L[i]), Members(L[i]))
                        /\ Covers(Ensures(L[i]), Members(L[i]))
  BY EnsuresAre
<1>4. Asks(Writes(EnsuresAll(L)), All(L))
  <2>1. ASSUME NEW i \in 1 .. n, NEW w \in Ensures(L[i])
        PROVE  w.op = "ensure" /\ w.family = "none" /\ w.obj \in All(L)
    BY <1>3 DEF Asks, All
  <2> QED
    BY <1>1, <2>1 DEF Asks, Writes, Members
<1>5. Covers(Writes(EnsuresAll(L)), All(L))
  <2>1. ASSUME NEW i \in 1 .. n, NEW o \in Members(L[i])
        PROVE  \E w \in Writes(EnsuresAll(L)) : w.obj = o
    <3>1. PICK w \in Ensures(L[i]) : w.obj = o
      BY <1>3 DEF Covers
    <3>2. w \in Writes(EnsuresAll(L))
      BY <1>1 DEF Writes, Members
    <3> QED
      BY <3>1, <3>2
  <2> QED
    BY <2>1 DEF Covers, All
<1> QED
  BY <1>1, <1>2, <1>4, <1>5

\* The deletes of a prune, for what the List found
Found(label, O, keep) ==
  {o \in O : o.label = label /\ o.kind \in {"Role", "Binding"} /\ Key(o) \notin keep}

LEMMA DeletesListedAre ==
  ASSUME NEW f, NEW label, NEW O, NEW keep
  PROVE  /\ IsSeq(DeletesListed(f, label, O, keep))
         /\ Drops(f, Writes(DeletesListed(f, label, O, keep)), Found(label, O, keep))
         /\ Covers(Writes(DeletesListed(f, label, O, keep)), Found(label, O, keep))
<1> DEFINE F(kind) == {o \in O : o.label = label /\ o.kind = kind /\ Key(o) \notin keep}
           R == DeletesOf(f, F("Role"))
           B == DeletesOf(f, F("Binding"))
<1>1. DeletesListed(f, label, O, keep) = <<R, B>>
  BY DEF DeletesListed
<1>2. /\ Drops(f, R, F("Role")) /\ Covers(R, F("Role"))
      /\ Drops(f, B, F("Binding")) /\ Covers(B, F("Binding"))
  BY DeletesOfAre
<1>3. Found(label, O, keep) = F("Role") \cup F("Binding")
  BY DEF Found
<1> HIDE DEF R, B, F
<1>4. IsSeq(<<R, B>>) /\ Members(<<R, B>>) = {R, B}
  BY Pair
<1> QED
  BY <1>1, <1>2, <1>3, <1>4, SMT DEF Drops, Covers, Writes

LEMMA WritesConcat ==
  ASSUME NEW s, NEW t, IsSeq(s), IsSeq(t)
  PROVE  IsSeq(s \o t) /\ Writes(s \o t) = Writes(s) \cup Writes(t)
  BY Concat, SMT DEF Writes

LEMMA WritesOfFew ==
  /\ \A x : IsSeq(<<x>>) /\ Writes(<<x>>) = x
  /\ \A x, y : IsSeq(<<x, y>>) /\ Writes(<<x, y>>) = x \cup y
  /\ \A x, y, z : IsSeq(<<x, y, z>>) /\ Writes(<<x, y, z>>) = UNION {x, y, z}
  BY Single, Pair, Triple, SMT DEF Writes

\* Everything the operator may ever have written
Universe == {OldAgent} \cup UNION {Pool(s) : s \in Specs}

ToolName(r) == <<"tool", r, "binding">>
CRType == [state : {"live", "terminating", "gone"}, spec : Specs,
           bound : SUBSET {ToolName(r) : r \in Personas \cup ExtraRoles}]

\* What the cleanup for k does not look for
Excused(o, k) == \/ o.ns = Home
                 \/ o.ns \in {"wf1", "wf2"} \ {k.spec.wf}
                 \/ Len(o.name) = 3 /\ o.name[1] = "tool" /\ o.name \notin k.bound

--------------------------------------------------------------------------
(* The finalizer.                                                          *)

\* Objects in the namespace of the CR
LEMMA AtHome ==
  ASSUME NEW s, NEW o \in Pool(s),
         Family(o) \in {"nsRole", "nsBinding", "client", "agent", "catalogRole", "catalogBinding"}
  PROVE  o.ns = Home
<1> DEFINE In(x) == x.ns = Home
<1>1. \A c : /\ In(nsRole(c)) /\ In(nsBinding(c)) /\ In(storageClient(c)) /\ In(agentClient(c))
             /\ In(catalogRole(c)) /\ In(catalogBinding(c))
  BY SMT DEF nsRole, nsBinding, storageClient, agentClient, catalogRole, catalogBinding, Role, Binding
<1> HIDE DEF In
<1>2. \A x \in UNION {NsRoles, NsBindings, Clients, Agents, CatalogRoles, CatalogBindings} : In(x)
  BY <1>1, SMT DEF NsRoles, NsBindings, Clients, Agents, CatalogRoles, CatalogBindings
<1>3. In(o)
  BY <1>2, InFamily
<1> QED
  BY <1>3 DEF In

LEMMA DeleteNamedAre ==
  ASSUME NEW list, NEW S, Members(list) = S
  PROVE  Drops("cleanup", DeleteNamed(list), S) /\ Covers(DeleteNamed(list), S)
  BY DeletesAre DEF DeleteNamed

\* What the cleanup deletes
Doomed(k, O) ==
  UNION {Found("core", O, {}), {AwxRole, AwxBinding(k.spec)}, Found("extra", O, {}),
         ToolRoles, byName(k.bound), {consoleBinding(k.spec)}, Found("mcp", O, {}),
         WfRoles(k.spec), WfBindings(k.spec),
         {ServiceAccount(k.spec.wf, "kubernaut-workflow-runner")}}

LEMMA CleanupDeletes ==
  ASSUME NEW k \in CRType, NEW O
  PROVE  /\ Drops("cleanup", Writes(Work("cleanup", k, O)), Doomed(k, O))
         /\ Covers(Writes(Work("cleanup", k, O)), Doomed(k, O))
<1> DEFINE s == k.spec
           core == DeleteListed("core", O)
           extra == DeleteListed("extra", O)
           mcp == DeleteListed("mcp", O)
           awx == DeleteNamed(Desired[s].awx)
           roles == DeleteNamed(ToolClusterRoles(WithFrontend(s)))
           tools == DeletesOf("cleanup", byName(k.bound))
           console == DeleteNamed(<<consoleBinding(s)>>)
           w1 == DeleteNamed(Desired[s].workflow[1])
           w2 == DeleteNamed(Desired[s].workflow[2])
           w3 == DeleteNamed(<<ServiceAccount(s.wf, "kubernaut-workflow-runner")>>)
<1>0. s \in Specs
  BY DEF CRType
<1>1. Work("cleanup", k, O) =
        core \o <<awx>> \o (extra \o <<roles, tools, console>>) \o mcp \o <<w1, w2, w3>>
  BY DEF Work, deleteClusterScopedResources, deleteAdditionalAgentAndToolRBAC, deleteWorkflowResources
<1>2. /\ IsSeq(core) /\ Drops("cleanup", Writes(core), Found("core", O, {})) /\ Covers(Writes(core), Found("core", O, {}))
      /\ IsSeq(extra) /\ Drops("cleanup", Writes(extra), Found("extra", O, {})) /\ Covers(Writes(extra), Found("extra", O, {}))
      /\ IsSeq(mcp) /\ Drops("cleanup", Writes(mcp), Found("mcp", O, {})) /\ Covers(Writes(mcp), Found("mcp", O, {}))
  BY DeletesListedAre DEF DeleteListed
<1>3. Drops("cleanup", awx, {AwxRole, AwxBinding(s)}) /\ Covers(awx, {AwxRole, AwxBinding(s)})
  <2>1. Members(Desired[s].awx) = {AwxRole, AwxBinding(s)}
    BY <1>0, Given
  <2> QED
    BY <2>1, DeleteNamedAre
<1>4. Drops("cleanup", roles, ToolRoles) /\ Covers(roles, ToolRoles)
  <2>1. On(WithFrontend(s), "apifrontend")
    <3>1. s \in SpecType
      BY <1>0, SpecsAssumption
    <3> QED
      BY <3>1, SMT DEF On, WithFrontend, SpecType
  <2> QED
    BY <2>1, PersonaRoles, DeleteNamedAre
<1>5. Drops("cleanup", tools, byName(k.bound)) /\ Covers(tools, byName(k.bound))
  BY DeletesOfAre
<1>6. Drops("cleanup", console, {consoleBinding(s)}) /\ Covers(console, {consoleBinding(s)})
  <2>1. Members(<<consoleBinding(s)>>) = {consoleBinding(s)}
    BY Single
  <2> QED
    BY <2>1, DeleteNamedAre
<1>7. /\ Drops("cleanup", w1, WfRoles(s)) /\ Covers(w1, WfRoles(s))
      /\ Drops("cleanup", w2, WfBindings(s)) /\ Covers(w2, WfBindings(s))
  <2>1. Members(Desired[s].workflow[1]) = WfRoles(s) /\ Members(Desired[s].workflow[2]) = WfBindings(s)
    BY <1>0, OtherLists, DesiredIs
  <2> QED
    BY <2>1, DeleteNamedAre
<1>8. /\ Drops("cleanup", w3, {ServiceAccount(s.wf, "kubernaut-workflow-runner")})
      /\ Covers(w3, {ServiceAccount(s.wf, "kubernaut-workflow-runner")})
  <2>1. Members(<<ServiceAccount(s.wf, "kubernaut-workflow-runner")>>)
          = {ServiceAccount(s.wf, "kubernaut-workflow-runner")}
    BY Single
  <2> QED
    BY <2>1, DeleteNamedAre
<1> HIDE DEF s, core, extra, mcp, awx, roles, tools, console, w1, w2, w3
<1>9. Writes(Work("cleanup", k, O)) = UNION {Writes(core), awx, Writes(extra), roles, tools, console,
                                            Writes(mcp), w1, w2, w3}
  <2>1. IsSeq(<<awx>>) /\ Writes(<<awx>>) = awx
    BY WritesOfFew
  <2>2. /\ IsSeq(<<roles, tools, console>>)
        /\ Writes(<<roles, tools, console>>) = UNION {roles, tools, console}
    BY WritesOfFew
  <2>3. IsSeq(<<w1, w2, w3>>) /\ Writes(<<w1, w2, w3>>) = UNION {w1, w2, w3}
    BY WritesOfFew
  <2>4. IsSeq(core \o <<awx>>) /\ Writes(core \o <<awx>>) = Writes(core) \cup awx
    BY <1>2, <2>1, WritesConcat
  <2>5. /\ IsSeq(extra \o <<roles, tools, console>>)
        /\ Writes(extra \o <<roles, tools, console>>) = Writes(extra) \cup UNION {roles, tools, console}
    BY <1>2, <2>2, WritesConcat
  <2> DEFINE c == core \o <<awx>>
             e == extra \o <<roles, tools, console>>
             w == <<w1, w2, w3>>
  <2> HIDE DEF c, e, w
  <2>6. IsSeq(c \o e) /\ Writes(c \o e) = Writes(c) \cup Writes(e)
    BY <2>4, <2>5, WritesConcat DEF c, e
  <2>7. IsSeq(c \o e \o mcp) /\ Writes(c \o e \o mcp) = Writes(c \o e) \cup Writes(mcp)
    BY <2>6, <1>2, WritesConcat
  <2>8. Writes(c \o e \o mcp \o w) = Writes(c \o e \o mcp) \cup Writes(w)
    BY <2>7, <2>3, WritesConcat DEF w
  <2>9. Work("cleanup", k, O) = c \o e \o mcp \o w
    BY <1>1 DEF c, e, w
  <2>10. /\ Writes(c) = Writes(core) \cup awx
         /\ Writes(e) = Writes(extra) \cup UNION {roles, tools, console}
         /\ Writes(w) = UNION {w1, w2, w3}
    BY <2>3, <2>4, <2>5 DEF c, e, w
  <2>11. Writes(Work("cleanup", k, O)) = ((Writes(c) \cup Writes(e)) \cup Writes(mcp)) \cup Writes(w)
    BY <2>6, <2>7, <2>8, <2>9
  <2> QED
    BY <2>10, <2>11, SMT
<1>10. Doomed(k, O) = UNION {Found("core", O, {}), {AwxRole, AwxBinding(s)}, Found("extra", O, {}),
                            ToolRoles, byName(k.bound), {consoleBinding(s)}, Found("mcp", O, {}),
                            WfRoles(s), WfBindings(s),
                            {ServiceAccount(s.wf, "kubernaut-workflow-runner")}}
  BY DEF Doomed, s
<1>11. Drops("cleanup", Writes(Work("cleanup", k, O)), Doomed(k, O))
  BY <1>2, <1>3, <1>4, <1>5, <1>6, <1>7, <1>8, <1>9, <1>10, SMTT(30) DEF Drops
<1>12. Covers(Writes(Work("cleanup", k, O)), Doomed(k, O))
  BY <1>2, <1>3, <1>4, <1>5, <1>6, <1>7, <1>8, <1>9, <1>10, SMTT(30) DEF Covers
<1> QED
  BY <1>11, <1>12

LEMMA Reached ==
  ASSUME NEW k \in CRType, NEW O, NEW o \in O, NEW t \in Specs, o \in Pool(t)
  PROVE  Excused(o, k) \/ \E n \in Doomed(k, O) : Key(n) = Key(o)
<1> DEFINE s == k.spec
           f == Family(o)
<1>0. s \in Specs /\ s.wf \in {"wf1", "wf2"} /\ t.wf \in {"wf1", "wf2"}
  <2>1. s \in Specs
    BY DEF CRType
  <2> QED
    BY <2>1, SpecsAssumption, SMT DEF SpecType
<1>1. CASE f \in {"nsRole", "nsBinding", "client", "agent", "catalogRole", "catalogBinding"}
  BY <1>1, AtHome DEF Excused
<1>2. CASE f \in {"coreRole", "coreBinding", "mcpRole", "mcpBinding", "extra"}
  <2>1. o.label = LabelOf(f) /\ o.kind = KindOf(f)
    BY <1>2, Labels
  <2>2. LabelOf(f) \in {"core", "mcp", "extra"} /\ KindOf(f) \in {"Role", "Binding"}
    BY <1>2, SMT DEF LabelOf, KindOf
  <2> HIDE DEF f
  <2>3. o \in UNION {Found("core", O, {}), Found("mcp", O, {}), Found("extra", O, {})}
    BY <2>1, <2>2, SMT DEF Found
  <2>4. o \in Doomed(k, O)
    BY <2>3, SMT DEF Doomed
  <2> QED
    BY <2>4
<1>3. CASE f = "account"
  <2>1. CASE o.ns = Home
    BY <2>1 DEF Excused
  <2>2. CASE o = ServiceAccount(t.wf, "kubernaut-workflow-runner")
    <3>1. o.ns = t.wf
      BY <2>2 DEF ServiceAccount
    <3>2. CASE t.wf = s.wf
      BY <2>2, <3>2 DEF Doomed
    <3>3. CASE t.wf # s.wf
      BY <3>1, <3>3, <1>0 DEF Excused
    <3> QED
      BY <3>2, <3>3
  <2>3. \A c : ServiceAccount(Home, c).ns = Home
    BY DEF ServiceAccount
  <2>4. o \in Accounts(t)
    BY <1>3, InFamily
  <2> QED
    BY <2>1, <2>2, <2>3, <2>4 DEF Accounts
<1>4. CASE f \in {"wfRole", "wfBinding"}
  <2>1. \A c : /\ wfRole(t, c).ns = t.wf /\ wfBinding(t, c).ns = t.wf
               /\ t.wf = s.wf => /\ Key(wfRole(t, c)) = Key(wfRole(s, c))
                                 /\ Key(wfBinding(t, c)) = Key(wfBinding(s, c))
    BY SMT DEF wfRole, wfBinding, Role, Binding, Key
  <2>2. o \in WfRoles(t) \/ o \in WfBindings(t)
    BY <1>4, InFamily
  <2>3. PICK c \in WfUsers : o = wfRole(t, c) \/ o = wfBinding(t, c)
    BY <2>2 DEF WfRoles, WfBindings
  <2>4. wfRole(s, c) \in Doomed(k, O) /\ wfBinding(s, c) \in Doomed(k, O)
    BY SMT DEF Doomed, WfRoles, WfBindings
  <2>5. CASE t.wf = s.wf
    BY <2>1, <2>3, <2>4, <2>5
  <2>6. CASE t.wf # s.wf
    BY <2>1, <2>3, <2>6, <1>0 DEF Excused
  <2> QED
    BY <2>5, <2>6
<1>5. CASE f = "awx"
  <2>1. Key(AwxBinding(t)) = Key(AwxBinding(s))
    BY SMT DEF AwxBinding, Binding, Key
  <2>2. AwxRole \in Doomed(k, O) /\ AwxBinding(s) \in Doomed(k, O)
    BY SMT DEF Doomed
  <2>3. o \in {AwxRole, AwxBinding(t)}
    BY <1>5, InFamily
  <2> QED
    BY <2>1, <2>2, <2>3
<1>6. CASE f = "toolRole"
  <2>1. o \in ToolRoles
    BY <1>6, InFamily
  <2>2. o \in Doomed(k, O)
    BY <2>1, SMT DEF Doomed
  <2> QED
    BY <2>2
<1>7. CASE f = "tool"
  <2>1. o \in ToolBindings(t)
    BY <1>7, InFamily
  <2>2. PICK r : o = toolBinding(t, r)
    BY <2>1 DEF ToolBindings
  <2>3. /\ Len(o.name) = 3 /\ o.name[1] = "tool"
        /\ Key(Binding(Everywhere, o.name, "none", <<>>, {})) = Key(o)
    BY <2>2, SMT DEF toolBinding, Binding, Key
  <2>4. CASE o.name \in k.bound
    <3>1. Binding(Everywhere, o.name, "none", <<>>, {}) \in byName(k.bound)
      BY <2>4 DEF byName
    <3>2. Binding(Everywhere, o.name, "none", <<>>, {}) \in Doomed(k, O)
      BY <3>1, SMT DEF Doomed
    <3> QED
      BY <2>3, <3>2
  <2>5. CASE o.name \notin k.bound
    BY <2>3, <2>5 DEF Excused
  <2> QED
    BY <2>4, <2>5
<1>8. CASE f = "console"
  <2>1. Key(consoleBinding(t)) = Key(consoleBinding(s))
    BY SMT DEF consoleBinding, Binding, Key
  <2>2. consoleBinding(s) \in Doomed(k, O)
    BY SMT DEF Doomed
  <2>3. o = consoleBinding(t)
    BY <1>8, InFamily
  <2> QED
    BY <2>1, <2>2, <2>3
<1>9. f \in {"account", "nsRole", "nsBinding", "client", "agent", "catalogRole", "catalogBinding",
             "coreRole", "coreBinding", "mcpRole", "mcpBinding", "extra", "wfRole", "wfBinding",
             "awx", "toolRole", "tool", "console"}
  BY Families, SMT DEF Pool
<1> QED
  BY <1>1, <1>2, <1>3, <1>4, <1>5, <1>6, <1>7, <1>8, <1>9

LEMMA InUniverse ==
  ASSUME NEW o \in Universe  PROVE o = OldAgent \/ \E t \in Specs : o \in Pool(t)
  BY DEF Universe

\* The cleanup deletes only, and whatever it has to.
LEMMA Cleanup ==
  ASSUME NEW k \in CRType, NEW O \in SUBSET Universe
  PROVE  /\ \A w \in Writes(Work("cleanup", k, O)) : w.op = "delete"
         /\ \A o \in O : \/ Excused(o, k)
                         \/ \E w \in Writes(Work("cleanup", k, O)) : Key(w.obj) = Key(o)
<1>1. \A w \in Writes(Work("cleanup", k, O)) : w.op = "delete"
  BY CleanupDeletes DEF Drops
<1>2. ASSUME NEW o \in O
      PROVE  Excused(o, k) \/ \E n \in Doomed(k, O) : Key(n) = Key(o)
  <2>1. CASE o = OldAgent
    <3>1. OldAgent.label = "core" /\ OldAgent.kind = "Role"
      BY DEF OldAgent, ClusterRole, Role
    <3>2. o \in Found("core", O, {})
      BY <2>1, <3>1 DEF Found
    <3>3. o \in Doomed(k, O)
      BY <3>2, SMT DEF Doomed
    <3> QED
      BY <3>3
  <2>2. CASE \E t \in Specs : o \in Pool(t)
    BY <2>2, Reached
  <2> QED
    BY <2>1, <2>2, InUniverse
<1>3. ASSUME NEW o, NEW n \in Doomed(k, O), Key(n) = Key(o)
      PROVE  \E w \in Writes(Work("cleanup", k, O)) : Key(w.obj) = Key(o)
  <2>1. Covers(Writes(Work("cleanup", k, O)), Doomed(k, O))
    BY CleanupDeletes
  <2> QED
    BY <1>3, <2>1 DEF Covers
<1> QED
  BY <1>1, <1>2, <1>3

--------------------------------------------------------------------------
(* The deployment.                                                         *)

\* A pass deletes nothing that its spec asks for, and writes nothing else.
Harmless(w, s) ==
  \/ w.op = "ensure" /\ w.family = "none" /\ w.obj \in Deployed[s] \cup {gatewayAccount}
  \/ /\ w.op = "delete" /\ Key(w.obj) \notin Keys(Deployed[s])
     /\ Family(w.obj) = "tool" => w.family = "none"

AllHarmless(W, s) == \A w \in W : Harmless(w, s)

\* What has to be there before w: the agent's own role for the catalog before its
\* ClusterRole loses the reads, and the wanted tool bindings before stale ones go
Needed(w, s) ==
  IF w.op = "ensure" /\ Key(w.obj) = Key(OldAgent)
  THEN {catalogRole("kubernaut-agent"), catalogBinding("kubernaut-agent")}
  ELSE IF w.op = "delete" /\ Family(w.obj) = "tool"
  THEN Members(Desired[s].toolRoles) \cup Desired[s].tools
  ELSE {}

Ensured(x, W) == \E v \in W : v.op = "ensure" /\ v.obj = x

\* The stages before have it done.
InOrder(W, s) ==
  \A i \in DOMAIN W : \A w \in W[i] : \A x \in Needed(w, s) :
     \E j \in DOMAIN W : j < i /\ Ensured(x, W[j])

Free(W, s) == \A w \in W : Needed(w, s) = {}

Fine(W, s) == IsSeq(W) /\ AllHarmless(Writes(W), s) /\ InOrder(W, s)

LEMMA FreeInOrder ==
  ASSUME NEW W, NEW s, Free(Writes(W), s)  PROVE InOrder(W, s)
<1>1. \A i \in DOMAIN W : \A w \in W[i] : w \in Writes(W)
  BY DEF Writes, Members
<1> QED
  BY <1>1 DEF Free, InOrder

LEMMA ConcatIndices ==
  ASSUME NEW A, NEW B, IsSeq(A), IsSeq(B)
  PROVE  \E n \in Nat : /\ DOMAIN A = 1 .. n
                        /\ \A i \in DOMAIN A : i \in DOMAIN (A \o B) /\ (A \o B)[i] = A[i]
                        /\ \A i \in DOMAIN B : n + i \in DOMAIN (A \o B) /\ (A \o B)[n + i] = B[i]
                        /\ \A i \in DOMAIN B : i \in Nat /\ i > 0
                        /\ \A i \in DOMAIN (A \o B) : i \in DOMAIN A \/ \E j \in DOMAIN B : i = n + j
<1>1. PICK S : A \in Seq(S)
  BY DEF IsSeq
<1>2. PICK T : B \in Seq(T)
  BY DEF IsSeq
<1> DEFINE U == S \cup T
           n == Len(A)
<1>3. A \in Seq(U) /\ B \in Seq(U)
  BY <1>1, <1>2, SMT
<1> HIDE DEF U
<1>4. n \in Nat /\ DOMAIN A = 1 .. n /\ DOMAIN B = 1 .. Len(B) /\ Len(B) \in Nat
  BY <1>3, SMT
<1>5. DOMAIN (A \o B) = 1 .. (Len(A) + Len(B))
  BY <1>3, SMT
<1>6. \A i \in 1 .. n : i \in 1 .. (Len(A) + Len(B)) /\ (A \o B)[i] = A[i]
  BY <1>3, SMT
<1>7. \A i \in 1 .. Len(B) : n + i \in 1 .. (Len(A) + Len(B)) /\ (A \o B)[n + i] = B[i]
  BY <1>3, SMT
<1>8. \A i \in 1 .. (Len(A) + Len(B)) : i \in 1 .. n \/ (i - n \in 1 .. Len(B) /\ i = n + (i - n))
  BY <1>4, SMT
<1>9. \A i \in 1 .. Len(B) : i \in Nat /\ i > 0
  BY <1>4, SMT
<1> HIDE DEF n
<1> QED
  BY <1>4, <1>5, <1>6, <1>7, <1>8, <1>9 DEF n

LEMMA OrderConcat ==
  ASSUME NEW A, NEW B, NEW s, IsSeq(A), IsSeq(B), InOrder(A, s), InOrder(B, s)
  PROVE  InOrder(A \o B, s)
<1> DEFINE C == A \o B
<1>1. PICK n \in Nat : /\ DOMAIN A = 1 .. n
                       /\ \A i \in DOMAIN A : i \in DOMAIN C /\ C[i] = A[i]
                       /\ \A i \in DOMAIN B : n + i \in DOMAIN C /\ C[n + i] = B[i]
                       /\ \A i \in DOMAIN B : i \in Nat /\ i > 0
                       /\ \A i \in DOMAIN C : i \in DOMAIN A \/ \E j \in DOMAIN B : i = n + j
  BY ConcatIndices
<1> HIDE DEF C
<1>2. ASSUME NEW i \in DOMAIN A, NEW w \in C[i], NEW x \in Needed(w, s)
      PROVE  \E j \in DOMAIN C : j < i /\ Ensured(x, C[j])
  <2>1. w \in A[i]
    BY <1>1
  <2>2. PICK j \in DOMAIN A : j < i /\ Ensured(x, A[j])
    BY <2>1 DEF InOrder
  <2>3. j \in DOMAIN C /\ C[j] = A[j]
    BY <1>1
  <2> QED
    BY <2>2, <2>3
<1>3. ASSUME NEW k \in DOMAIN B, NEW w \in C[n + k], NEW x \in Needed(w, s)
      PROVE  \E j \in DOMAIN C : j < n + k /\ Ensured(x, C[j])
  <2>1. w \in B[k]
    BY <1>1
  <2>2. PICK j \in DOMAIN B : j < k /\ Ensured(x, B[j])
    BY <2>1 DEF InOrder
  <2>3. n + j < n + k
    BY <1>1, <2>2, SMT
  <2>4. n + j \in DOMAIN C /\ C[n + j] = B[j]
    BY <1>1
  <2> QED
    BY <2>2, <2>3, <2>4
<1>4. ASSUME NEW i \in DOMAIN C, NEW w \in C[i], NEW x \in Needed(w, s)
      PROVE  \E j \in DOMAIN C : j < i /\ Ensured(x, C[j])
  <2>1. CASE i \in DOMAIN A
    BY <1>2, <2>1
  <2>2. CASE \E k \in DOMAIN B : i = n + k
    BY <1>3, <2>2
  <2> QED
    BY <1>1, <2>1, <2>2
<1>5. InOrder(C, s)
  BY <1>4 DEF InOrder
<1> QED
  BY <1>5 DEF C

\* B may count on what A has done.
LEMMA OrderAfter ==
  ASSUME NEW A, NEW B, NEW s, NEW X, IsSeq(A), IsSeq(B), InOrder(A, s),
         \A x \in X : Ensured(x, Writes(A)),
         \A w \in Writes(B) : Needed(w, s) \subseteq X
  PROVE  InOrder(A \o B, s)
<1> DEFINE C == A \o B
<1>1. PICK n \in Nat : /\ DOMAIN A = 1 .. n
                       /\ \A i \in DOMAIN A : i \in DOMAIN C /\ C[i] = A[i]
                       /\ \A i \in DOMAIN B : n + i \in DOMAIN C /\ C[n + i] = B[i]
                       /\ \A i \in DOMAIN B : i \in Nat /\ i > 0
                       /\ \A i \in DOMAIN C : i \in DOMAIN A \/ \E j \in DOMAIN B : i = n + j
  BY ConcatIndices
<1> HIDE DEF C
<1>2. ASSUME NEW i \in DOMAIN A, NEW w \in C[i], NEW x \in Needed(w, s)
      PROVE  \E j \in DOMAIN C : j < i /\ Ensured(x, C[j])
  <2>1. w \in A[i]
    BY <1>1
  <2>2. PICK j \in DOMAIN A : j < i /\ Ensured(x, A[j])
    BY <2>1 DEF InOrder
  <2>3. j \in DOMAIN C /\ C[j] = A[j]
    BY <1>1
  <2> QED
    BY <2>2, <2>3
<1>3. ASSUME NEW k \in DOMAIN B, NEW w \in C[n + k], NEW x \in Needed(w, s)
      PROVE  \E j \in DOMAIN C : j < n + k /\ Ensured(x, C[j])
  <2>1. w \in Writes(B)
    BY <1>1 DEF Writes, Members
  <2>2. PICK v \in Writes(A) : v.op = "ensure" /\ v.obj = x
    BY <2>1 DEF Ensured
  <2>3. PICK j \in DOMAIN A : v \in A[j]
    BY DEF Writes, Members
  <2>4. j < n + k
    BY <1>1, SMT
  <2>5. Ensured(x, A[j])
    BY <2>2, <2>3 DEF Ensured
  <2>6. j \in DOMAIN C /\ C[j] = A[j]
    BY <1>1
  <2> QED
    BY <2>4, <2>5, <2>6
<1>4. ASSUME NEW i \in DOMAIN C, NEW w \in C[i], NEW x \in Needed(w, s)
      PROVE  \E j \in DOMAIN C : j < i /\ Ensured(x, C[j])
  <2>1. CASE i \in DOMAIN A
    BY <1>2, <2>1
  <2>2. CASE \E k \in DOMAIN B : i = n + k
    BY <1>3, <2>2
  <2> QED
    BY <1>1, <2>1, <2>2
<1>5. InOrder(C, s)
  BY <1>4 DEF InOrder
<1> QED
  BY <1>5 DEF C

LEMMA FreeAsks ==
  ASSUME NEW s, NEW W, NEW S, Asks(W, S), \A o \in S : Family(o) # "coreRole"
  PROVE  Free(W, s)
<1>1. \A o : Key(o) = Key(OldAgent) => Family(o) = "coreRole"
  <2>1. Family(OldAgent) = "coreRole"
    BY SMT DEF OldAgent, ClusterRole, Role, Family, FamilyAt, OfSingle
  <2>2. \A o : Key(o) = Key(OldAgent) => Family(o) = Family(OldAgent)
    BY SMT DEF Key, Family
  <2> QED
    BY <2>1, <2>2
<1> QED
  BY <1>1 DEF Asks, Free, Needed

LEMMA FreeDrops ==
  ASSUME NEW s, NEW f, NEW W, NEW S, Drops(f, W, S), \A o \in S : Family(o) # "tool"
  PROVE  Free(W, s)
  BY DEF Drops, Free, Needed

LEMMA HarmlessAsks ==
  ASSUME NEW s \in Specs, NEW W, NEW S, Asks(W, S), S \subseteq AskedFor(s)
  PROVE  AllHarmless(W, s)
<1>1. AskedFor(s) \subseteq Deployed[s] \cup {gatewayAccount}
  BY DeployedIs
<1> QED
  BY <1>1 DEF Asks, AllHarmless, Harmless

LEMMA HarmlessDrops ==
  ASSUME NEW s \in Specs, NEW f, NEW W, NEW S, Drops(f, W, S),
         \A o \in S : Key(o) \notin Keys(Deployed[s]) /\ (Family(o) = "tool" => f = "none")
  PROVE  AllHarmless(W, s)
  BY DEF Drops, AllHarmless, Harmless

LEMMA UniverseLabels ==
  ASSUME NEW o \in Universe  PROVE o.label = LabelOf(Family(o))
<1>1. ASSUME NEW t \in Specs, o \in Pool(t)  PROVE o.label = LabelOf(Family(o))
  BY <1>1, Labels
<1>2. OldAgent.label = LabelOf(Family(OldAgent))
  BY SMT DEF OldAgent, ClusterRole, Role, Family, FamilyAt, OfSingle, LabelOf
<1> QED
  BY <1>1, <1>2, InUniverse

\* A prune leaves what is wanted.
LEMMA Pruned ==
  ASSUME NEW s \in Specs, NEW O \in SUBSET Universe, NEW label \in {"core", "mcp", "extra"},
         NEW o \in Found(label, O, Wanted[s][label])
  PROVE  Key(o) \notin Keys(Deployed[s]) /\ Family(o) # "tool"
<1>0. Family(o) # "tool"
  <2>1. o.label = LabelOf(Family(o)) /\ o.label = label
    BY UniverseLabels DEF Found
  <2>2. LabelOf("tool") = "none"
    BY SMT DEF LabelOf
  <2> QED
    BY <2>1, <2>2
<1> SUFFICES ASSUME NEW d \in Deployed[s], Key(d) = Key(o)
             PROVE  FALSE
  BY <1>0 DEF Keys
<1>1. o \in Universe /\ o.label = label /\ Key(o) \notin Wanted[s][label]
  BY DEF Found
<1>2. Family(o) = Family(d)
  BY SMT DEF Family, Key
<1>3. d.label = label
  BY <1>1, <1>2, Deployment, Labels, UniverseLabels
<1>4. /\ Wanted[s]["core"] = Keys(All(Desired[s].core))
      /\ Wanted[s]["mcp"] = Keys(All(Desired[s].mcp))
      /\ Wanted[s]["extra"] = Keys(Desired[s].extra)
  BY DEF Wanted
<1>5. CASE label = "core"
  BY <1>1, <1>3, <1>4, <1>5, Deployment DEF Keys
<1>6. CASE label = "mcp"
  BY <1>1, <1>3, <1>4, <1>6, Deployment DEF Keys
<1>7. CASE label = "extra"
  BY <1>1, <1>3, <1>4, <1>7, Deployment DEF Keys
<1> QED
  BY <1>5, <1>6, <1>7

LEMMA PruneFine ==
  ASSUME NEW s \in Specs, NEW O \in SUBSET Universe, NEW label \in {"core", "mcp", "extra"}
  PROVE  Fine(pruneUndesired(s, label, O), s) /\ Free(Writes(pruneUndesired(s, label, O)), s)
<1>1. /\ IsSeq(pruneUndesired(s, label, O))
      /\ Drops(label, Writes(pruneUndesired(s, label, O)), Found(label, O, Wanted[s][label]))
  BY DeletesListedAre DEF pruneUndesired
<1>2. \A o \in Found(label, O, Wanted[s][label]) : Key(o) \notin Keys(Deployed[s]) /\ Family(o) # "tool"
  BY Pruned
<1>3. AllHarmless(Writes(pruneUndesired(s, label, O)), s)
  BY <1>1, <1>2, HarmlessDrops
<1>4. Free(Writes(pruneUndesired(s, label, O)), s)
  BY <1>1, <1>2, FreeDrops
<1> QED
  BY <1>1, <1>3, <1>4, FreeInOrder DEF Fine

LEMMA HarmlessConcat ==
  ASSUME NEW s, NEW A, NEW B, IsSeq(A), IsSeq(B),
         AllHarmless(Writes(A), s), AllHarmless(Writes(B), s)
  PROVE  IsSeq(A \o B) /\ AllHarmless(Writes(A \o B), s)
<1>1. IsSeq(A \o B) /\ Writes(A \o B) = Writes(A) \cup Writes(B)
  BY WritesConcat
<1> QED
  BY <1>1 DEF AllHarmless

LEMMA FineConcat ==
  ASSUME NEW s, NEW A, NEW B, Fine(A, s), Fine(B, s)  PROVE Fine(A \o B, s)
  BY HarmlessConcat, OrderConcat DEF Fine

LEMMA EnsuresAllFine ==
  ASSUME NEW s \in Specs, NEW L, NEW n \in Nat, DOMAIN L = 1 .. n, All(L) \subseteq AskedFor(s)
  PROVE  /\ IsSeq(EnsuresAll(L)) /\ AllHarmless(Writes(EnsuresAll(L)), s)
         /\ (\A o \in All(L) : Family(o) # "coreRole") => Fine(EnsuresAll(L), s)
<1>1. IsSeq(EnsuresAll(L)) /\ Asks(Writes(EnsuresAll(L)), All(L))
  BY EnsuresAllAre
<1>2. AllHarmless(Writes(EnsuresAll(L)), s)
  BY <1>1, HarmlessAsks
<1>3. ASSUME \A o \in All(L) : Family(o) # "coreRole"
      PROVE  InOrder(EnsuresAll(L), s)
  BY <1>1, <1>3, FreeAsks, FreeInOrder
<1> QED
  BY <1>1, <1>2, <1>3 DEF Fine

LEMMA StageFine ==
  ASSUME NEW s, NEW W, AllHarmless(W, s), Free(W, s)
  PROVE  Fine(<<W>>, s)
<1>1. IsSeq(<<W>>) /\ Writes(<<W>>) = W
  BY WritesOfFew
<1>2. InOrder(<<W>>, s)
  BY <1>1, FreeInOrder
<1> QED
  BY <1>1, <1>2 DEF Fine

LEMMA AsksFine ==
  ASSUME NEW s \in Specs, NEW W, NEW S, Asks(W, S), S \subseteq AskedFor(s),
         \A o \in S : Family(o) # "coreRole"
  PROVE  AllHarmless(W, s) /\ Free(W, s)
<1>1. AllHarmless(W, s)
  BY HarmlessAsks
<1>2. Free(W, s)
  BY FreeAsks
<1> QED
  BY <1>1, <1>2

LEMMA PartsAsked ==
  ASSUME NEW s \in Specs
  PROVE  /\ Members(Desired[s].accounts) \subseteq AskedFor(s)
         /\ All(Desired[s].namespaced) \subseteq AskedFor(s)
         /\ All(Desired[s].core) \subseteq AskedFor(s)
         /\ All(Desired[s].mcp) \subseteq AskedFor(s)
         /\ Desired[s].extra \subseteq AskedFor(s)
         /\ All(Desired[s].workflow) \subseteq AskedFor(s)
         /\ On(s, "ansible") => Members(Desired[s].awx) \subseteq AskedFor(s)
         /\ Members(Desired[s].toolRoles) \subseteq AskedFor(s)
         /\ Desired[s].tools \subseteq AskedFor(s)
         /\ Members(Desired[s].console) \subseteq AskedFor(s)
<1>1. On(s, "ansible") => If(On(s, "ansible"), Desired[s].awx) = Desired[s].awx
  BY DEF If
<1> DEFINE parts == {Members(Desired[s].accounts), All(Desired[s].namespaced), All(Desired[s].core),
                     All(Desired[s].mcp), Desired[s].extra, All(Desired[s].workflow),
                     Members(If(On(s, "ansible"), Desired[s].awx)), Members(Desired[s].toolRoles),
                     Desired[s].tools, Members(Desired[s].console)}
<1>2. AskedFor(s) = UNION parts
  BY DEF AskedFor
<1>3. \A S \in parts : S \subseteq AskedFor(s)
  <2> HIDE DEF parts
  <2> QED
    BY <1>2
<1>4. /\ Members(Desired[s].accounts) \in parts /\ All(Desired[s].namespaced) \in parts
      /\ All(Desired[s].core) \in parts /\ All(Desired[s].mcp) \in parts /\ Desired[s].extra \in parts
      /\ All(Desired[s].workflow) \in parts /\ Members(If(On(s, "ansible"), Desired[s].awx)) \in parts
      /\ Members(Desired[s].toolRoles) \in parts /\ Desired[s].tools \in parts
      /\ Members(Desired[s].console) \in parts
  OBVIOUS
<1> HIDE DEF parts
<1> QED
  BY <1>1, <1>3, <1>4

LEMMA NoCoreRoles ==
  ASSUME NEW s \in Specs
  PROVE  /\ \A o \in Members(Desired[s].accounts) : Family(o) # "coreRole"
         /\ \A o \in All(Desired[s].namespaced) : Family(o) # "coreRole"
         /\ \A o \in All(Desired[s].mcp) : Family(o) # "coreRole"
         /\ \A o \in Desired[s].extra : Family(o) # "coreRole"
         /\ \A o \in All(Desired[s].workflow) : Family(o) # "coreRole"
         /\ \A o \in Members(Desired[s].awx) : Family(o) # "coreRole"
         /\ \A o \in Members(Desired[s].toolRoles) : Family(o) # "coreRole"
         /\ \A o \in Desired[s].tools : Family(o) # "coreRole"
         /\ \A o \in Members(Desired[s].console) : Family(o) # "coreRole"
  BY Given, Families, SMT

\* The catalog role of the agent and its binding are in the lists of the namespace.
LEMMA CatalogAsked ==
  ASSUME NEW s \in Specs, NEW x \in {catalogRole("kubernaut-agent"), catalogBinding("kubernaut-agent")}
  PROVE  x \in All(Desired[s].namespaced)
<1>1. 1 \in DOMAIN catalogReaders /\ catalogReaders[1] = "kubernaut-agent"
  BY SMT DEF catalogReaders
<1>2. catalogRole("kubernaut-agent") \in Members(catalogRoles)
  BY <1>1 DEF Members, catalogRoles, catalogRole
<1>3. catalogBinding("kubernaut-agent") \in Members(catalogRoleBindings)
  BY <1>1 DEF Members, catalogRoleBindings, catalogBinding
<1>4. /\ Desired[s].namespaced[6] = catalogRoles /\ Desired[s].namespaced[7] = catalogRoleBindings
      /\ 6 \in DOMAIN Desired[s].namespaced /\ 7 \in DOMAIN Desired[s].namespaced
  BY Parts, SMT
<1> QED
  BY <1>2, <1>3, <1>4 DEF All

LEMMA CoreFine ==
  ASSUME NEW k \in CRType, NEW O \in SUBSET Universe
  PROVE  Fine(Work("core", k, O), k.spec)
<1> DEFINE s == k.spec
           accounts == deployServiceAccounts(s)
           namespaced == deployNamespacedCoreRBAC(s)
           core == deployClusterScopedCoreRBAC(s, O)
           mcp == deployMCPGatewayNamespaceRBAC(s, O)
           extra == deployAdditionalComponentRBAC(s, O)
<1>0. s \in Specs
  BY DEF CRType
<1> HIDE DEF s
<1>1. Fine(accounts, s)
  <2>1. AllHarmless(Ensures(Desired[s].accounts), s) /\ Free(Ensures(Desired[s].accounts), s)
    BY <1>0, EnsuresAre, AsksFine, PartsAsked, NoCoreRoles
  <2> QED
    BY <2>1, StageFine DEF deployServiceAccounts
<1>2. /\ Fine(namespaced, s)
      /\ \A x \in All(Desired[s].namespaced) : Ensured(x, Writes(namespaced))
  <2>1. DOMAIN Desired[s].namespaced = 1 .. 7 /\ 7 \in Nat
    BY <1>0, Parts, SMT
  <2>2. Fine(namespaced, s)
    BY <1>0, <2>1, EnsuresAllFine, PartsAsked, NoCoreRoles DEF deployNamespacedCoreRBAC
  <2>3. /\ Asks(Writes(namespaced), All(Desired[s].namespaced))
        /\ Covers(Writes(namespaced), All(Desired[s].namespaced))
    BY <2>1, EnsuresAllAre DEF deployNamespacedCoreRBAC
  <2> QED
    BY <2>2, <2>3 DEF Asks, Covers, Ensured
<1>3. /\ IsSeq(core) /\ AllHarmless(Writes(core), s)
      /\ \A w \in Writes(core) :
            Needed(w, s) \subseteq {catalogRole("kubernaut-agent"), catalogBinding("kubernaut-agent")}
  <2>1. DOMAIN Desired[s].core = 1 .. 2 /\ 2 \in Nat
    BY <1>0, Parts, SMT
  <2> DEFINE E == EnsuresAll(Desired[s].core)
             P == pruneUndesired(s, "core", O)
  <2>2. IsSeq(E) /\ AllHarmless(Writes(E), s)
    BY <1>0, <2>1, EnsuresAllFine, PartsAsked
  <2>3. Fine(P, s) /\ Free(Writes(P), s)
    BY <1>0, PruneFine
  <2>4. Asks(Writes(E), All(Desired[s].core))
    BY <2>1, EnsuresAllAre
  <2>5. core = E \o P
    BY DEF deployClusterScopedCoreRBAC
  <2> HIDE DEF E, P, core
  <2>6. IsSeq(core) /\ AllHarmless(Writes(core), s) /\ Writes(core) = Writes(E) \cup Writes(P)
    BY <2>2, <2>3, <2>5, HarmlessConcat, WritesConcat DEF Fine
  <2>7. \A w \in Writes(E) :
            Needed(w, s) \subseteq {catalogRole("kubernaut-agent"), catalogBinding("kubernaut-agent")}
    BY <2>4 DEF Asks, Needed
  <2>8. \A w \in Writes(P) : Needed(w, s) = {}
    BY <2>3 DEF Free
  <2> QED
    BY <2>6, <2>7, <2>8
<1>4. Fine(mcp, s)
  <2>1. DOMAIN Desired[s].mcp = 1 .. 2 /\ 2 \in Nat
    BY <1>0, Parts, SMT
  <2>2. Fine(EnsuresAll(Desired[s].mcp), s)
    BY <1>0, <2>1, EnsuresAllFine, PartsAsked, NoCoreRoles
  <2>3. Fine(pruneUndesired(s, "mcp", O), s)
    BY <1>0, PruneFine
  <2> QED
    BY <2>2, <2>3, FineConcat DEF deployMCPGatewayNamespaceRBAC
<1>5. Fine(extra, s)
  <2>1. AllHarmless(EnsuresOf(Desired[s].extra), s) /\ Free(EnsuresOf(Desired[s].extra), s)
    BY <1>0, EnsuresOfAre, AsksFine, PartsAsked, NoCoreRoles
  <2>2. Fine(<<EnsuresOf(Desired[s].extra)>>, s)
    BY <2>1, StageFine
  <2>3. Fine(pruneUndesired(s, "extra", O), s)
    BY <1>0, PruneFine
  <2> QED
    BY <2>2, <2>3, FineConcat DEF deployAdditionalComponentRBAC
<1>6. Work("core", k, O) = accounts \o (namespaced \o core \o mcp \o extra)
  BY DEF Work, deployCoreRBAC, s
<1> HIDE DEF accounts, namespaced, core, mcp, extra
<1>7. Fine(namespaced \o core, s)
  <2>1. InOrder(namespaced \o core, s)
    BY <1>0, <1>2, <1>3, CatalogAsked, OrderAfter DEF Fine
  <2>2. IsSeq(namespaced \o core) /\ AllHarmless(Writes(namespaced \o core), s)
    BY <1>2, <1>3, HarmlessConcat DEF Fine
  <2> QED
    BY <2>1, <2>2 DEF Fine
<1>8. Fine(namespaced \o core \o mcp, s)
  BY <1>7, <1>4, FineConcat
<1>9. Fine(namespaced \o core \o mcp \o extra, s)
  BY <1>8, <1>5, FineConcat
<1>10. Fine(accounts \o (namespaced \o core \o mcp \o extra), s)
  BY <1>1, <1>9, FineConcat
<1> QED
  BY <1>6, <1>10 DEF s

LEMMA Unwanted ==
  ASSUME NEW s \in Specs, NEW o, \A d \in Deployed[s] : Family(d) = Family(o) => Key(d) # Key(o)
  PROVE  Key(o) \notin Keys(Deployed[s])
<1>1. \A d : Key(d) = Key(o) => Family(d) = Family(o)
  BY SMT DEF Key, Family
<1> QED
  BY <1>1 DEF Keys

\* What the toggles delete is not wanted.
LEMMA AwxUnwanted ==
  ASSUME NEW s \in Specs, ~On(s, "ansible"), NEW o \in {AwxRole, AwxBinding(s)}
  PROVE  Key(o) \notin Keys(Deployed[s]) /\ Family(o) # "tool"
<1>1. \A x \in {AwxRole, AwxBinding(s)} : Family(x) = "awx"
  BY Families
<1>2. Family(o) = "awx"
  BY <1>1
<1> QED
  BY <1>1, Deployment, Unwanted

LEMMA StaleGatewayUnwanted ==
  ASSUME NEW s \in Specs, ~On(s, "gateway")
  PROVE  Key(staleGateway) \notin Keys(Deployed[s]) /\ Family(staleGateway) # "tool"
<1> DEFINE consumers == <<"aianalysis", "signalprocessing", "remediationorchestrator",
                          "workflowexecution", "effectivenessmonitor", "notification",
                          "kubernaut-agent", "authwebhook", "datastorage", "apifrontend">>
<1>1. Family(staleGateway) = "client"
  BY SMT DEF Family, FamilyAt, OfPair, staleGateway, Binding
<1>2. \A i \in DOMAIN consumers : consumers[i] # "gateway"
  BY SMT
<1>3. DataStorageClientRoleBindings(s) = [i \in DOMAIN consumers |-> storageClient(consumers[i])]
  <2>1. consumers \o <<>> = consumers
    BY SMT
  <2>2. If(On(s, "gateway"), <<"gateway">>) = <<>>
    BY DEF If
  <2> QED
    BY <2>1, <2>2 DEF DataStorageClientRoleBindings, storageClient
<1>4. \A c : Key(storageClient(c)) = Key(staleGateway) => c = "gateway"
  BY SMT DEF Key, storageClient, staleGateway, Binding
<1> HIDE DEF consumers
<1>5. \A d \in Members(DataStorageClientRoleBindings(s)) : Key(d) # Key(staleGateway)
  BY <1>2, <1>3, <1>4 DEF Members
<1> QED
  BY <1>1, <1>5, Deployment, Unwanted

LEMMA ToolUnwanted ==
  ASSUME NEW s \in Specs, NEW bound \in SUBSET {ToolName(r) : r \in Personas \cup ExtraRoles},
         NEW o \in byName(bound \ ToolCRBNames(s))
  PROVE  Key(o) \notin Keys(Deployed[s])
<1>1. PICK n \in bound \ ToolCRBNames(s) : o = Binding(Everywhere, n, "none", <<>>, {})
  BY DEF byName
<1>2. PICK r : n = ToolName(r)
  OBVIOUS
<1>3. Family(Binding(Everywhere, ToolName(r), "none", <<>>, {})) = "tool"
  BY SMT DEF Family, FamilyAt, ToolName, Binding
<1>4. \A d : Key(d) = Key(Binding(Everywhere, n, "none", <<>>, {})) => d.name = n
  BY SMT DEF Key, Binding
<1>5. \A d \in Desired[s].tools : d.name # n
  BY DEF ToolCRBNames
<1> QED
  BY <1>1, <1>2, <1>3, <1>4, <1>5, Deployment, Unwanted

LEMMA ConsoleUnwanted ==
  ASSUME NEW s \in Specs, Desired[s].console = <<>>
  PROVE  Key(consoleBinding(s)) \notin Keys(Deployed[s]) /\ Family(consoleBinding(s)) # "tool"
<1>1. Family(consoleBinding(s)) = "console"
  BY Families
<1>2. Members(Desired[s].console) = {}
  BY Empty
<1> QED
  BY <1>1, <1>2, Deployment, Unwanted

LEMMA GatewayAccountUnwanted ==
  ASSUME NEW s \in Specs, ~On(s, "gateway")
  PROVE  Key(gatewayAccount) \notin Keys(Deployed[s]) /\ Family(gatewayAccount) # "tool"
<1>1. gatewayAccount \in Pool(s) /\ Family(gatewayAccount) # "tool"
  <2>1. gatewayAccount \in Accounts(s)
    BY AllTheComponents DEF gatewayAccount, Accounts
  <2>2. Family(gatewayAccount) = "account"
    BY <2>1, Families
  <2> QED
    BY <2>1, <2>2, SMT DEF Pool
<1> QED
  BY <1>1, Unique, Deployment DEF Keys

LEMMA NoWrites ==
  ASSUME NEW s, NEW f  PROVE AllHarmless(Deletes(f, <<>>), s) /\ Free(Deletes(f, <<>>), s)
  BY SMT DEF Deletes, AllHarmless, Free

LEMMA DropsFine ==
  ASSUME NEW s \in Specs, NEW f, NEW W, NEW S, Drops(f, W, S),
         \A o \in S : Key(o) \notin Keys(Deployed[s]) /\ Family(o) # "tool"
  PROVE  AllHarmless(W, s) /\ Free(W, s)
  BY HarmlessDrops, FreeDrops

LEMMA DeletesOneFine ==
  ASSUME NEW s \in Specs, NEW f, NEW o, Key(o) \notin Keys(Deployed[s]), Family(o) # "tool"
  PROVE  AllHarmless(Deletes(f, <<o>>), s) /\ Free(Deletes(f, <<o>>), s)
<1>1. Members(<<o>>) = {o}
  BY Single
<1>2. Drops(f, Deletes(f, <<o>>), {o})
  BY <1>1, DeletesAre
<1> QED
  BY <1>2, DropsFine

LEMMA ToggleFine ==
  ASSUME NEW s \in Specs
  PROVE  Fine(deployToggleRBAC(s), s)
<1> DEFINE awx == IF On(s, "ansible") THEN Ensures(Desired[s].awx) ELSE Deletes("toggle", Desired[s].awx)
           gateway == Deletes("toggle", If(~On(s, "gateway"), <<staleGateway>>))
<1>1. AllHarmless(awx, s) /\ Free(awx, s)
  <2>1. CASE On(s, "ansible")
    <3>1. AllHarmless(Ensures(Desired[s].awx), s) /\ Free(Ensures(Desired[s].awx), s)
      BY <2>1, EnsuresAre, AsksFine, PartsAsked, NoCoreRoles
    <3> QED
      BY <2>1, <3>1
  <2>2. CASE ~On(s, "ansible")
    <3>1. Members(Desired[s].awx) = {AwxRole, AwxBinding(s)}
      BY Given
    <3>2. Drops("toggle", Deletes("toggle", Desired[s].awx), {AwxRole, AwxBinding(s)})
      BY <3>1, DeletesAre
    <3>3. \A o \in {AwxRole, AwxBinding(s)} : Key(o) \notin Keys(Deployed[s]) /\ Family(o) # "tool"
      BY <2>2, AwxUnwanted
    <3>4. AllHarmless(Deletes("toggle", Desired[s].awx), s) /\ Free(Deletes("toggle", Desired[s].awx), s)
      BY <3>2, <3>3, DropsFine
    <3> QED
      BY <2>2, <3>4
  <2> QED
    BY <2>1, <2>2
<1>2. AllHarmless(gateway, s) /\ Free(gateway, s)
  <2>1. CASE On(s, "gateway")
    BY <2>1, NoWrites DEF If
  <2>2. CASE ~On(s, "gateway")
    <3>1. AllHarmless(Deletes("toggle", <<staleGateway>>), s) /\ Free(Deletes("toggle", <<staleGateway>>), s)
      BY <2>2, StaleGatewayUnwanted, DeletesOneFine
    <3> QED
      BY <2>2, <3>1 DEF If
  <2> QED
    BY <2>1, <2>2
<1>3. deployToggleRBAC(s) = <<awx, gateway>>
  BY DEF deployToggleRBAC
<1> HIDE DEF awx, gateway
<1>4. IsSeq(<<awx, gateway>>) /\ Writes(<<awx, gateway>>) = awx \cup gateway
  BY WritesOfFew
<1>5. Free(Writes(<<awx, gateway>>), s) /\ AllHarmless(Writes(<<awx, gateway>>), s)
  BY <1>1, <1>2, <1>4 DEF AllHarmless, Free
<1> QED
  BY <1>3, <1>4, <1>5, FreeInOrder DEF Fine

LEMMA ToolRBACFine ==
  ASSUME NEW s \in Specs, NEW bound \in SUBSET {ToolName(r) : r \in Personas \cup ExtraRoles}
  PROVE  Fine(deployToolRBAC(s, bound), s)
<1> DEFINE roles == Ensures(Desired[s].toolRoles)
           bindings == EnsuresOf(Desired[s].tools)
           stale == DeletesOf("none", byName(bound \ ToolCRBNames(s)))
           X == Members(Desired[s].toolRoles) \cup Desired[s].tools
<1>1. AllHarmless(roles, s) /\ Free(roles, s)
  BY EnsuresAre, AsksFine, PartsAsked, NoCoreRoles
<1>2. AllHarmless(bindings, s) /\ Free(bindings, s)
  BY EnsuresOfAre, AsksFine, PartsAsked, NoCoreRoles
<1>3. Drops("none", stale, byName(bound \ ToolCRBNames(s)))
  BY DeletesOfAre
<1>4. AllHarmless(stale, s)
  <2>1. \A o \in byName(bound \ ToolCRBNames(s)) : Key(o) \notin Keys(Deployed[s])
    BY ToolUnwanted
  <2> QED
    BY <1>3, <2>1, HarmlessDrops
<1>5. \A w \in stale : Needed(w, s) \subseteq X
  BY <1>3 DEF Drops, Needed
<1>6. \A x \in X : Ensured(x, roles) \/ Ensured(x, bindings)
  <2>1. /\ Asks(roles, Members(Desired[s].toolRoles)) /\ Covers(roles, Members(Desired[s].toolRoles))
        /\ Asks(bindings, Desired[s].tools) /\ Covers(bindings, Desired[s].tools)
    BY EnsuresAre, EnsuresOfAre
  <2> QED
    BY <2>1, SMT DEF Asks, Covers, Ensured
<1>7. deployToolRBAC(s, bound) = <<roles, bindings, stale>>
  BY DEF deployToolRBAC
<1> HIDE DEF roles, bindings, stale, X
<1>8. <<roles, bindings, stale>> = <<roles, bindings>> \o <<stale>>
  BY SMT
<1> DEFINE A == <<roles, bindings>>
           B == <<stale>>
<1>9. IsSeq(A) /\ Writes(A) = roles \cup bindings /\ IsSeq(B) /\ Writes(B) = stale
  BY WritesOfFew
<1>10. AllHarmless(Writes(A), s) /\ Free(Writes(A), s) /\ AllHarmless(Writes(B), s)
  BY <1>1, <1>2, <1>4, <1>9 DEF AllHarmless, Free
<1>11. \A x \in X : Ensured(x, Writes(A))
  BY <1>6, <1>9 DEF Ensured
<1>12. \A w \in Writes(B) : Needed(w, s) \subseteq X
  BY <1>5, <1>9
<1> HIDE DEF A, B
<1>13. InOrder(A, s)
  BY <1>10, FreeInOrder
<1>14. InOrder(A \o B, s)
  BY <1>9, <1>11, <1>12, <1>13, OrderAfter
<1>15. IsSeq(A \o B) /\ AllHarmless(Writes(A \o B), s)
  BY <1>9, <1>10, HarmlessConcat
<1>16. deployToolRBAC(s, bound) = A \o B
  BY <1>7, <1>8 DEF A, B
<1> QED
  BY <1>14, <1>15, <1>16 DEF Fine

LEMMA ToolFine ==
  ASSUME NEW k \in CRType, NEW O
  PROVE  Fine(Work("tool", k, O), k.spec)
<1> DEFINE s == k.spec
           workflow == deployWorkflowRBAC(s)
           toggles == deployToggleRBAC(s)
           tools == deployToolRBAC(s, k.bound)
<1>0. s \in Specs /\ k.bound \in SUBSET {ToolName(r) : r \in Personas \cup ExtraRoles}
  BY DEF CRType
<1> HIDE DEF s
<1>1. Fine(workflow, s)
  <2>1. DOMAIN Desired[s].workflow = 1 .. 2 /\ 2 \in Nat
    BY <1>0, Parts, SMT
  <2> QED
    BY <1>0, <2>1, EnsuresAllFine, PartsAsked, NoCoreRoles DEF deployWorkflowRBAC
<1>2. Fine(toggles, s)
  BY <1>0, ToggleFine
<1>3. Fine(tools, s)
  BY <1>0, ToolRBACFine
<1>4. Work("tool", k, O) = workflow \o toggles \o tools
  BY DEF Work, s
<1> HIDE DEF workflow, toggles, tools
<1>5. Fine(workflow \o toggles, s)
  BY <1>1, <1>2, FineConcat
<1>6. Fine(workflow \o toggles \o tools, s)
  BY <1>5, <1>3, FineConcat
<1> QED
  BY <1>4, <1>6 DEF s

LEMMA ConsoleFine ==
  ASSUME NEW k \in CRType, NEW O
  PROVE  Fine(Work("console", k, O), k.spec)
<1> DEFINE s == k.spec
           W == IF Desired[s].console = <<>> THEN Deletes("none", <<consoleBinding(s)>>)
                ELSE Ensures(Desired[s].console)
<1>0. s \in Specs
  BY DEF CRType
<1>1. AllHarmless(W, s) /\ Free(W, s)
  <2>1. AllHarmless(Ensures(Desired[s].console), s) /\ Free(Ensures(Desired[s].console), s)
    BY <1>0, EnsuresAre, AsksFine, PartsAsked, NoCoreRoles
  <2>2. Desired[s].console = <<>> => /\ AllHarmless(Deletes("none", <<consoleBinding(s)>>), s)
                                     /\ Free(Deletes("none", <<consoleBinding(s)>>), s)
    BY <1>0, ConsoleUnwanted, DeletesOneFine
  <2> QED
    BY <2>1, <2>2
<1>2. Work("console", k, O) = <<W>>
  BY DEF Work, deployConsoleAccessRBAC
<1> QED
  BY <1>1, <1>2, StageFine

LEMMA WorkloadsFine ==
  ASSUME NEW k \in CRType, NEW O
  PROVE  Fine(Work("workloads", k, O), k.spec)
<1> DEFINE s == k.spec
           W == Deletes("gateway", If(~On(s, "gateway"), <<gatewayAccount>>))
<1>0. s \in Specs
  BY DEF CRType
<1>1. AllHarmless(W, s) /\ Free(W, s)
  <2>1. CASE On(s, "gateway")
    BY <2>1, NoWrites DEF If
  <2>2. CASE ~On(s, "gateway")
    <3>1. /\ AllHarmless(Deletes("gateway", <<gatewayAccount>>), s)
          /\ Free(Deletes("gateway", <<gatewayAccount>>), s)
      BY <1>0, <2>2, GatewayAccountUnwanted, DeletesOneFine
    <3> QED
      BY <2>2, <3>1 DEF If
  <2> QED
    BY <2>1, <2>2
<1>2. Work("workloads", k, O) = <<W>>
  BY DEF Work, cleanupDisabledGateway
<1> QED
  BY <1>1, <1>2, StageFine

PassParts == {"core", "tool", "console", "workloads"}

\* No part of a pass deletes what its spec asks for or writes anything else, and
\* each has its writes in order.
LEMMA PassFine ==
  ASSUME NEW k \in CRType, NEW O \in SUBSET Universe, NEW p \in PassParts
  PROVE  Fine(Work(p, k, O), k.spec)
  BY CoreFine, ToolFine, ConsoleFine, WorkloadsFine DEF PassParts

LEMMA HarmlessInUniverse ==
  ASSUME NEW s \in Specs, NEW w, Harmless(w, s)
  PROVE  w.op \in {"ensure", "delete"} /\ (w.op = "ensure" => w.obj \in Universe)
<1>1. Pool(s) \subseteq Universe
  BY DEF Universe
<1>2. gatewayAccount \in Pool(s)
  <2>1. gatewayAccount \in Accounts(s)
    BY AllTheComponents DEF gatewayAccount, Accounts
  <2> QED
    BY <2>1, SMT DEF Pool
<1>3. Deployed[s] \subseteq Pool(s)
  BY Deployment
<1> QED
  BY <1>1, <1>2, <1>3 DEF Harmless

--------------------------------------------------------------------------
(* The invariants.                                                         *)

TypeInv ==
  /\ cr \in CRType /\ kn \in CRType
  /\ pc \in {"idle", "core", "tool", "console", "workloads", "failing", "cleanup"}
  /\ objs \subseteq Universe
  /\ \A o, p \in objs : Key(o) = Key(p) => o = p
  /\ \A w \in Writes(todo) : /\ w.op \in {"ensure", "delete"}
                            /\ w.op = "ensure" => w.obj \in Universe
  /\ events \in 0 .. MaxEvents

\* The finalizer has a delete left for every object it has to remove.
Outside ==
  /\ pc = "cleanup" => /\ \A w \in Writes(todo) : w.op = "delete"
                       /\ \A o \in objs : \/ Excused(o, kn)
                                           \/ \E w \in Writes(todo) : Key(w.obj) = Key(o)
  /\ cr.state = "gone" => /\ pc = "idle" /\ todo = <<>>
                          /\ \A o \in objs : Excused(o, cr)

IInv == TypeInv /\ Outside

LEMMA Entered ==
  ASSUME NEW W, NEW O, NEW T, T = [i \in DOMAIN W |-> {w \in W[i] : Changes(w, O)}]
  PROVE  Writes(T) = {w \in Writes(W) : Changes(w, O)}
<1>1. DOMAIN T = DOMAIN W /\ \A i \in DOMAIN W : T[i] = {w \in W[i] : Changes(w, O)}
  OBVIOUS
<1>2. ASSUME NEW w \in Writes(T)  PROVE w \in Writes(W) /\ Changes(w, O)
  <2>1. PICK i \in DOMAIN W : w \in T[i]
    BY <1>1 DEF Writes, Members
  <2>2. w \in W[i] /\ Changes(w, O)
    BY <2>1, <1>1
  <2> QED
    BY <2>2 DEF Writes, Members
<1>3. ASSUME NEW w \in Writes(W), Changes(w, O)  PROVE w \in Writes(T)
  BY <1>1, <1>3 DEF Writes, Members
<1> QED
  BY <1>2, <1>3

LEMMA OneWritten ==
  ASSUME NEW T, NEW i \in DOMAIN T, NEW w, NEW U, DOMAIN U = DOMAIN T, U[i] = T[i] \ {w},
         \A j \in DOMAIN T : j # i => U[j] = T[j]
  PROVE  Writes(U) \subseteq Writes(T) /\ Writes(T) \subseteq Writes(U) \cup {w}
<1>2. ASSUME NEW v \in Writes(U)  PROVE v \in Writes(T)
  <2>1. PICK j \in DOMAIN T : v \in U[j]
    BY DEF Writes, Members
  <2>2. v \in T[j]
    BY <2>1
  <2> QED
    BY <2>2 DEF Writes, Members
<1>3. ASSUME NEW v \in Writes(T)  PROVE v \in Writes(U) \cup {w}
  <2>1. PICK j \in DOMAIN T : v \in T[j]
    BY DEF Writes, Members
  <2>2. v = w \/ v \in U[j]
    BY <2>1
  <2> QED
    BY <2>2 DEF Writes, Members
<1> QED
  BY <1>2, <1>3

LEMMA ToolNames ==
  ASSUME NEW s \in Specs  PROVE ToolCRBNames(s) \subseteq {ToolName(r) : r \in Personas \cup ExtraRoles}
<1>1. Desired[s].tools \subseteq ToolBindings(s)
  BY Given
<1>2. \A r : toolBinding(s, r).name = ToolName(r)
  BY DEF toolBinding, Binding, ToolName
<1> QED
  BY <1>1, <1>2 DEF ToolCRBNames, ToolBindings

LEMMA NoCRType == ASSUME NEW s \in Specs  PROVE NoCR \in CRType /\ NoCR.state = "gone"
<1>1. (CHOOSE x \in Specs : TRUE) \in Specs
  OBVIOUS
<1> QED
  BY <1>1, SMT DEF NoCR, CRType

LEMMA Nothing == Writes(<<>>) = {}
  BY Empty DEF Writes

\* What the previous release left has one object per key as well.
LEMMA PreviousUnique ==
  ASSUME NEW s \in Specs
  PROVE  /\ PreviousRelease(s) \subseteq Universe
         /\ \A o, p \in PreviousRelease(s) : Key(o) = Key(p) => o = p
<1> DEFINE agent == kubernautAgentInvestigatorClusterRole
<1>1. Deployed[s] \subseteq Pool(s)
  BY Deployment
<1>2. agent \in Pool(s)
  <2>1. agent \in CoreRoles(s)
    <3>1. agent = NamedRole(s, "kubernaut-agent-investigator")
      BY SMT DEF kubernautAgentInvestigatorClusterRole, NamedRole, RoleRights
    <3> QED
      BY <3>1 DEF CoreRoles, RoleNames
  <2> QED
    BY <2>1, SMT DEF Pool
<1>3. Key(OldAgent) = Key(agent)
  BY SMT DEF OldAgent, kubernautAgentInvestigatorClusterRole, ClusterRole, Role, Key
<1>4. \A o \in PreviousRelease(s) : o = OldAgent \/ (o \in Pool(s) /\ o # agent)
  BY <1>1 DEF PreviousRelease
<1>5. PreviousRelease(s) \subseteq Universe
  BY <1>4 DEF Universe
<1> HIDE DEF agent
<1>6. ASSUME NEW o \in PreviousRelease(s), NEW p \in PreviousRelease(s), Key(o) = Key(p)
      PROVE  o = p
  BY <1>2, <1>3, <1>4, <1>6, Unique
<1> QED
  BY <1>5, <1>6

LEMMA EnterPass ==
  ASSUME TypeInv, NEW p \in PassParts, NEW k \in CRType, Enter(p, k)
  PROVE  \A w \in Writes(todo') : Harmless(w, k.spec)
<1>1. Writes(todo') \subseteq Writes(Work(p, k, objs))
  <2>1. todo' = [i \in DOMAIN Work(p, k, objs) |-> {w \in Work(p, k, objs)[i] : Changes(w, objs)}]
    BY DEF Enter
  <2>2. Writes(todo') = {w \in Writes(Work(p, k, objs)) : Changes(w, objs)}
    BY <2>1, Entered
  <2> QED
    BY <2>2
<1>2. objs \in SUBSET Universe
  BY DEF TypeInv
<1> QED
  BY <1>1, <1>2, PassFine DEF Fine, AllHarmless

LEMMA EnterCleanup ==
  ASSUME TypeInv, NEW k \in CRType, Enter("cleanup", k)
  PROVE  /\ \A w \in Writes(todo') : w.op = "delete"
         /\ \A o \in objs : Excused(o, k) \/ \E w \in Writes(todo') : Key(w.obj) = Key(o)
<1> DEFINE W == Work("cleanup", k, objs)
<1>1. Writes(todo') = {w \in Writes(W) : Changes(w, objs)}
  <2>1. todo' = [i \in DOMAIN W |-> {w \in W[i] : Changes(w, objs)}]
    BY DEF Enter
  <2> HIDE DEF W
  <2> QED
    BY <2>1, Entered
<1>2. objs \in SUBSET Universe
  BY DEF TypeInv
<1>3. \A w \in Writes(W) : w.op = "delete"
  BY <1>2, Cleanup
<1>4. ASSUME NEW o \in objs, ~Excused(o, k)
      PROVE  \E w \in Writes(todo') : Key(w.obj) = Key(o)
  <2>1. PICK w \in Writes(W) : Key(w.obj) = Key(o)
    BY <1>2, <1>4, Cleanup
  <2>2. Changes(w, objs)
    BY <1>3, <2>1 DEF Changes
  <2> QED
    BY <1>1, <2>1, <2>2
<1> QED
  BY <1>1, <1>3, <1>4

LEMMA InitIInv == Init => IInv
<1> SUFFICES ASSUME Init  PROVE IInv
  OBVIOUS
<1>1. ASSUME NEW s \in Specs, NEW b \in SUBSET {ToolName(r) : r \in Personas \cup ExtraRoles},
             cr = [state |-> "live", spec |-> s, bound |-> b], objs \subseteq Universe,
             \A o, p \in objs : Key(o) = Key(p) => o = p
      PROVE  IInv
  <2>1. cr \in CRType /\ cr.state = "live"
    BY <1>1, SMT DEF CRType
  <2>2. kn \in CRType
    BY NoCRType DEF Init
  <2>3. pc = "idle" /\ todo = <<>> /\ events \in 0 .. MaxEvents
    BY EventsAssumption, SMT DEF Init
  <2> QED
    BY <1>1, <2>1, <2>2, <2>3, Nothing DEF IInv, TypeInv, Outside
<1>2. CASE \E s \in Created : /\ cr = [state |-> "live", spec |-> s, bound |-> {}]
                              /\ objs = {}
  BY <1>1, <1>2, SpecsAssumption
<1>3. CASE \E s \in Upgraded : /\ cr = [state |-> "live", spec |-> s, bound |-> ToolCRBNames(s)]
                               /\ objs = PreviousRelease(s)
  <2>1. PICK s \in Specs : /\ cr = [state |-> "live", spec |-> s, bound |-> ToolCRBNames(s)]
                           /\ objs = PreviousRelease(s)
    BY <1>3, SpecsAssumption
  <2> QED
    BY <1>1, <2>1, ToolNames, PreviousUnique
<1> QED
  BY <1>2, <1>3 DEF Init

\* A write keeps one object per key.
LEMMA ApplyUnique ==
  ASSUME NEW O \in SUBSET Universe, NEW w, w.op = "ensure" => w.obj \in Universe,
         \A o, p \in O : Key(o) = Key(p) => o = p
  PROVE  /\ Apply(w, O) \subseteq Universe
         /\ \A o, p \in Apply(w, O) : Key(o) = Key(p) => o = p
  BY DEF Apply

LEMMA NextIInv == IInv /\ [Next]_vars => IInv'
<1> SUFFICES ASSUME IInv, [Next]_vars  PROVE IInv'
  OBVIOUS
<1>0. /\ TypeInv /\ Outside /\ cr \in CRType /\ kn \in CRType /\ cr.spec \in Specs /\ kn.spec \in Specs
      /\ NoCR \in CRType
  BY NoCRType DEF IInv, TypeInv, CRType
<1>T. ASSUME cr' \in CRType, kn' = NoCR, pc' = "idle", todo' = <<>>, UNCHANGED objs,
             events' \in 0 .. MaxEvents
      PROVE  TypeInv'
  <2>1. Writes(todo') = {}
    BY <1>T, Nothing
  <2> QED
    BY <1>0, <1>T, <2>1 DEF TypeInv
<1>P. ASSUME NEW p \in PassParts, cr' \in CRType, cr'.state # "gone", Enter(p, cr'),
             UNCHANGED <<objs, events>>
      PROVE  IInv'
  <2>1. \A w \in Writes(todo') : Harmless(w, cr'.spec)
    BY <1>0, <1>P, EnterPass
  <2>2. cr'.spec \in Specs
    BY <1>P DEF CRType
  <2>3. \A w \in Writes(todo') : w.op \in {"ensure", "delete"} /\ (w.op = "ensure" => w.obj \in Universe)
    BY <2>1, <2>2, HarmlessInUniverse
  <2>4. pc' = p /\ kn' = cr' /\ p # "cleanup"
    BY <1>P DEF Enter, PassParts
  <2>5. TypeInv'
    BY <1>0, <1>P, <2>3, <2>4 DEF TypeInv, PassParts
  <2>6. Outside'
    BY <1>P, <2>4 DEF Outside
  <2> QED
    BY <2>5, <2>6 DEF IInv
<1>1. CASE Begin
  <2>1. UNCHANGED <<cr, objs, events>> /\ cr.state # "gone"
    BY <1>1 DEF Begin
  <2>2. CASE cr.state = "live"
    <3>1. Enter("core", cr')
      BY <1>1, <2>1, <2>2 DEF Begin
    <3> QED
      BY <1>0, <1>P, <2>1, <3>1 DEF PassParts
  <2>3. CASE cr.state # "live"
    <3>1. Enter("cleanup", cr)
      BY <1>1, <2>3 DEF Begin
    <3>2. /\ \A w \in Writes(todo') : w.op = "delete"
          /\ \A o \in objs : Excused(o, cr) \/ \E w \in Writes(todo') : Key(w.obj) = Key(o)
      BY <1>0, <3>1, EnterCleanup
    <3>3. pc' = "cleanup" /\ kn' = cr
      BY <3>1 DEF Enter
    <3>4. TypeInv'
      BY <1>0, <2>1, <3>2, <3>3 DEF TypeInv
    <3>5. Outside'
      BY <2>1, <3>2, <3>3 DEF Outside
    <3> QED
      BY <3>4, <3>5 DEF IInv
  <2> QED
    BY <2>2, <2>3
<1>2. CASE Write
  <2>1. PICK i \in DOMAIN todo : \E w \in todo[i] :
                /\ objs' = Apply(w, objs)
                /\ todo' = [todo EXCEPT ![i] = @ \ {w}]
    BY <1>2 DEF Write
  <2>2. PICK w \in todo[i] : /\ objs' = Apply(w, objs)
                              /\ todo' = [todo EXCEPT ![i] = @ \ {w}]
    BY <2>1
  <2>3. UNCHANGED <<cr, pc, kn, events>>
    BY <1>2 DEF Write
  <2>4. w \in Writes(todo)
    BY <2>2 DEF Writes, Members
  <2>5. Writes(todo') \subseteq Writes(todo) /\ Writes(todo) \subseteq Writes(todo') \cup {w}
    <3>1. /\ DOMAIN todo' = DOMAIN todo /\ todo'[i] = todo[i] \ {w}
          /\ \A j \in DOMAIN todo : j # i => todo'[j] = todo[j]
      BY <2>2
    <3> QED
      BY <3>1, OneWritten, SMT
  <2>6. objs' \subseteq Universe /\ \A o, p \in objs' : Key(o) = Key(p) => o = p
    BY <1>0, <2>2, <2>4, ApplyUnique DEF TypeInv
  <2>7. TypeInv'
    BY <1>0, <2>3, <2>5, <2>6 DEF TypeInv
  <2>8. ASSUME pc = "cleanup", NEW o \in objs', ~Excused(o, kn)
        PROVE  \E v \in Writes(todo') : Key(v.obj) = Key(o)
    <3>1. w.op = "delete"
      BY <1>0, <2>4, <2>8 DEF Outside
    <3>2. o \in objs /\ Key(o) # Key(w.obj)
      BY <2>2, <3>1 DEF Apply
    <3>3. PICK v \in Writes(todo) : Key(v.obj) = Key(o)
      BY <1>0, <2>8, <3>2 DEF Outside
    <3> QED
      BY <2>5, <3>2, <3>3
  <2>9. cr.state # "gone"
    BY <1>0, <2>4, Nothing DEF Outside
  <2>10. Outside'
    BY <1>0, <2>3, <2>5, <2>8, <2>9 DEF Outside
  <2> QED
    BY <2>7, <2>10 DEF IInv
<1>3. CASE PatchStatus
  <2>1. UNCHANGED <<objs, events>> /\ pc \in {"core", "tool", "console"}
    BY <1>3 DEF PatchStatus
  <2>2. cr.state # "gone"
    BY <1>0, <2>1 DEF Outside
  <2>3. cr' \in CRType /\ cr'.state = cr.state
    <3>1. cr' = cr \/ cr' = [cr EXCEPT !.bound = ToolCRBNames(kn.spec)]
      BY <1>3 DEF PatchStatus
    <3>2. ToolCRBNames(kn.spec) \subseteq {ToolName(r) : r \in Personas \cup ExtraRoles}
      BY <1>0, ToolNames
    <3> QED
      BY <1>0, <3>1, <3>2, SMT DEF CRType
  <2>4. \E p \in PassParts : Enter(p, cr')
    <3>1. Enter(CASE pc = "core" -> "tool" [] pc = "tool" -> "console" [] OTHER -> "workloads", cr')
      BY <1>3 DEF PatchStatus
    <3>2. (CASE pc = "core" -> "tool" [] pc = "tool" -> "console" [] OTHER -> "workloads") \in PassParts
      BY SMT DEF PassParts
    <3> QED
      BY <3>1, <3>2
  <2> QED
    BY <1>P, <2>1, <2>2, <2>3, <2>4
<1>4. CASE End \/ Restart
  <2>1. UNCHANGED <<cr, objs>> /\ Return /\ pc # "idle"
    BY <1>4 DEF End, Restart
  <2>2. events' \in 0 .. MaxEvents
    BY <1>0, <1>4, EventsAssumption, SMT DEF End, Restart, Event, TypeInv
  <2>3. TypeInv'
    BY <1>0, <1>T, <2>1, <2>2 DEF Return
  <2>4. cr.state # "gone"
    BY <1>0, <2>1 DEF Outside
  <2>5. Outside'
    BY <2>1, <2>4 DEF Outside, Return
  <2> QED
    BY <2>3, <2>5 DEF IInv
<1>5. CASE RemoveFinalizer
  <2>1. /\ UNCHANGED <<objs, events>> /\ pc = "cleanup" /\ AllWritten
        /\ pc' = "idle" /\ todo' = <<>> /\ kn' = NoCR
        /\ cr' = IF kn = cr THEN [cr EXCEPT !.state = "gone"] ELSE cr
    BY <1>5 DEF RemoveFinalizer, Return
  <2>2. cr' \in CRType /\ cr'.spec = cr.spec /\ cr'.bound = cr.bound
    BY <1>0, <2>1, SMT DEF CRType
  <2>3. events' \in 0 .. MaxEvents
    BY <1>0, <2>1 DEF TypeInv
  <2>4. TypeInv'
    BY <1>T, <2>1, <2>2, <2>3
  <2>5. Writes(todo) = {}
    BY <2>1 DEF AllWritten, Writes, Members
  <2>6. \A o \in objs : Excused(o, kn)
    BY <1>0, <2>1, <2>5 DEF Outside
  <2>7. CASE kn = cr
    <3>1. \A o \in objs : Excused(o, cr')
      BY <2>2, <2>6, <2>7 DEF Excused
    <3> QED
      BY <2>1, <2>4, <3>1 DEF IInv, Outside
  <2>8. CASE kn # cr
    <3>1. cr.state # "gone"
      BY <1>0, <2>1 DEF Outside
    <3> QED
      BY <2>1, <2>4, <2>8, <3>1 DEF IInv, Outside
  <2> QED
    BY <2>7, <2>8
<1>6. CASE FailDelete
  <2>1. PICK i \in DOMAIN todo : \E w \in todo[i] :
            todo' = [j \in DOMAIN todo |-> {v \in todo[j] : v.family = w.family /\ v # w}]
    BY <1>6 DEF FailDelete
  <2>2. PICK w \in todo[i] :
            todo' = [j \in DOMAIN todo |-> {v \in todo[j] : v.family = w.family /\ v # w}]
    BY <2>1
  <2>3. pc' = "failing" /\ UNCHANGED <<cr, objs, kn>>
    BY <1>6 DEF FailDelete
  <2>4. events' \in 0 .. MaxEvents
    BY <1>0, <1>6, EventsAssumption, SMT DEF FailDelete, TypeInv
  <2>5. Writes(todo') \subseteq Writes(todo)
    <3>1. DOMAIN todo' = DOMAIN todo /\ \A j \in DOMAIN todo : todo'[j] \subseteq todo[j]
      BY <2>2
    <3> QED
      BY <3>1 DEF Writes, Members
  <2>6. TypeInv'
    BY <1>0, <2>3, <2>4, <2>5 DEF TypeInv
  <2>7. w \in Writes(todo)
    BY <2>2 DEF Writes, Members
  <2>8. cr.state # "gone"
    BY <1>0, <2>7, Nothing DEF Outside
  <2>9. Outside'
    BY <2>3, <2>8 DEF Outside
  <2> QED
    BY <2>6, <2>9 DEF IInv
<1>7. CASE EditCR \/ DeleteCR
  <2>1. UNCHANGED <<objs, pc, todo, kn>>
    BY <1>7 DEF EditCR, DeleteCR
  <2>2. events' \in 0 .. MaxEvents
    BY <1>0, <1>7, EventsAssumption, SMT DEF EditCR, DeleteCR, Event, TypeInv
  <2>3. cr' \in CRType /\ cr'.state # "gone"
    BY <1>0, <1>7, SMT DEF EditCR, DeleteCR, CRType
  <2>4. TypeInv'
    BY <1>0, <2>1, <2>2, <2>3 DEF TypeInv
  <2>5. Outside'
    BY <1>0, <2>1, <2>3 DEF Outside
  <2> QED
    BY <2>4, <2>5 DEF IInv
<1>8. CASE UNCHANGED vars
  BY <1>0, <1>8 DEF IInv, TypeInv, Outside, vars
<1> QED
  BY <1>1, <1>2, <1>3, <1>4, <1>5, <1>6, <1>7, <1>8 DEF Next, Reconciler

LEMMA Safe == Spec => []IInv
  BY InitIInv, NextIInv, PTL DEF Spec

\* A pass and the finalizer keep one object per key, whatever specs there are.
THEOREM PermissionsType == Spec => []TypeOK
<1>1. IInv => TypeOK
  BY DEF IInv, TypeInv, TypeOK, CRType
<1> QED
  BY <1>1, Safe, PTL

\* When deleteClusterScopedResources is through and the finalizer is off, nothing
\* of the CR is left outside its namespace, however many specs came before.
THEOREM CleanupComplete == Spec => []NothingLeftOutside
<1>1. IInv => NothingLeftOutside
  BY DEF IInv, Outside, NothingLeftOutside, Excused, GivenUp, Unrecorded
<1> QED
  BY <1>1, Safe, PTL

--------------------------------------------------------------------------
(* The order of the writes.                                                *)

Before(x, i, O, T) == x \in O \/ \E j \in DOMAIN T : j < i /\ Ensured(x, T[j])

\* What is left to do is harmless, and what it counts on is there or comes first.
Ordered ==
  /\ pc = "cleanup" => kn.state # "live"
  /\ kn.state = "live" =>
       \A i \in DOMAIN todo : \A w \in todo[i] :
          Harmless(w, kn.spec) /\ \A x \in Needed(w, kn.spec) : Before(x, i, objs, todo)

LEMMA NeededDeployed ==
  ASSUME NEW s \in Specs, NEW w, NEW x \in Needed(w, s)
  PROVE  x \in Deployed[s]
<1>1. x \in AskedFor(s)
  BY CatalogAsked, PartsAsked DEF Needed
<1>2. Family(gatewayAccount) = "account"
  BY SMT DEF Family, FamilyAt, gatewayAccount, ServiceAccount
<1>3. Family(x) # "account"
  <2>1. CASE x \in {catalogRole("kubernaut-agent"), catalogBinding("kubernaut-agent")}
    <3>1. x \in CatalogRoles \/ x \in CatalogBindings
      BY <2>1, AllTheComponents DEF CatalogRoles, CatalogBindings
    <3> QED
      BY <3>1, Families
  <2>2. CASE x \in Members(Desired[s].toolRoles)
    <3>1. x \in ToolRoles
      BY <2>2, Given
    <3> QED
      BY <3>1, Families
  <2>3. CASE x \in Desired[s].tools
    <3>1. x \in ToolBindings(s)
      BY <2>3, Given
    <3> QED
      BY <3>1, Families
  <2> QED
    BY <2>1, <2>2, <2>3 DEF Needed
<1> QED
  BY <1>1, <1>2, <1>3, DeployedIs

LEMMA HarmlessInPool ==
  ASSUME NEW s \in Specs, NEW w, Harmless(w, s), w.op = "ensure"
  PROVE  w.obj \in Pool(s)
<1>1. gatewayAccount \in Pool(s)
  <2>1. gatewayAccount \in Accounts(s)
    BY AllTheComponents DEF gatewayAccount, Accounts
  <2> QED
    BY <2>1, SMT DEF Pool
<1>2. Deployed[s] \subseteq Pool(s)
  BY Deployment
<1> QED
  BY <1>1, <1>2 DEF Harmless

\* A harmless write keeps what the spec asks for.
LEMMA Kept ==
  ASSUME NEW s \in Specs, NEW w, Harmless(w, s), NEW O, NEW x \in O, x \in Deployed[s]
  PROVE  x \in Apply(w, O)
<1>1. CASE w.op = "delete"
  BY <1>1 DEF Harmless, Keys, Apply
<1>2. CASE w.op = "ensure"
  <2>1. x \in Pool(s)
    BY Deployment
  <2>2. w.obj \in Pool(s)
    BY <1>2, HarmlessInPool
  <2> QED
    BY <1>2, <2>1, <2>2, Unique DEF Apply
<1> QED
  BY <1>1, <1>2 DEF Harmless

LEMMA EnterOrdered ==
  ASSUME TypeInv, NEW p \in PassParts, NEW k \in CRType, Enter(p, k)
  PROVE  \A i \in DOMAIN todo' : \A w \in todo'[i] :
            Harmless(w, k.spec) /\ \A x \in Needed(w, k.spec) : Before(x, i, objs, todo')
<1> DEFINE W == Work(p, k, objs)
           T == [i \in DOMAIN W |-> {w \in W[i] : Changes(w, objs)}]
<1>1. todo' = T
  BY DEF Enter
<1>2. Fine(W, k.spec)
  <2>1. objs \in SUBSET Universe
    BY DEF TypeInv
  <2> QED
    BY <2>1, PassFine
<1> HIDE DEF W
<1>3. DOMAIN T = DOMAIN W /\ \A i \in DOMAIN W : T[i] = {w \in W[i] : Changes(w, objs)}
  OBVIOUS
<1> HIDE DEF T
<1>4. ASSUME NEW i \in DOMAIN T, NEW w \in T[i]  PROVE Harmless(w, k.spec)
  <2>1. w \in Writes(W)
    BY <1>3 DEF Writes, Members
  <2> QED
    BY <1>2, <2>1 DEF Fine, AllHarmless
<1>5. ASSUME NEW i \in DOMAIN T, NEW w \in T[i], NEW x \in Needed(w, k.spec), x \notin objs
      PROVE  \E j \in DOMAIN T : j < i /\ Ensured(x, T[j])
  <2>1. i \in DOMAIN W /\ w \in W[i]
    BY <1>3
  <2>2. PICK j \in DOMAIN W : j < i /\ Ensured(x, W[j])
    BY <1>2, <2>1 DEF Fine, InOrder
  <2>3. PICK v \in W[j] : v.op = "ensure" /\ v.obj = x
    BY <2>2 DEF Ensured
  <2>4. Changes(v, objs)
    BY <1>5, <2>3 DEF Changes
  <2>5. v \in T[j] /\ j \in DOMAIN T
    BY <1>3, <2>4
  <2> QED
    BY <2>2, <2>3, <2>5 DEF Ensured
<1> QED
  BY <1>1, <1>4, <1>5 DEF Before

LEMMA InitOrdered == Init => Ordered
<1> SUFFICES ASSUME Init  PROVE Ordered
  OBVIOUS
<1>1. pc = "idle" /\ kn = NoCR
  BY DEF Init
<1>2. NoCR.state = "gone"
  BY DEF NoCR
<1> QED
  BY <1>1, <1>2 DEF Ordered

LEMMA NextOrdered == IInv /\ Ordered /\ [Next]_vars => Ordered'
<1> SUFFICES ASSUME IInv, Ordered, [Next]_vars  PROVE Ordered'
  OBVIOUS
<1>0. TypeInv /\ TypeInv' /\ cr \in CRType /\ cr' \in CRType /\ kn \in CRType /\ kn.spec \in Specs
  BY NextIInv DEF IInv, TypeInv, CRType
<1>P. ASSUME NEW p \in PassParts, Enter(p, cr'), UNCHANGED objs
      PROVE  Ordered'
  <2>1. \A i \in DOMAIN todo' : \A w \in todo'[i] :
           /\ Harmless(w, cr'.spec)
           /\ \A x \in Needed(w, cr'.spec) : Before(x, i, objs, todo')
    BY <1>0, <1>P, EnterOrdered
  <2>2. pc' = p /\ kn' = cr' /\ p # "cleanup"
    BY <1>P DEF Enter, PassParts
  <2>3. ASSUME NEW i \in DOMAIN todo', NEW w \in todo'[i]
        PROVE  /\ Harmless(w, kn'.spec)
               /\ \A x \in Needed(w, kn'.spec) : Before(x, i, objs', todo')
    BY <1>P, <2>1, <2>2
  <2> QED
    BY <2>2, <2>3 DEF Ordered
<1>1. CASE Begin
  <2>1. UNCHANGED <<cr, objs>>
    BY <1>1 DEF Begin
  <2>2. CASE cr.state = "live"
    <3>1. Enter("core", cr')
      BY <1>1, <2>1, <2>2 DEF Begin
    <3> QED
      BY <1>P, <2>1, <3>1 DEF PassParts
  <2>3. CASE cr.state # "live"
    <3>1. kn' = cr
      BY <1>1 DEF Begin, Enter
    <3> QED
      BY <2>3, <3>1 DEF Ordered
  <2> QED
    BY <2>2, <2>3
<1>2. CASE Write
  <2>1. PICK i \in DOMAIN todo : \E w \in todo[i] :
                objs' = Apply(w, objs) /\ todo' = [todo EXCEPT ![i] = @ \ {w}]
    BY <1>2 DEF Write
  <2>2. PICK w \in todo[i] : objs' = Apply(w, objs) /\ todo' = [todo EXCEPT ![i] = @ \ {w}]
    BY <2>1
  <2>3. UNCHANGED <<pc, kn>>
    BY <1>2 DEF Write
  <2>4. /\ DOMAIN todo' = DOMAIN todo /\ todo'[i] = todo[i] \ {w}
        /\ \A j \in DOMAIN todo : j # i => todo'[j] = todo[j]
    BY <2>2
  <2>5. /\ \A j \in DOMAIN todo : todo'[j] \subseteq todo[j]
        /\ \A j \in DOMAIN todo : \A u \in todo[j] : u = w \/ u \in todo'[j]
    BY <2>4
  <2> SUFFICES ASSUME kn.state = "live", NEW j \in DOMAIN todo, NEW v \in todo'[j]
               PROVE  /\ Harmless(v, kn.spec)
                      /\ \A x \in Needed(v, kn.spec) : Before(x, j, objs', todo')
    BY <2>3, <2>4 DEF Ordered
  <2>6. v \in todo[j]
    BY <2>5
  <2>7. Harmless(v, kn.spec) /\ Harmless(w, kn.spec)
    BY <2>6 DEF Ordered
  <2>8. ASSUME NEW x \in Needed(v, kn.spec)  PROVE Before(x, j, objs', todo')
    <3>1. Before(x, j, objs, todo)
      BY <2>6 DEF Ordered
    <3>2. CASE x \in objs
      <4>1. x \in Deployed[kn.spec]
        BY <1>0, NeededDeployed
      <4>2. x \in objs'
        BY <1>0, <2>2, <2>7, <3>2, <4>1, Kept
      <4> QED
        BY <4>2 DEF Before
    <3>3. CASE \E h \in DOMAIN todo : h < j /\ Ensured(x, todo[h])
      <4>1. PICK h \in DOMAIN todo : h < j /\ Ensured(x, todo[h])
        BY <3>3
      <4>2. PICK u \in todo[h] : u.op = "ensure" /\ u.obj = x
        BY <4>1 DEF Ensured
      <4>3. CASE u = w
        <5>1. x \in objs'
          BY <2>2, <4>2, <4>3 DEF Apply
        <5> QED
          BY <5>1 DEF Before
      <4>4. CASE u \in todo'[h]
        <5>1. Ensured(x, todo'[h])
          BY <4>2, <4>4 DEF Ensured
        <5> QED
          BY <2>4, <4>1, <5>1 DEF Before
      <4> QED
        BY <2>5, <4>3, <4>4
    <3> QED
      BY <3>1, <3>2, <3>3 DEF Before
  <2> QED
    BY <2>7, <2>8
<1>3. CASE PatchStatus
  <2>1. UNCHANGED objs
    BY <1>3 DEF PatchStatus
  <2>2. Enter(CASE pc = "core" -> "tool" [] pc = "tool" -> "console" [] OTHER -> "workloads", cr')
    BY <1>3 DEF PatchStatus
  <2>3. (CASE pc = "core" -> "tool" [] pc = "tool" -> "console" [] OTHER -> "workloads") \in PassParts
    BY SMT DEF PassParts
  <2> QED
    BY <1>P, <2>1, <2>2, <2>3
<1>4. CASE End \/ Restart \/ RemoveFinalizer
  <2>1. pc' = "idle" /\ kn' = NoCR
    BY <1>4 DEF End, Restart, RemoveFinalizer, Return
  <2>2. NoCR.state = "gone"
    BY DEF NoCR
  <2> QED
    BY <2>1, <2>2 DEF Ordered
<1>5. CASE FailDelete
  <2>1. PICK i \in DOMAIN todo : \E w \in todo[i] :
            /\ w.family # "none"
            /\ todo' = [j \in DOMAIN todo |-> {v \in todo[j] : v.family = w.family /\ v # w}]
    BY <1>5 DEF FailDelete
  <2>2. PICK w \in todo[i] :
            /\ w.family # "none"
            /\ todo' = [j \in DOMAIN todo |-> {v \in todo[j] : v.family = w.family /\ v # w}]
    BY <2>1
  <2>3. pc' = "failing" /\ kn' = kn
    BY <1>5 DEF FailDelete
  <2>4. /\ DOMAIN todo' = DOMAIN todo
        /\ \A j \in DOMAIN todo : \A v \in todo'[j] : v \in todo[j] /\ v.family # "none"
    BY <2>2
  <2>5. ASSUME kn.state = "live", NEW j \in DOMAIN todo, NEW v \in todo'[j]
        PROVE  Harmless(v, kn.spec) /\ Needed(v, kn.spec) = {}
    <3>1. Harmless(v, kn.spec) /\ v.family # "none"
      BY <2>4, <2>5 DEF Ordered
    <3> QED
      BY <3>1 DEF Harmless, Needed
  <2> QED
    BY <2>3, <2>4, <2>5 DEF Ordered
<1>6. CASE EditCR \/ DeleteCR \/ UNCHANGED vars
  <2>1. UNCHANGED <<objs, pc, todo, kn>>
    BY <1>6 DEF EditCR, DeleteCR, vars
  <2> QED
    BY <2>1 DEF Ordered
<1> QED
  BY <1>1, <1>2, <1>3, <1>4, <1>5, <1>6 DEF Next, Reconciler

LEMMA InOrderAlways == Spec => [](IInv /\ Ordered)
<1>1. Init => IInv /\ Ordered
  BY InitIInv, InitOrdered
<1>2. (IInv /\ Ordered) /\ [Next]_vars => (IInv /\ Ordered)'
  BY NextIInv, NextOrdered
<1> QED
  BY <1>1, <1>2, PTL DEF Spec

=============================================================================
