----------------------------- MODULE Permissions -----------------------------
(***************************************************************************)
(* What the components may do.  The builders of rbac.go turn a spec into   *)
(* ServiceAccounts, roles and bindings; deployRBAC brings the cluster from *)
(* the objects of one spec to those of the next, one write at a time, and  *)
(* the finalizer removes what no owner reference ties to the CR.  The      *)
(* question is which rights are held meanwhile and afterwards.             *)
(*                                                                         *)
(* Abstractions: the rules of a role are one right named after it, except  *)
(* where they vary (the reads of the MCP Gateway's resources) or a comment *)
(* speaks of them (the reads of the workflow catalog).  Names go without   *)
(* the prefix of the CR's namespace, and a ServiceAccount has the name of  *)
(* its component.  A write that would change nothing is no step.  A List   *)
(* shows the live objects, and every object is the operator's own          *)
(* (ClusterRBAC has the caches, ResourceEngine the ownership).             *)
(***************************************************************************)
EXTENDS Naturals, Sequences

CONSTANTS
    Specs,          \* the specs a CR may have, see SpecType
    Created,        \* those it may be created with
    Upgraded,       \* those it may have had under the previous release
    ExtraRoles,     \* ClusterRoles of administrators
    Groups,         \* groups of users
    MaxEvents       \* edits, deletion, failed calls and crashes

ASSUME EventsAssumption == MaxEvents \in Nat

VARIABLES
    cr,             \* the live CR: state, spec, status.boundToolRoleBindings
    objs,           \* the objects that exist
    pc,             \* part of the reconcile
    todo,           \* writes left in this part, by stages
    kn,             \* the CR the reconcile works with
    events

vars == <<cr, objs, pc, todo, kn, events>>

Everywhere == "everywhere"
Home == "kn"        \* the namespace of the CR
Openshift == "openshift-monitoring"

Features == {"gateway", "apifrontend", "fmc", "remote", "ansible"}
toolPersonas == <<"sre", "cicd">>
Personas == {"sre", "cicd"}
GatewayTypes == {"kuadrant", "envoy"}

\* mcp: spec.fleet.mcpGateway.namespace; console: an optional set of groups
SpecType == [on : SUBSET Features, mcp : {Everywhere, "mcp1", "mcp2"},
             type : GatewayTypes, wf : {"wf1", "wf2"}, extra : SUBSET ExtraRoles,
             tools : SUBSET ((Personas \cup ExtraRoles) \X Groups),
             console : SUBSET (SUBSET Groups)]

ASSUME SpecsAssumption == Specs \subseteq SpecType /\ Created \cup Upgraded \subseteq Specs

On(s, f) == f \in s.on
If(c, seq) == IF c THEN seq ELSE <<>>

\* What a list holds; its domain may have gaps
Members(list) == {list[i] : i \in DOMAIN list}

--------------------------------------------------------------------------
(* Objects.                                                                *)

Role(ns, name, label, rights) ==
    [kind |-> "Role", ns |-> ns, name |-> name, label |-> label,
     rights |-> rights, role |-> <<>>, subjects |-> {}]

Binding(ns, name, label, role, subjects) ==
    [kind |-> "Binding", ns |-> ns, name |-> name, label |-> label,
     rights |-> {}, role |-> role, subjects |-> subjects]

Key(o) == <<o.kind, o.ns, o.name>>

ServiceAccount(ns, name) ==
    [kind |-> "ServiceAccount", ns |-> ns, name |-> <<name>>, label |-> "none",
     rights |-> {}, role |-> <<>>, subjects |-> {}]

SA(c) == <<Home, c>>
Group(g) == <<"group", g>>
Runner(s) == <<s.wf, "kubernaut-workflow-runner">>

\* markCoreClusterRBAC labels everything ClusterRoles and ClusterRoleBindings give
ClusterRole(name, rights) == Role(Everywhere, <<name>>, "core", rights)
clusterRoleBinding(name, role, subject) ==
    Binding(Everywhere, <<name>>, "core", <<Everywhere, <<role>> >>, {subject})

\* Roles of the platform and of administrators, which are always there
BuiltIn == {"view", "cluster-monitoring-view"}

\* Names the operator gives to its ClusterRoles, after the prefix of the namespace,
\* and to their bindings for personas, and what its roles allow.  The role of an
\* administrator is none of them, and none of those of the platform.
Reserved ==
    Personas \cup BuiltIn \cup GatewayTypes
    \cup {"aianalysis-controller", "kubernaut-agent-client", "kubernaut-agent-investigator",
          "signalprocessing-controller", "remediationorchestrator-controller",
          "workflowexecution-controller", "workflow-runner", "effectivenessmonitor-controller",
          "notification-controller", "data-storage-auth-middleware", "data-storage-client",
          "authwebhook-role", "gateway-role", "alertmanager-view", "gateway-signal-source",
          "apifrontend-role", "console-access", "fleetmetadatacache",
          "fleetmetadatacache-auth-middleware", "fmc-scope-check-client",
          "fleet-caller-node-reader", "fleet-caller-workflow-execution", "workflowexecution-awx"}
    \cup {"aianalysis", "use-agent", "investigate", "signalprocessing", "remediation",
          "workflowexecution", "run-workflows", "effectiveness", "notification", "review-tokens",
          "use-datastorage", "authwebhook", "gateway", "read-alerts", "send-signals",
          "apifrontend", "use-console", "check-scopes", "read-nodes", "execute-remotely",
          "read-configuration", "read-catalog", "read-dependencies", "write-workflows",
          "run-awx-jobs", "use-tools"}

ASSUME ExtraRolesAssumption == ExtraRoles \cap Reserved = {}

AllComponents ==
    <<"gateway", "datastorage", "aianalysis", "signalprocessing",
      "remediationorchestrator", "workflowexecution", "effectivenessmonitor",
      "notification", "kubernaut-agent", "authwebhook", "apifrontend",
      "fleetmetadatacache">>

isComponentActive(s, c) == /\ c = "gateway" => On(s, "gateway")
                           /\ c = "apifrontend" => On(s, "apifrontend")
                           /\ c = "fleetmetadatacache" => On(s, "fmc")

\* Components keep their places, so that those switched off leave gaps
ActiveComponents(s) ==
    [i \in {j \in DOMAIN AllComponents : isComponentActive(s, AllComponents[j])} |-> AllComponents[i]]

--------------------------------------------------------------------------
(* Cluster-scoped roles.                                                   *)

mcpGatewayRemoteReadsEnabled(s) == On(s, "remote")
fleetCallerRBACEnabled(s) == mcpGatewayRemoteReadsEnabled(s)

\* The reads of the MCP Gateway's resources, which depend on its type
mcpGatewayCRDPolicyRules(type) == {type}

\* Rules that stay in the ClusterRole as long as no namespace is configured
remoteReads(s) ==
    IF mcpGatewayRemoteReadsEnabled(s) /\ s.mcp = Everywhere
    THEN mcpGatewayCRDPolicyRules(s.type) ELSE {}

gatewayClusterRole == ClusterRole("gateway-role", {"gateway"})
aianalysisControllerClusterRole == ClusterRole("aianalysis-controller", {"aianalysis"})
kubernautAgentClientClusterRole == ClusterRole("kubernaut-agent-client", {"use-agent"})
kubernautAgentInvestigatorClusterRole ==
    ClusterRole("kubernaut-agent-investigator", {"investigate"})
signalprocessingClusterRole(s) ==
    ClusterRole("signalprocessing-controller", {"signalprocessing"} \cup remoteReads(s))
remediationOrchestratorClusterRole ==
    ClusterRole("remediationorchestrator-controller", {"remediation"})
workflowExecutionControllerClusterRole ==
    ClusterRole("workflowexecution-controller", {"workflowexecution"})
workflowRunnerClusterRole == ClusterRole("workflow-runner", {"run-workflows"})
effectivenessMonitorControllerClusterRole(s) ==
    ClusterRole("effectivenessmonitor-controller", {"effectiveness"} \cup remoteReads(s))
notificationControllerClusterRole ==
    ClusterRole("notification-controller", {"notification"})
dataStorageAuthMiddlewareClusterRole ==
    ClusterRole("data-storage-auth-middleware", {"review-tokens"})
dataStorageClientClusterRole == ClusterRole("data-storage-client", {"use-datastorage"})
authWebhookClusterRole == ClusterRole("authwebhook-role", {"authwebhook"})
alertmanagerViewClusterRole == ClusterRole("alertmanager-view", {"read-alerts"})
gatewaySignalSourceClusterRole == ClusterRole("gateway-signal-source", {"send-signals"})
apifrontendClusterRole(s) ==
    ClusterRole("apifrontend-role", {"apifrontend"} \cup remoteReads(s))
ConsoleAccessClusterRole == ClusterRole("console-access", {"use-console"})
fleetMetadataCacheClusterRole(s) ==
    ClusterRole("fleetmetadatacache", mcpGatewayCRDPolicyRules(s.type))
fleetMetadataCacheAuthMiddlewareClusterRole ==
    ClusterRole("fleetmetadatacache-auth-middleware", {"review-tokens"})
fmcScopeCheckClientClusterRole == ClusterRole("fmc-scope-check-client", {"check-scopes"})
fleetCallerNodeReaderClusterRole == ClusterRole("fleet-caller-node-reader", {"read-nodes"})
fleetCallerWorkflowExecutionClusterRole ==
    ClusterRole("fleet-caller-workflow-execution", {"execute-remotely"})

ClusterRoles(s) ==
    <<aianalysisControllerClusterRole, kubernautAgentClientClusterRole,
      kubernautAgentInvestigatorClusterRole, signalprocessingClusterRole(s),
      remediationOrchestratorClusterRole, workflowExecutionControllerClusterRole,
      workflowRunnerClusterRole, effectivenessMonitorControllerClusterRole(s),
      notificationControllerClusterRole, dataStorageAuthMiddlewareClusterRole,
      dataStorageClientClusterRole, authWebhookClusterRole>>
    \o If(On(s, "gateway"), <<gatewayClusterRole>>)
    \o <<alertmanagerViewClusterRole>>
    \o If(On(s, "gateway"), <<gatewaySignalSourceClusterRole>>)
    \o If(On(s, "apifrontend"), <<apifrontendClusterRole(s), ConsoleAccessClusterRole>>)
    \o If(On(s, "fmc") /\ s.mcp = Everywhere, <<fleetMetadataCacheClusterRole(s)>>)
    \o If(On(s, "fmc"), <<fleetMetadataCacheAuthMiddlewareClusterRole,
                          fmcScopeCheckClientClusterRole>>)
    \o If(fleetCallerRBACEnabled(s), <<fleetCallerNodeReaderClusterRole,
                                       fleetCallerWorkflowExecutionClusterRole>>)

--------------------------------------------------------------------------
(* Cluster-scoped bindings.                                                *)

monitoringClusterRoleBindings(s) ==
    <<clusterRoleBinding("effectivenessmonitor-alertmanager-view-binding",
                         "alertmanager-view", SA("effectivenessmonitor")),
      clusterRoleBinding("effectivenessmonitor-monitoring-view",
                         "cluster-monitoring-view", SA("effectivenessmonitor")),
      clusterRoleBinding("kubernaut-agent-monitoring-view",
                         "cluster-monitoring-view", SA("kubernaut-agent")),
      clusterRoleBinding("kubernaut-agent-alertmanager-view-binding",
                         "alertmanager-view", SA("kubernaut-agent"))>>
    \o If(On(s, "gateway"),
          <<clusterRoleBinding("alertmanager-gateway-signal-source",
                               "gateway-signal-source", <<Openshift, "alertmanager-main">>)>>)
    \o If(On(s, "apifrontend"),
          <<clusterRoleBinding("apifrontend-monitoring-view",
                               "cluster-monitoring-view", SA("apifrontend"))>>)

\* component, role and name of the unconditional bindings
coreBindings ==
    << <<"aianalysis", "aianalysis-controller", "aianalysis-controller-binding">>,
       <<"kubernaut-agent", "kubernaut-agent-investigator", "kubernaut-agent-investigator-binding">>,
       <<"kubernaut-agent", "data-storage-auth-middleware", "kubernaut-agent-auth-middleware-binding">>,
       <<"signalprocessing", "signalprocessing-controller", "signalprocessing-controller-binding">>,
       <<"remediationorchestrator", "remediationorchestrator-controller", "remediationorchestrator-controller-binding">>,
       <<"workflowexecution", "workflowexecution-controller", "workflowexecution-controller-binding">>,
       <<"effectivenessmonitor", "effectivenessmonitor-controller", "effectivenessmonitor-controller-binding">>,
       <<"notification", "notification-controller", "notification-controller-binding">>,
       <<"datastorage", "data-storage-auth-middleware", "data-storage-auth-middleware-binding">>,
       <<"authwebhook", "authwebhook-role", "authwebhook-binding">> >>

fleetMetadataCacheClusterRoleBinding ==
    clusterRoleBinding("fleetmetadatacache-binding", "fleetmetadatacache",
                       SA("fleetmetadatacache"))

groupClusterRoleBinding(name, role, group) == clusterRoleBinding(name, role, Group(group))

ClusterRoleBindings(s) ==
    [i \in DOMAIN coreBindings |->
        clusterRoleBinding(coreBindings[i][3], coreBindings[i][2], SA(coreBindings[i][1]))]
    \o <<clusterRoleBinding("workflow-runner-binding", "workflow-runner", Runner(s))>>
    \o If(On(s, "gateway"),
          <<clusterRoleBinding("gateway-role-binding", "gateway-role", SA("gateway"))>>)
    \o monitoringClusterRoleBindings(s)
    \o If(On(s, "apifrontend"),
          <<clusterRoleBinding("apifrontend-binding", "apifrontend-role", SA("apifrontend"))>>)
    \o If(On(s, "fmc") /\ s.mcp = Everywhere, <<fleetMetadataCacheClusterRoleBinding>>)
    \o If(On(s, "fmc"),
          <<clusterRoleBinding("fleetmetadatacache-auth-middleware-binding",
                               "fleetmetadatacache-auth-middleware", SA("fleetmetadatacache"))>>)
    \o If(On(s, "fmc") /\ On(s, "gateway"),
          <<clusterRoleBinding("gateway-fmc-scope-check-client",
                               "fmc-scope-check-client", SA("gateway"))>>)
    \o If(On(s, "fmc"),
          <<clusterRoleBinding("remediationorchestrator-fmc-scope-check-client",
                               "fmc-scope-check-client", SA("remediationorchestrator"))>>)
    \o If(fleetCallerRBACEnabled(s),
          <<groupClusterRoleBinding("fleet-caller-read-view-binding", "view", "fleet-read"),
            groupClusterRoleBinding("fleet-caller-read-node-reader-binding",
                                    "fleet-caller-node-reader", "fleet-read"),
            groupClusterRoleBinding("fleet-caller-execution-binding",
                                    "fleet-caller-workflow-execution", "fleet-execution")>>)

--------------------------------------------------------------------------
(* RBAC inside a namespace: a role and its binding for one component.      *)

NamespaceRoles(s) ==
    [i \in DOMAIN ActiveComponents(s) |->
        Role(Home, <<ActiveComponents(s)[i], "ns-role">>, "none", {"read-configuration"})]

NamespaceRoleBindings(s) ==
    [i \in DOMAIN ActiveComponents(s) |->
        LET c == ActiveComponents(s)[i]
        IN  Binding(Home, <<c, "ns-rolebinding">>, "none", <<Home, <<c, "ns-role">> >>, {SA(c)})]

\* Every consumer of DataStorage, the API Frontend whether it is on or not
DataStorageClientRoleBindings(s) ==
    LET consumers == <<"aianalysis", "signalprocessing", "remediationorchestrator",
                       "workflowexecution", "effectivenessmonitor", "notification",
                       "kubernaut-agent", "authwebhook", "datastorage", "apifrontend">>
                     \o If(On(s, "gateway"), <<"gateway">>)
    IN  [i \in DOMAIN consumers |->
            Binding(Home, <<consumers[i], "data-storage-client">>, "none",
                    <<Everywhere, <<"data-storage-client">> >>, {SA(consumers[i])})]

agentClient(c) == Binding(Home, <<c, "kubernaut-agent-client">>, "none",
                          <<Everywhere, <<"kubernaut-agent-client">> >>, {SA(c)})
KubernautAgentClientRoleBinding == agentClient("aianalysis")
KubernautAgentClientAPIfrontendRoleBinding == agentClient("apifrontend")

catalogReaders == <<"kubernaut-agent", "authwebhook", "workflowexecution">>

\* Catalog permissions are in the namespace of the CR, not in the workflow namespace.
catalogRoles ==
    [i \in DOMAIN catalogReaders |->
        Role(Home, <<catalogReaders[i], "workflow-catalog">>, "none", {"read-catalog"})]
catalogRoleBindings ==
    [i \in DOMAIN catalogReaders |->
        Binding(Home, <<catalogReaders[i], "workflow-catalog-binding">>, "none",
                <<Home, <<catalogReaders[i], "workflow-catalog">> >>, {SA(catalogReaders[i])})]
TrustedWorkflowCatalogRBAC == <<catalogRoles, catalogRoleBindings>>

WorkflowNamespaceRBAC(s) ==
    LET grants == << <<"datastorage", SA("datastorage"), "read-dependencies">>,
                     <<"workflowexecution", SA("workflowexecution"), "read-dependencies">>,
                     <<"runner", Runner(s), "write-workflows">> >>
    IN  <<[i \in DOMAIN grants |->
              Role(s.wf, <<grants[i][1], "workflow">>, "none", {grants[i][3]})],
          [i \in DOMAIN grants |->
              Binding(s.wf, <<grants[i][1], "workflow-binding">>, "none",
                      <<s.wf, <<grants[i][1], "workflow">> >>, {grants[i][2]})]>>

\* The reads of the MCP Gateway's resources, once its namespace is configured
MCPGatewayNamespaceRBAC(s) ==
    LET grants == If(On(s, "fmc"), <<"fleetmetadatacache">>)
                  \o If(mcpGatewayRemoteReadsEnabled(s),
                        <<"signalprocessing", "apifrontend", "effectivenessmonitor">>)
        active == If(s.mcp # Everywhere, grants)
    IN  <<[i \in DOMAIN active |->
              Role(s.mcp, <<active[i], "mcpgateway">>, "mcp", mcpGatewayCRDPolicyRules(s.type))],
          [i \in DOMAIN active |->
              Binding(s.mcp, <<active[i], "mcpgateway-binding">>, "mcp",
                      <<s.mcp, <<active[i], "mcpgateway">> >>, {SA(active[i])})]>>

--------------------------------------------------------------------------
(* RBAC a spec asks for explicitly.                                        *)

AnsibleRBAC(s) ==
    <<Role(Everywhere, <<"workflowexecution-awx">>, "none", {"run-awx-jobs"}),
      Binding(Everywhere, <<"workflowexecution-awx-binding">>, "none",
              <<Everywhere, <<"workflowexecution-awx">> >>, {Runner(s)})>>

additionalRBACComponents(s) ==
    <<"kubernaut-agent", "effectivenessmonitor">> \o If(On(s, "gateway"), <<"gateway">>)

AdditionalComponentCRB(c, r) ==
    Binding(Everywhere, <<c, "ext", r>>, "extra", <<Everywhere, <<r>> >>, {SA(c)})

additionalBindings(s) ==
    {AdditionalComponentCRB(c, r) : c \in Members(additionalRBACComponents(s)), r \in s.extra}

ToolClusterRoles(s) ==
    If(On(s, "apifrontend"),
       [i \in DOMAIN toolPersonas |->
           Role(Everywhere, <<"tool", toolPersonas[i]>>, "none", {"use-tools"})])

\* Entries for the same role are merged; a persona is a role of the operator, a
\* custom role one of an administrator.  The API Frontend may be off.
toolBinding(s, r) ==
    Binding(Everywhere, <<"tool", r, "binding">>, "none",
            <<Everywhere, IF r \in Personas THEN <<"tool", r>> ELSE <<r>> >>,
            {Group(b[2]) : b \in {x \in s.tools : x[1] = r}})

ToolClusterRoleBindings(s) == {toolBinding(s, b[1]) : b \in s.tools}

\* An explicit list, which may be empty, or else the groups of the role bindings
effectiveConsoleAccessGroups(s) ==
    IF s.console # {} THEN UNION s.console ELSE {b[2] : b \in s.tools}

consoleBinding(s) ==
    Binding(Everywhere, <<"console-access-binding">>, "none",
            <<Everywhere, <<"console-access">> >>,
            {Group(g) : g \in effectiveConsoleAccessGroups(s)})

ConsoleAccessClusterRoleBinding(s) ==
    If(On(s, "apifrontend") /\ effectiveConsoleAccessGroups(s) # {}, <<consoleBinding(s)>>)

\* pruneStaleGatewayRBAC and cleanupDisabledGateway delete these by name.
staleGateway == Binding(Home, <<"gateway", "data-storage-client">>, "none", <<>>, {})
gatewayAccount == ServiceAccount(Home, "gateway")

ServiceAccounts(s) ==
    [i \in DOMAIN AllComponents |-> ServiceAccount(Home, AllComponents[i])]
    \o <<ServiceAccount(s.wf, "kubernaut-workflow-runner")>>

\* What the builders give for each spec, by the loops that write it; the order of
\* bindings that come from a set of the spec is arbitrary.
Desired ==
    [s \in Specs |->
        [accounts   |-> ServiceAccounts(s),
         namespaced |-> <<NamespaceRoles(s), NamespaceRoleBindings(s),
                          DataStorageClientRoleBindings(s), <<KubernautAgentClientRoleBinding>>,
                          If(On(s, "apifrontend"), <<KubernautAgentClientAPIfrontendRoleBinding>>)>>
                        \o TrustedWorkflowCatalogRBAC,
         core       |-> <<ClusterRoles(s), ClusterRoleBindings(s)>>,
         mcp        |-> MCPGatewayNamespaceRBAC(s),
         extra      |-> additionalBindings(s),
         workflow   |-> WorkflowNamespaceRBAC(s),
         awx        |-> AnsibleRBAC(s),
         toolRoles  |-> ToolClusterRoles(s),
         tools      |-> ToolClusterRoleBindings(s),
         console    |-> ConsoleAccessClusterRoleBinding(s)]]

All(lists) == UNION {Members(lists[i]) : i \in DOMAIN lists}

\* Keys by which the prunes tell what is wanted
Keys(S) == {Key(o) : o \in S}
Wanted == [s \in Specs |-> [core  |-> Keys(All(Desired[s].core)), mcp |-> Keys(All(Desired[s].mcp)),
                            extra |-> Keys(Desired[s].extra)]]

--------------------------------------------------------------------------
(* Writes of a reconcile: a sequence of stages, the loops of the code, and *)
(* the place of a write in its loop.  A delete names its family: the       *)
(* deletes all tried before an error of one of them is returned.           *)

ensure(o, i) == [op |-> "ensure", obj |-> o, family |-> "none", place |-> i]
delete(family, o, i) == [op |-> "delete", obj |-> o, family |-> family, place |-> i]

Ensures(list) == {ensure(list[i], i) : i \in DOMAIN list}
Deletes(family, list) == {delete(family, list[i], i) : i \in DOMAIN list}
EnsuresAll(lists) == [i \in DOMAIN lists |-> Ensures(lists[i])]

\* In the order of a set
EnsuresOf(S) == {ensure(o, 0) : o \in S}
DeletesOf(family, S) == {delete(family, o, 0) : o \in S}

\* What a List by label finds is deleted, roles before bindings, without the keys to keep
DeletesListed(family, label, O, keep) ==
    LET Found(kind) == {o \in O : o.label = label /\ o.kind = kind /\ Key(o) \notin keep}
    IN  <<DeletesOf(family, Found("Role")), DeletesOf(family, Found("Binding"))>>

\* Mutant: names are compared without their namespaces.
PruneByName(s, label, O) ==
    DeletesListed(label, label, O, {<<w[1], ns, w[3]>> : w \in Wanted[s][label],
                                                        ns \in {Everywhere, "mcp1", "mcp2"}})

\* pruneUndesired and pruneUndesiredNamespaced
pruneUndesired(s, label, O) == DeletesListed(label, label, O, Wanted[s][label])

deployServiceAccounts(s) == <<Ensures(Desired[s].accounts)>>
deployNamespacedCoreRBAC(s) == EnsuresAll(Desired[s].namespaced)

deployClusterScopedCoreRBAC(s, O) ==
    EnsuresAll(Desired[s].core) \o pruneUndesired(s, "core", O)
deployMCPGatewayNamespaceRBAC(s, O) ==
    EnsuresAll(Desired[s].mcp) \o pruneUndesired(s, "mcp", O)
deployAdditionalComponentRBAC(s, O) ==
    <<EnsuresOf(Desired[s].extra)>> \o pruneUndesired(s, "extra", O)

\* Mutant: the cluster-scoped roles are updated first.
ClusterFirst(s, O) ==
    deployClusterScopedCoreRBAC(s, O) \o deployNamespacedCoreRBAC(s)
    \o deployMCPGatewayNamespaceRBAC(s, O) \o deployAdditionalComponentRBAC(s, O)

deployCoreRBAC(s, O) ==
    deployNamespacedCoreRBAC(s) \o deployClusterScopedCoreRBAC(s, O)
    \o deployMCPGatewayNamespaceRBAC(s, O) \o deployAdditionalComponentRBAC(s, O)

deployWorkflowRBAC(s) == EnsuresAll(Desired[s].workflow)

deployToggleRBAC(s) ==
    <<IF On(s, "ansible") THEN Ensures(Desired[s].awx) ELSE Deletes("toggle", Desired[s].awx),
      Deletes("toggle", If(~On(s, "gateway"), <<staleGateway>>))>>

ToolCRBNames(s) == {o.name : o \in Desired[s].tools}

byName(names) == {Binding(Everywhere, n, "none", <<>>, {}) : n \in names}

deployToolRBAC(s, bound) ==
    <<Ensures(Desired[s].toolRoles), EnsuresOf(Desired[s].tools),
      DeletesOf("none", byName(bound \ ToolCRBNames(s)))>>

deployConsoleAccessRBAC(s) ==
    <<IF Desired[s].console = <<>> THEN Deletes("none", <<consoleBinding(s)>>)
      ELSE Ensures(Desired[s].console)>>

cleanupDisabledGateway(s) ==
    <<Deletes("gateway", If(~On(s, "gateway"), <<gatewayAccount>>))>>

\* With nothing to keep
DeleteListed(label, O) == DeletesListed("cleanup", label, O, {})
DeleteNamed(list) == Deletes("cleanup", list)

\* ToolClusterRoleNames does not ask whether there is an API Frontend.
WithFrontend(s) == [s EXCEPT !.on = @ \cup {"apifrontend"}]

deleteWorkflowResources(s) ==
    <<DeleteNamed(Desired[s].workflow[1]), DeleteNamed(Desired[s].workflow[2]),
      DeleteNamed(<<ServiceAccount(s.wf, "kubernaut-workflow-runner")>>)>>

\* By label, by fixed name and by the names in the status
deleteAdditionalAgentAndToolRBAC(k, O) ==
    DeleteListed("extra", O)
    \o <<DeleteNamed(ToolClusterRoles(WithFrontend(k.spec))),
         DeletesOf("cleanup", byName(k.bound)), DeleteNamed(<<consoleBinding(k.spec)>>)>>

\* Mutant: the AWX objects are removed only if the last spec had them.
DeleteAnsibleIfOn(k, O) ==
    DeleteListed("core", O)
    \o <<DeleteNamed(If(On(k.spec, "ansible"), Desired[k.spec].awx))>>
    \o deleteAdditionalAgentAndToolRBAC(k, O) \o DeleteListed("mcp", O)
    \o deleteWorkflowResources(k.spec)

\* deleteRBACResources and deleteWorkflowResources.  The monitoring objects, which
\* are deleted by name as well, bear the label of the core.
deleteClusterScopedResources(k, O) ==
    DeleteListed("core", O) \o <<DeleteNamed(Desired[k.spec].awx)>>
    \o deleteAdditionalAgentAndToolRBAC(k, O) \o DeleteListed("mcp", O)
    \o deleteWorkflowResources(k.spec)

Work(p, k, O) ==
    CASE p = "core"      -> deployServiceAccounts(k.spec) \o deployCoreRBAC(k.spec, O)
      [] p = "tool"      -> deployWorkflowRBAC(k.spec) \o deployToggleRBAC(k.spec)
                            \o deployToolRBAC(k.spec, k.bound)
      [] p = "console"   -> deployConsoleAccessRBAC(k.spec)
      [] p = "workloads" -> cleanupDisabledGateway(k.spec)
      [] p = "cleanup"   -> deleteClusterScopedResources(k, O)

--------------------------------------------------------------------------
(* The reconciler.                                                         *)

Changes(w, O) == IF w.op = "ensure" THEN w.obj \notin O
                 ELSE \E o \in O : Key(o) = Key(w.obj)

Apply(w, O) == {o \in O : Key(o) # Key(w.obj)} \cup (IF w.op = "ensure" THEN {w.obj} ELSE {})

Enter(p, k) ==
    /\ pc' = p
    /\ kn' = k
    /\ LET W == Work(p, k, objs)
       IN  todo' = [i \in DOMAIN W |-> {w \in W[i] : Changes(w, objs)}]

AllWritten == \A i \in DOMAIN todo : todo[i] = {}

\* w, of stage i, is the next write.  Which of several with the same place
\* comes first is not said: TLC explores one order, the proofs are for any.
Due(i, w) == /\ \A j \in DOMAIN todo : j < i => todo[j] = {}
             /\ w = CHOOSE x \in todo[i] : \A y \in todo[i] : x.place <= y.place

NoCR == [state |-> "gone", spec |-> CHOOSE s \in Specs : TRUE, bound |-> {}]

Return == pc' = "idle" /\ todo' = <<>> /\ kn' = NoCR

Begin ==
    /\ pc = "idle" /\ cr.state # "gone"
    /\ Enter(IF cr.state = "live" THEN "core" ELSE "cleanup", cr)
    /\ UNCHANGED <<cr, objs, events>>

Write ==
    \E i \in DOMAIN todo : \E w \in todo[i] :
        /\ Due(i, w)
        /\ objs' = Apply(w, objs)
        /\ todo' = [todo EXCEPT ![i] = @ \ {w}]
        /\ UNCHANGED <<cr, pc, kn, events>>

\* A delete fails: the others of its family are still tried, then the error is returned.
FailDelete ==
    \E i \in DOMAIN todo : \E w \in todo[i] :
        /\ Due(i, w) /\ w.family # "none" /\ events < MaxEvents
        /\ events' = events + 1
        /\ pc' = "failing"
        /\ todo' = [j \in DOMAIN todo |-> {v \in todo[j] : v.family = w.family /\ v # w}]
        /\ UNCHANGED <<cr, objs, kn>>

\* Status patches return the live CR, and the reconcile goes on with it: after the
\* additional bindings, with the names of the tool bindings, and before the workloads.
PatchStatus ==
    /\ AllWritten /\ pc \in {"core", "tool", "console"}
    /\ cr' = IF pc = "tool" THEN [cr EXCEPT !.bound = ToolCRBNames(kn.spec)] ELSE cr
    /\ Enter(CASE pc = "core" -> "tool" [] pc = "tool" -> "console" [] OTHER -> "workloads", cr')
    /\ UNCHANGED <<objs, events>>

End ==
    /\ AllWritten /\ pc \in {"workloads", "failing"}
    /\ Return
    /\ UNCHANGED <<cr, objs, events>>

\* Update fails with a conflict if the CR has changed since it was read.
RemoveFinalizer ==
    /\ AllWritten /\ pc = "cleanup"
    /\ cr' = IF kn = cr THEN [cr EXCEPT !.state = "gone"] ELSE cr
    /\ Return
    /\ UNCHANGED <<objs, events>>

Reconciler == Begin \/ Write \/ PatchStatus \/ End \/ RemoveFinalizer

--------------------------------------------------------------------------
(* The environment.                                                        *)

Event == events < MaxEvents /\ events' = events + 1

EditCR ==
    /\ Event /\ cr.state # "gone"
    /\ \E s \in Specs \ {cr.spec} : cr' = [cr EXCEPT !.spec = s]
    /\ UNCHANGED <<objs, pc, todo, kn>>

DeleteCR ==
    /\ Event /\ cr.state = "live"
    /\ cr' = [cr EXCEPT !.state = "terminating"]
    /\ UNCHANGED <<objs, pc, todo, kn>>

\* The operator restarts, or a call fails whose error is returned at once.
Restart ==
    /\ Event /\ pc # "idle"
    /\ Return
    /\ UNCHANGED <<cr, objs>>

Next == Reconciler \/ FailDelete \/ EditCR \/ DeleteCR \/ Restart

\* What a whole pass leaves, and what the previous release left: there the
\* ClusterRole of the agent held the reads of the catalog.
AskedFor(s) ==
    LET d == Desired[s]
    IN  UNION {Members(d.accounts), All(d.namespaced), All(d.core), All(d.mcp), d.extra,
               All(d.workflow), Members(If(On(s, "ansible"), d.awx)), Members(d.toolRoles),
               d.tools, Members(d.console)}

Deployed ==
    [s \in Specs |-> AskedFor(s) \ (IF On(s, "gateway") THEN {} ELSE {gatewayAccount})]

OldAgent == ClusterRole("kubernaut-agent-investigator", {"investigate", "read-catalog"})

PreviousRelease(s) ==
    (Deployed[s] \ (All(TrustedWorkflowCatalogRBAC) \cup {kubernautAgentInvestigatorClusterRole}))
    \cup {OldAgent}

Init ==
    /\ \/ \E s \in Created : /\ cr = [state |-> "live", spec |-> s, bound |-> {}]
                             /\ objs = {}
       \/ \E s \in Upgraded : /\ cr = [state |-> "live", spec |-> s, bound |-> ToolCRBNames(s)]
                              /\ objs = PreviousRelease(s)
    /\ pc = "idle" /\ todo = <<>> /\ kn = NoCR /\ events = 0

Spec == Init /\ [][Next]_vars

\* The requeue timer and the retries of failed reconciles
FairSpec == Spec /\ WF_vars(Reconciler)

--------------------------------------------------------------------------
(* Rights.                                                                 *)

Bindings(O) == {o \in O : o.kind = "Binding"}

RightsOf(role, O) ==
    {r \in BuiltIn \cup ExtraRoles : role = <<Everywhere, <<r>> >>}
    \cup UNION {o.rights : o \in {x \in O : x.kind = "Role" /\ <<x.ns, x.name>> = role}}

\* subject, right and the namespace it is for
Held(O) == UNION {b.subjects \X RightsOf(b.role, O) \X {b.ns} : b \in Bindings(O)}

\* What the bindings that a write changes, or whose role it changes, gave before
Lost(O, P) ==
    LET changed == O \ P
        hit == {b \in Bindings(O) : \E o \in changed :
                   o = b \/ (o.kind = "Role" /\ <<o.ns, o.name>> = b.role)}
    IN  UNION {b.subjects \X RightsOf(b.role, O) \X {b.ns} : b \in hit}

Holds(g, held) == g \in held \/ <<g[1], g[2], Everywhere>> \in held

Granted == [s \in Specs |-> Held(Deployed[s])]

\* Objects that no prune looks for: in a workflow namespace given up; a tool
\* binding whose pass did not get to the status patch; in the namespace of the CR,
\* those of a component switched off; the persona roles without an API Frontend.
\* The account of a disabled gateway is created and deleted again in every pass.
GivenUp(o) == o.ns \in {"wf1", "wf2"} \ {cr.spec.wf}
Unrecorded(o) == Len(o.name) = 3 /\ o.name[1] = "tool" /\ o.name \notin cr.bound
Retained(o) ==
    \/ GivenUp(o) \/ Unrecorded(o)
    \/ /\ o.ns = Home /\ Len(o.name) = 2
       /\ o.name[2] \in {"ns-role", "ns-rolebinding", "kubernaut-agent-client"}
       /\ o.name[1] \in {"gateway", "apifrontend", "fleetmetadatacache"}
    \/ o.kind = "Role" /\ Len(o.name) = 2 /\ o.name[1] = "tool" /\ ~On(cr.spec, "apifrontend")
    \/ o = gatewayAccount /\ ~On(cr.spec, "gateway")

--------------------------------------------------------------------------
(* Properties.                                                             *)

\* Type invariant of the RBAC deployment.
TypeOK ==
    /\ cr.state \in {"live", "terminating", "gone"} /\ cr.spec \in Specs
    /\ pc \in {"idle", "core", "tool", "console", "workloads", "failing", "cleanup"}
    /\ \A o, p \in objs : Key(o) = Key(p) => o = p
    /\ events \in 0 .. MaxEvents

\* No write takes from anybody a right that the spec being deployed grants: the
\* order of deployCoreRBAC keeps the catalog readable through an upgrade, tool
\* bindings are written before stale ones are deleted, and prunes touch nothing
\* that is wanted.  Two exceptions: a configured namespace drops the reads of the
\* MCP Gateway from the ClusterRole first, and a group that goes from one persona
\* to another may be out of the first binding before it is in the second.
Moved(g) == g[2] \in GatewayTypes /\ kn.spec.mcp # Everywhere
Regrouped(g) ==
    g[2] = "use-tools" /\ \E b \in Bindings(objs), d \in Desired[kn.spec].tools :
                              Key(b) = Key(d) /\ g[1] \in b.subjects \ d.subjects
KeepsWhatIsWanted ==
    [][kn.state = "live" =>
          \A r \in Lost(objs, objs') : \A g \in Granted[kn.spec] :
              Holds(g, {r}) => Moved(g) \/ Regrouped(g) \/ Holds(g, Held(objs'))]_vars

\* A CR that is left alone ends up with what its spec asks for, as the builders
\* give it, and with nothing else, whatever specs came before and wherever their
\* passes stopped, apart from what no prune looks for.
GrantsMatchSpec ==
    <>[](cr.state = "live" => /\ Deployed[cr.spec] \subseteq objs
                              /\ \A o \in objs \ Deployed[cr.spec] : Retained(o))

\* When the finalizer is off, nothing of the CR is left outside its namespace,
\* where owner references take care of it (deleteClusterScopedResources), except
\* in a workflow namespace given up earlier and for unrecorded tool bindings.
NothingLeftOutside ==
    cr.state = "gone" => \A o \in objs : o.ns = Home \/ GivenUp(o) \/ Unrecorded(o)

=============================================================================
