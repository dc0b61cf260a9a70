------------------------- MODULE WantedRightsProofs -------------------------
(***************************************************************************)
(* No write takes away a right that the spec grants: the proof of          *)
(* KeepsWhatIsWanted of Permissions, for every set of specs, of            *)
(* namespaces, groups and administrators' roles.                           *)
(*                                                                         *)
(* A right has one source: the name of a role tells the most that the role *)
(* may give, and the name of the one binding that gives it to a subject,   *)
(* apart from the catalog, the types of the MCP Gateway and the tools,     *)
(* which have several.  Lemmas say for each of these four kinds of right   *)
(* what survives a single write, given that what the write needs is in     *)
(* place; the invariant Ordered provides that.                             *)
(***************************************************************************)
EXTENDS PermissionsProofs, TLAPS

\* A step is for Zenon, unless it names another prover.
USE Zenon

--------------------------------------------------------------------------
(* Rights: which a role may give, and which binding gives them.            *)

\* The most a cluster-scoped role holds under any spec
OwnRights(n) ==
  CASE n = "aianalysis-controller" -> {"aianalysis"}
    [] n = "kubernaut-agent-client" -> {"use-agent"}
    [] n = "kubernaut-agent-investigator" -> {"investigate", "read-catalog"}
    [] n = "signalprocessing-controller" -> {"signalprocessing"} \cup GatewayTypes
    [] n = "remediationorchestrator-controller" -> {"remediation"}
    [] n = "workflowexecution-controller" -> {"workflowexecution"}
    [] n = "workflow-runner" -> {"run-workflows"}
    [] n = "effectivenessmonitor-controller" -> {"effectiveness"} \cup GatewayTypes
    [] n = "notification-controller" -> {"notification"}
    [] n = "data-storage-auth-middleware" -> {"review-tokens"}
    [] n = "data-storage-client" -> {"use-datastorage"}
    [] n = "authwebhook-role" -> {"authwebhook"}
    [] n = "gateway-role" -> {"gateway"}
    [] n = "alertmanager-view" -> {"read-alerts"}
    [] n = "gateway-signal-source" -> {"send-signals"}
    [] n = "apifrontend-role" -> {"apifrontend"} \cup GatewayTypes
    [] n = "console-access" -> {"use-console"}
    [] n = "fleetmetadatacache" -> GatewayTypes
    [] n = "fleetmetadatacache-auth-middleware" -> {"review-tokens"}
    [] n = "fmc-scope-check-client" -> {"check-scopes"}
    [] n = "fleet-caller-node-reader" -> {"read-nodes"}
    [] n = "fleet-caller-workflow-execution" -> {"execute-remotely"}
    [] OTHER -> {"run-awx-jobs"}

SingleRights(n) == IF n \in RoleNames \cup {"workflowexecution-awx"} THEN OwnRights(n) ELSE {n}

PairRights(name) ==
  IF name[1] = "tool" THEN {"use-tools"}
  ELSE IF name[2] = "ns-role" THEN {"read-configuration"}
  ELSE IF name[2] = "workflow-catalog" THEN {"read-catalog"}
  ELSE IF name[2] = "mcpgateway" THEN GatewayTypes
  ELSE {WfRight(name[1])}

NameRights(name) == IF Len(name) = 2 THEN PairRights(name) ELSE SingleRights(name[1])

Bounded(o) == o.rights \subseteq NameRights(o.name)

LEMMA OwnBounds ==
  ASSUME NEW s \in Specs, NEW n \in RoleNames  PROVE RoleRights(s, n) \subseteq OwnRights(n)
<1>0. remoteReads(s) \subseteq GatewayTypes /\ {s.type} \subseteq GatewayTypes
  <2>1. s.type \in GatewayTypes
    BY SpecsAssumption, SMT DEF SpecType
  <2> QED
    BY <2>1 DEF remoteReads, mcpGatewayCRDPolicyRules
<1> DEFINE In(m) == RoleRights(s, m) \subseteq OwnRights(m)
<1>1. /\ In("aianalysis-controller") /\ In("kubernaut-agent-client")
      /\ In("kubernaut-agent-investigator") /\ In("signalprocessing-controller")
  BY <1>0, SMT DEF RoleRights, OwnRights
<1>2. /\ In("remediationorchestrator-controller") /\ In("workflowexecution-controller")
      /\ In("workflow-runner") /\ In("effectivenessmonitor-controller")
  BY <1>0, SMT DEF RoleRights, OwnRights
<1>3. /\ In("notification-controller") /\ In("data-storage-auth-middleware")
      /\ In("data-storage-client") /\ In("authwebhook-role")
  BY <1>0, SMT DEF RoleRights, OwnRights
<1>4. /\ In("gateway-role") /\ In("alertmanager-view")
      /\ In("gateway-signal-source") /\ In("apifrontend-role")
  BY <1>0, SMT DEF RoleRights, OwnRights
<1>5. /\ In("console-access") /\ In("fleetmetadatacache")
      /\ In("fleetmetadatacache-auth-middleware") /\ In("fmc-scope-check-client")
  BY <1>0, SMT DEF RoleRights, OwnRights
<1>6. /\ In("fleet-caller-node-reader") /\ In("fleet-caller-workflow-execution")
  BY <1>0, SMT DEF RoleRights, OwnRights
<1> HIDE DEF In
<1>7. In(n)
  BY <1>1, <1>2, <1>3, <1>4, <1>5, <1>6 DEF RoleNames
<1> QED
  BY <1>7 DEF In

LEMMA RolesBounded ==
  ASSUME NEW o \in Universe, o.kind = "Role"  PROVE Bounded(o)
<1>1. Bounded(OldAgent)
  BY SMT DEF Bounded, NameRights, SingleRights, OwnRights, RoleNames, OldAgent, ClusterRole, Role
<1>2. ASSUME NEW s \in Specs, o \in Pool(s)  PROVE Bounded(o)
  <2>0. s.type \in GatewayTypes
    BY SpecsAssumption, SMT DEF SpecType
  <2>1. \A c : c # "tool" => /\ Bounded(nsRole(c)) /\ Bounded(catalogRole(c)) /\ Bounded(mcpRole(s, c))
                             /\ Bounded(wfRole(s, c))
    BY <2>0, SMT DEF Bounded, NameRights, PairRights, nsRole, catalogRole, mcpRole, wfRole, Role
  <2>2. /\ \A c : Bounded(toolRole(c))
        /\ Bounded(AwxRole)
    BY SMT DEF Bounded, NameRights, PairRights, SingleRights, OwnRights, RoleNames, toolRole, AwxRole, Role
  <2>3. \A n \in RoleNames : Bounded(NamedRole(s, n))
    <3>1. \A n \in RoleNames : RoleRights(s, n) \subseteq OwnRights(n)
      BY OwnBounds
    <3>2. \A n \in RoleNames : RoleRights(s, n) \subseteq SingleRights(n)
      BY <3>1 DEF SingleRights
    <3>3. \A n : NamedRole(s, n).rights = RoleRights(s, n) /\ NameRights(NamedRole(s, n).name) = SingleRights(n)
      BY SMT DEF NamedRole, ClusterRole, Role, NameRights
    <3> QED
      BY <3>2, <3>3 DEF Bounded
  <2>4. \A c \in Components \cup WfUsers : c # "tool"
    BY AllTheComponents, SMT DEF WfUsers
  <2>5. /\ \A x \in NsRoles : Bounded(x)
        /\ \A x \in CatalogRoles : Bounded(x)
        /\ \A x \in McpRoles(s) : Bounded(x)
        /\ \A x \in WfRoles(s) : Bounded(x)
    BY <2>1, <2>4, SMT DEF NsRoles, CatalogRoles, McpRoles, Gatewayed, WfRoles
  <2>6. /\ \A x \in ToolRoles : Bounded(x)
        /\ \A x \in CoreRoles(s) : Bounded(x)
    BY <2>2, <2>3, SMT DEF ToolRoles, CoreRoles
  <2>7. CASE Family(o) = "awx"
    <3>1. AwxBinding(s).kind = "Binding"
      BY DEF AwxBinding, Binding
    <3>2. o \in {AwxRole, AwxBinding(s)}
      BY <1>2, <2>7, InFamily
    <3> QED
      BY <2>2, <3>1, <3>2
  <2>8. CASE Family(o) # "awx"
    <3>1. KindOf(Family(o)) = "Role"
      BY <1>2, <2>8, Labels
    <3>2. Family(o) \in {"nsRole", "catalogRole", "coreRole", "mcpRole", "wfRole", "toolRole"}
      BY <3>1, SMT DEF KindOf
    <3> QED
      BY <1>2, <2>5, <2>6, <3>2, InFamily
  <2> QED
    BY <2>7, <2>8
<1> QED
  BY <1>1, <1>2, InUniverse

\* The operator has no role with the name of one of the platform or of an administrator.
LEMMA OthersRoles ==
  ASSUME NEW r \in BuiltIn \cup ExtraRoles
  PROVE  SingleRights(r) = {r} /\ r \notin RoleNames /\ r # "workflowexecution-awx"
<1>1. CASE r \in BuiltIn
  BY <1>1, SMT DEF BuiltIn, SingleRights, RoleNames
<1>2. CASE r \in ExtraRoles
  <2>1. r \notin Reserved
    BY <1>2, ExtraRolesAssumption
  <2>2. \A n \in RoleNames \cup {"workflowexecution-awx"} : n \in Reserved
    BY DEF RoleNames, Reserved
  <2>3. r \notin RoleNames \cup {"workflowexecution-awx"}
    BY <2>1, <2>2
  <2> QED
    BY <2>3 DEF SingleRights
<1> QED
  BY <1>1, <1>2

LEMMA RightsBounded ==
  ASSUME NEW O \in SUBSET Universe, NEW ns, NEW name, NEW rt \in RightsOf(<<ns, name>>, O)
  PROVE  rt \in NameRights(name)
<1>1. CASE rt \in BuiltIn \cup ExtraRoles /\ <<ns, name>> = <<Everywhere, <<rt>> >>
  <2>1. name = <<rt>>
    BY <1>1, SMT
  <2>2. NameRights(<<rt>>) = SingleRights(rt)
    BY SMT DEF NameRights
  <2>3. SingleRights(rt) = {rt}
    BY <1>1, OthersRoles
  <2> QED
    BY ONLY <1>1, <2>1, <2>3, <2>2, Zenon
<1>2. CASE \E x \in O : x.kind = "Role" /\ <<x.ns, x.name>> = <<ns, name>> /\ rt \in x.rights
  <2>1. PICK x \in O : x.kind = "Role" /\ <<x.ns, x.name>> = <<ns, name>> /\ rt \in x.rights
    BY <1>2
  <2>2. x.name = name
    BY <2>1, SMT
  <2>3. Bounded(x)
    BY <2>1, RolesBounded
  <2> QED
    BY <2>1, <2>2, <2>3 DEF Bounded
<1> QED
  BY <1>1, <1>2 DEF RightsOf

\* The binding that gives a cluster-scoped right of the operator to c
CoreSource(rt, c) ==
  CASE rt = "aianalysis" -> "aianalysis-controller-binding"
    [] rt \in {"investigate", "read-catalog"} -> "kubernaut-agent-investigator-binding"
    [] rt = "signalprocessing" -> "signalprocessing-controller-binding"
    [] rt = "remediation" -> "remediationorchestrator-controller-binding"
    [] rt = "workflowexecution" -> "workflowexecution-controller-binding"
    [] rt = "run-workflows" -> "workflow-runner-binding"
    [] rt = "effectiveness" -> "effectivenessmonitor-controller-binding"
    [] rt = "notification" -> "notification-controller-binding"
    [] rt = "authwebhook" -> "authwebhook-binding"
    [] rt = "gateway" -> "gateway-role-binding"
    [] rt = "send-signals" -> "alertmanager-gateway-signal-source"
    [] rt = "apifrontend" -> "apifrontend-binding"
    [] rt = "view" -> "fleet-caller-read-view-binding"
    [] rt = "read-nodes" -> "fleet-caller-read-node-reader-binding"
    [] rt = "execute-remotely" -> "fleet-caller-execution-binding"
    [] rt = "review-tokens" ->
         IF c = "kubernaut-agent" THEN "kubernaut-agent-auth-middleware-binding"
         ELSE IF c = "datastorage" THEN "data-storage-auth-middleware-binding"
         ELSE "fleetmetadatacache-auth-middleware-binding"
    [] rt = "read-alerts" ->
         IF c = "kubernaut-agent" THEN "kubernaut-agent-alertmanager-view-binding"
         ELSE "effectivenessmonitor-alertmanager-view-binding"
    [] rt = "cluster-monitoring-view" ->
         IF c = "kubernaut-agent" THEN "kubernaut-agent-monitoring-view"
         ELSE IF c = "apifrontend" THEN "apifrontend-monitoring-view"
         ELSE "effectivenessmonitor-monitoring-view"
    [] rt = "check-scopes" ->
         IF c = "gateway" THEN "gateway-fmc-scope-check-client"
         ELSE "remediationorchestrator-fmc-scope-check-client"
    [] OTHER ->
         IF c = "signalprocessing" THEN "signalprocessing-controller-binding"
         ELSE IF c = "effectivenessmonitor" THEN "effectivenessmonitor-controller-binding"
         ELSE IF c = "apifrontend" THEN "apifrontend-binding"
         ELSE "fleetmetadatacache-binding"

CoreRights ==
  BuiltIn \cup GatewayTypes
  \cup {"aianalysis", "investigate", "read-catalog", "signalprocessing", "remediation", "workflowexecution",
        "run-workflows", "effectiveness", "notification", "review-tokens", "authwebhook", "gateway",
        "read-alerts", "send-signals", "apifrontend", "check-scopes", "read-nodes", "execute-remotely"}

Owner(n) ==
  CASE n = "aianalysis-controller-binding" -> "aianalysis"
    [] n \in {"kubernaut-agent-investigator-binding", "kubernaut-agent-auth-middleware-binding", "kubernaut-agent-monitoring-view", "kubernaut-agent-alertmanager-view-binding"} -> "kubernaut-agent"
    [] n = "signalprocessing-controller-binding" -> "signalprocessing"
    [] n \in {"remediationorchestrator-controller-binding", "remediationorchestrator-fmc-scope-check-client"} -> "remediationorchestrator"
    [] n = "workflowexecution-controller-binding" -> "workflowexecution"
    [] n \in {"effectivenessmonitor-controller-binding", "effectivenessmonitor-alertmanager-view-binding", "effectivenessmonitor-monitoring-view"} -> "effectivenessmonitor"
    [] n = "notification-controller-binding" -> "notification"
    [] n = "data-storage-auth-middleware-binding" -> "datastorage"
    [] n = "authwebhook-binding" -> "authwebhook"
    [] n = "workflow-runner-binding" -> "kubernaut-workflow-runner"
    [] n \in {"gateway-role-binding", "gateway-fmc-scope-check-client"} -> "gateway"
    [] n = "alertmanager-gateway-signal-source" -> "alertmanager-main"
    [] n \in {"apifrontend-monitoring-view", "apifrontend-binding"} -> "apifrontend"
    [] n \in {"fleetmetadatacache-binding", "fleetmetadatacache-auth-middleware-binding"} -> "fleetmetadatacache"
    [] n \in {"fleet-caller-read-view-binding", "fleet-caller-read-node-reader-binding"} -> "fleet-read"
    [] n = "fleet-caller-execution-binding" -> "fleet-execution"

\* A subject has each of the rights of the core from one binding only.
LEMMA CoreSources ==
  \A n \in BindingNames : \A rt \in SingleRights(RoleRef(n)) :
     rt \in CoreRights /\ CoreSource(rt, Owner(n)) = n
<1> DEFINE Its(m) == \A r \in SingleRights(RoleRef(m)) : r \in CoreRights /\ CoreSource(r, Owner(m)) = m
<1>1. /\ Its("aianalysis-controller-binding")
      /\ Its("kubernaut-agent-investigator-binding")
      /\ Its("kubernaut-agent-auth-middleware-binding")
      /\ Its("signalprocessing-controller-binding")
      /\ Its("remediationorchestrator-controller-binding")
  BY SMTT(30) DEF RoleRef, SingleRights, OwnRights, RoleNames, Owner, CoreSource, CoreRights,
     BuiltIn, GatewayTypes
<1>2. /\ Its("workflowexecution-controller-binding")
      /\ Its("effectivenessmonitor-controller-binding")
      /\ Its("notification-controller-binding")
      /\ Its("data-storage-auth-middleware-binding")
      /\ Its("authwebhook-binding")
  BY SMTT(30) DEF RoleRef, SingleRights, OwnRights, RoleNames, Owner, CoreSource, CoreRights,
     BuiltIn, GatewayTypes
<1>3. /\ Its("workflow-runner-binding")
      /\ Its("gateway-role-binding")
      /\ Its("effectivenessmonitor-alertmanager-view-binding")
      /\ Its("effectivenessmonitor-monitoring-view")
      /\ Its("kubernaut-agent-monitoring-view")
  BY SMTT(30) DEF RoleRef, SingleRights, OwnRights, RoleNames, Owner, CoreSource, CoreRights,
     BuiltIn, GatewayTypes
<1>4. /\ Its("kubernaut-agent-alertmanager-view-binding")
      /\ Its("alertmanager-gateway-signal-source")
      /\ Its("apifrontend-monitoring-view")
      /\ Its("apifrontend-binding")
      /\ Its("fleetmetadatacache-binding")
  BY SMTT(30) DEF RoleRef, SingleRights, OwnRights, RoleNames, Owner, CoreSource, CoreRights,
     BuiltIn, GatewayTypes
<1>5. /\ Its("fleetmetadatacache-auth-middleware-binding")
      /\ Its("gateway-fmc-scope-check-client")
      /\ Its("remediationorchestrator-fmc-scope-check-client")
      /\ Its("fleet-caller-read-view-binding")
      /\ Its("fleet-caller-read-node-reader-binding")
  BY SMTT(30) DEF RoleRef, SingleRights, OwnRights, RoleNames, Owner, CoreSource, CoreRights,
     BuiltIn, GatewayTypes
<1>6. /\ Its("fleet-caller-execution-binding")
  BY SMTT(30) DEF RoleRef, SingleRights, OwnRights, RoleNames, Owner, CoreSource, CoreRights,
     BuiltIn, GatewayTypes
<1> HIDE DEF Its
<1>7. \A n \in BindingNames : Its(n)
  BY <1>1, <1>2, <1>3, <1>4, <1>5, <1>6 DEF BindingNames
<1> QED
  BY <1>7 DEF Its

LEMMA SubjectOwner ==
  ASSUME NEW s
  PROVE  \A n \in BindingNames : SubjectOf(s, n)[2] = Owner(n)
<1> DEFINE Its(n) == SubjectOf(s, n)[2] = Owner(n)
<1>1. /\ Its("aianalysis-controller-binding") /\ Its("kubernaut-agent-investigator-binding")
      /\ Its("kubernaut-agent-auth-middleware-binding") /\ Its("signalprocessing-controller-binding")
      /\ Its("remediationorchestrator-controller-binding") /\ Its("workflowexecution-controller-binding")
      /\ Its("effectivenessmonitor-controller-binding") /\ Its("notification-controller-binding")
      /\ Its("data-storage-auth-middleware-binding") /\ Its("authwebhook-binding")
      /\ Its("workflow-runner-binding") /\ Its("gateway-role-binding")
      /\ Its("effectivenessmonitor-alertmanager-view-binding") /\ Its("effectivenessmonitor-monitoring-view")
      /\ Its("kubernaut-agent-monitoring-view") /\ Its("kubernaut-agent-alertmanager-view-binding")
      /\ Its("alertmanager-gateway-signal-source") /\ Its("apifrontend-monitoring-view")
      /\ Its("apifrontend-binding") /\ Its("fleetmetadatacache-binding")
      /\ Its("fleetmetadatacache-auth-middleware-binding") /\ Its("gateway-fmc-scope-check-client")
      /\ Its("remediationorchestrator-fmc-scope-check-client") /\ Its("fleet-caller-read-view-binding")
      /\ Its("fleet-caller-read-node-reader-binding") /\ Its("fleet-caller-execution-binding")
  BY SMT DEF Owner, SubjectOf, SA, Group, Runner
<1> HIDE DEF Its
<1>2. \A n \in BindingNames : Its(n)
  BY <1>1 DEF BindingNames
<1> QED
  BY <1>2 DEF Its

\* Families of bindings that hold in every namespace
Wide == {"coreBinding", "extra", "awx", "tool", "console"}

\* The role a binding refers to, by its family, its namespace and its name
RefOf(f, ns, name) ==
  CASE f = "nsBinding" -> <<ns, <<name[1], "ns-role">> >>
    [] f = "client" -> <<Everywhere, <<"data-storage-client">> >>
    [] f = "agent" -> <<Everywhere, <<"kubernaut-agent-client">> >>
    [] f = "catalogBinding" -> <<ns, <<name[1], "workflow-catalog">> >>
    [] f = "mcpBinding" -> <<ns, <<name[1], "mcpgateway">> >>
    [] f = "wfBinding" -> <<ns, <<name[1], "workflow">> >>
    [] f = "coreBinding" -> <<Everywhere, <<RoleRef(name[1])>> >>
    [] f = "extra" -> <<Everywhere, <<name[3]>> >>
    [] f = "tool" -> <<Everywhere, IF name[2] \in Personas THEN <<"tool", name[2]>> ELSE <<name[2]>> >>
    [] f = "awx" -> <<Everywhere, <<"workflowexecution-awx">> >>
    [] OTHER -> <<Everywhere, <<"console-access">> >>

Placed(b, f) == b.role = RefOf(f, b.ns, b.name) /\ (b.ns = Everywhere <=> f \in Wide)

BindingFamilies ==
  {"nsBinding", "client", "agent", "catalogBinding", "mcpBinding", "wfBinding", "coreBinding",
   "extra", "tool", "awx", "console"}

\* The bindings of the universe, by families
LEMMA BindingCases ==
  ASSUME NEW b \in Universe, b.kind = "Binding"
  PROVE  \E s \in Specs :
           \/ Family(b) = "nsBinding" /\ b \in NsBindings
           \/ Family(b) = "client" /\ b \in Clients
           \/ Family(b) = "agent" /\ b \in Agents
           \/ Family(b) = "catalogBinding" /\ b \in CatalogBindings
           \/ Family(b) = "mcpBinding" /\ b \in McpBindings(s)
           \/ Family(b) = "wfBinding" /\ b \in WfBindings(s)
           \/ Family(b) = "coreBinding" /\ b \in CoreRoleBindings(s)
           \/ Family(b) = "extra" /\ b \in Extras
           \/ Family(b) = "tool" /\ b \in ToolBindings(s)
           \/ Family(b) = "awx" /\ b = AwxBinding(s)
           \/ Family(b) = "console" /\ b = consoleBinding(s)
<1>1. OldAgent.kind = "Role" /\ AwxRole.kind = "Role"
  BY SMT DEF OldAgent, AwxRole, ClusterRole, Role
<1>2. PICK s \in Specs : b \in Pool(s)
  BY <1>1, InUniverse
<1>3. Family(b) # "awx" => KindOf(Family(b)) = "Binding"
  BY <1>2, Labels
<1>4. Family(b) \in {"account", "nsRole", "nsBinding", "client", "agent", "catalogRole",
             "catalogBinding", "coreRole", "coreBinding", "mcpRole", "mcpBinding", "extra",
             "wfRole", "wfBinding", "awx", "toolRole", "tool", "console"}
  BY <1>2, Families, SMT DEF Pool
<1>5. Family(b) \in BindingFamilies
  BY <1>3, <1>4, SMT DEF KindOf, BindingFamilies
<1> QED
  BY <1>1, <1>2, <1>5, InFamily, SMT DEF BindingFamilies

\* A binding's key tells its role, and its family whether it holds everywhere.
LEMMA Placement ==
  ASSUME NEW b \in Universe, b.kind = "Binding"  PROVE Placed(b, Family(b))
<1>1. PICK s \in Specs :
           \/ Family(b) = "nsBinding" /\ b \in NsBindings
           \/ Family(b) = "client" /\ b \in Clients
           \/ Family(b) = "agent" /\ b \in Agents
           \/ Family(b) = "catalogBinding" /\ b \in CatalogBindings
           \/ Family(b) = "mcpBinding" /\ b \in McpBindings(s)
           \/ Family(b) = "wfBinding" /\ b \in WfBindings(s)
           \/ Family(b) = "coreBinding" /\ b \in CoreRoleBindings(s)
           \/ Family(b) = "extra" /\ b \in Extras
           \/ Family(b) = "tool" /\ b \in ToolBindings(s)
           \/ Family(b) = "awx" /\ b = AwxBinding(s)
           \/ Family(b) = "console" /\ b = consoleBinding(s)
  BY BindingCases
<1>2. s.wf \in {"wf1", "wf2"}
  BY SpecsAssumption, SMT DEF SpecType
<1>3. \A c : /\ Placed(nsBinding(c), "nsBinding") /\ Placed(storageClient(c), "client")
             /\ Placed(agentClient(c), "agent") /\ Placed(catalogBinding(c), "catalogBinding")
  BY SMT DEF Placed, RefOf, Wide, nsBinding, storageClient, agentClient, catalogBinding, Binding,
     Home, Everywhere
<1>4. \A c : /\ s.mcp # Everywhere => Placed(mcpBinding(s, c), "mcpBinding")
             /\ Placed(wfBinding(s, c), "wfBinding")
  BY <1>2, SMT DEF Placed, RefOf, Wide, mcpBinding, wfBinding, Binding, Everywhere
<1>5. \A c : /\ Placed(NamedBinding(s, c), "coreBinding")
             /\ \A r : Placed(AdditionalComponentCRB(c, r), "extra")
             /\ Placed(toolBinding(s, c), "tool")
  BY SMT DEF Placed, RefOf, Wide, NamedBinding, clusterRoleBinding, AdditionalComponentCRB,
     toolBinding, Binding
<1>6. Placed(AwxBinding(s), "awx") /\ Placed(consoleBinding(s), "console")
  BY SMT DEF Placed, RefOf, Wide, AwxBinding, consoleBinding, Binding
<1>7. /\ \A x \in NsBindings : Placed(x, "nsBinding")
      /\ \A x \in Clients : Placed(x, "client")
      /\ \A x \in Agents : Placed(x, "agent")
      /\ \A x \in CatalogBindings : Placed(x, "catalogBinding")
  BY <1>3, SMT DEF NsBindings, Clients, Agents, CatalogBindings
<1>8. /\ \A x \in McpBindings(s) : Placed(x, "mcpBinding")
      /\ \A x \in WfBindings(s) : Placed(x, "wfBinding")
  BY <1>4, SMT DEF McpBindings, Gatewayed, WfBindings
<1>9. /\ \A x \in CoreRoleBindings(s) : Placed(x, "coreBinding")
      /\ \A x \in Extras : Placed(x, "extra")
      /\ \A x \in ToolBindings(s) : Placed(x, "tool")
  BY <1>5, SMT DEF CoreRoleBindings, Extras, ToolBindings
<1> QED
  BY <1>1, <1>6, <1>7, <1>8, <1>9

\* The only binding that can give rt to a subject, with a few exceptions
OwnSource(rt, c) ==
  CASE rt = "read-configuration" -> <<c, "ns-rolebinding">>
    [] rt = "use-datastorage" -> <<c, "data-storage-client">>
    [] rt = "use-agent" -> <<c, "kubernaut-agent-client">>
    [] rt = "read-dependencies" -> <<c, "workflow-binding">>
    [] rt = "write-workflows" -> <<"runner", "workflow-binding">>
    [] rt = "run-awx-jobs" -> <<"workflowexecution-awx-binding">>
    [] rt = "use-console" -> <<"console-access-binding">>
    [] OTHER -> <<"none">>

SourceName(rt, sub) ==
  IF rt \in ExtraRoles
  THEN IF sub[1] = "group" THEN ToolName(rt) ELSE <<sub[2], "ext", rt>>
  ELSE IF rt \in CoreRights THEN <<CoreSource(rt, sub[2])>> ELSE OwnSource(rt, sub[2])

\* The tools, the reads of the catalog, and the reads of the MCP Gateway come from
\* other bindings as well.
Shared(rt, f) == (f = "tool" /\ rt = "use-tools") \/ f \in {"catalogBinding", "mcpBinding"}

From(b, f, sub, rt) == Shared(rt, f) \/ b.name = SourceName(rt, sub)
Sourced(b, f) == \A sub \in b.subjects, rt \in NameRights(b.role[2]) : From(b, f, sub, rt)

LEMMA ReservedRights ==
  ASSUME NEW rt \in {"read-configuration", "use-datastorage", "use-agent", "read-dependencies",
                     "write-workflows", "run-awx-jobs", "use-console"}
  PROVE  rt \notin ExtraRoles /\ rt \notin CoreRights
<1>1. rt \in Reserved
  BY DEF Reserved
<1>2. rt \notin CoreRights
  BY DEF CoreRights, BuiltIn, GatewayTypes
<1> QED
  BY <1>1, <1>2, ExtraRolesAssumption

LEMMA CoreReserved == ASSUME NEW rt \in CoreRights  PROVE rt \notin ExtraRoles
<1>1. rt \in Reserved
  BY DEF CoreRights, Reserved
<1> QED
  BY <1>1, ExtraRolesAssumption

LEMMA SourceNames ==
  ASSUME NEW sub
  PROVE  /\ SourceName("read-configuration", sub) = <<sub[2], "ns-rolebinding">>
         /\ SourceName("use-datastorage", sub) = <<sub[2], "data-storage-client">>
         /\ SourceName("use-agent", sub) = <<sub[2], "kubernaut-agent-client">>
         /\ SourceName("read-dependencies", sub) = <<sub[2], "workflow-binding">>
         /\ SourceName("write-workflows", sub) = <<"runner", "workflow-binding">>
         /\ SourceName("run-awx-jobs", sub) = <<"workflowexecution-awx-binding">>
         /\ SourceName("use-console", sub) = <<"console-access-binding">>
         /\ \A rt \in CoreRights : SourceName(rt, sub) = <<CoreSource(rt, sub[2])>>
<1>1. \A rt \in {"read-configuration", "use-datastorage", "use-agent", "read-dependencies",
                 "write-workflows", "run-awx-jobs", "use-console"} :
         SourceName(rt, sub) = OwnSource(rt, sub[2])
  BY ReservedRights DEF SourceName
<1>2. \A rt \in CoreRights : SourceName(rt, sub) = <<CoreSource(rt, sub[2])>>
  BY CoreReserved DEF SourceName
<1>3. \A c : /\ OwnSource("read-configuration", c) = <<c, "ns-rolebinding">>
             /\ OwnSource("use-datastorage", c) = <<c, "data-storage-client">>
             /\ OwnSource("use-agent", c) = <<c, "kubernaut-agent-client">>
             /\ OwnSource("read-dependencies", c) = <<c, "workflow-binding">>
             /\ OwnSource("write-workflows", c) = <<"runner", "workflow-binding">>
             /\ OwnSource("run-awx-jobs", c) = <<"workflowexecution-awx-binding">>
             /\ OwnSource("use-console", c) = <<"console-access-binding">>
  BY SMT DEF OwnSource
<1> QED
  BY <1>1, <1>2, <1>3

LEMMA OneRight ==
  ASSUME NEW b, NEW f, NEW role, NEW rt, b.role[2] = role, NameRights(role) = {rt},
         \A sub \in b.subjects : SourceName(rt, sub) = b.name
  PROVE  Sourced(b, f)
  BY DEF Sourced, From

\* It is the only one indeed.
LEMMA Sourcing ==
  ASSUME NEW b \in Universe, b.kind = "Binding"  PROVE Sourced(b, Family(b))
<1>1. PICK s \in Specs :
           \/ Family(b) = "nsBinding" /\ b \in NsBindings
           \/ Family(b) = "client" /\ b \in Clients
           \/ Family(b) = "agent" /\ b \in Agents
           \/ Family(b) = "catalogBinding" /\ b \in CatalogBindings
           \/ Family(b) = "mcpBinding" /\ b \in McpBindings(s)
           \/ Family(b) = "wfBinding" /\ b \in WfBindings(s)
           \/ Family(b) = "coreBinding" /\ b \in CoreRoleBindings(s)
           \/ Family(b) = "extra" /\ b \in Extras
           \/ Family(b) = "tool" /\ b \in ToolBindings(s)
           \/ Family(b) = "awx" /\ b = AwxBinding(s)
           \/ Family(b) = "console" /\ b = consoleBinding(s)
  BY BindingCases
<1>2. \A c \in Components \cup WfUsers : c # "tool"
  BY AllTheComponents, SMT DEF WfUsers
<1>3. /\ SingleRights("data-storage-client") = {"use-datastorage"}
      /\ SingleRights("kubernaut-agent-client") = {"use-agent"}
      /\ SingleRights("workflowexecution-awx") = {"run-awx-jobs"}
      /\ SingleRights("console-access") = {"use-console"}
  BY SMT DEF SingleRights, OwnRights, RoleNames
<1>4. \A n : NameRights(<<n>>) = SingleRights(n)
  BY SMT DEF NameRights
<1>5. \A c \in Components \cup WfUsers :
         /\ NameRights(<<c, "ns-role">>) = {"read-configuration"}
         /\ NameRights(<<c, "workflow">>) = {WfRight(c)}
  <2>1. \A c : c # "tool" => NameRights(<<c, "ns-role">>) = {"read-configuration"}
    BY SMT DEF NameRights, PairRights
  <2>2. \A c : c # "tool" => NameRights(<<c, "workflow">>) = {WfRight(c)}
    BY SMT DEF NameRights, PairRights
  <2> QED
    BY <1>2, <2>1, <2>2
<1>6. \A p : NameRights(<<"tool", p>>) = {"use-tools"}
  BY SMT DEF NameRights, PairRights
<1>7. ASSUME NEW c \in Components  PROVE Sourced(nsBinding(c), "nsBinding")
  <2>1. /\ nsBinding(c).subjects = {SA(c)} /\ nsBinding(c).role[2] = <<c, "ns-role">>
        /\ nsBinding(c).name = <<c, "ns-rolebinding">> /\ SA(c)[2] = c
    BY SMT DEF nsBinding, Binding, SA
  <2>2. \A sub \in nsBinding(c).subjects :
           SourceName("read-configuration", sub) = nsBinding(c).name
    BY <2>1, SourceNames
  <2>3. NameRights(<<c, "ns-role">>) = {"read-configuration"}
    BY <1>5
  <2> QED
    BY <2>1, <2>2, <2>3, OneRight
<1>8. ASSUME NEW c  PROVE Sourced(storageClient(c), "client") /\ Sourced(agentClient(c), "agent")
  <2>1. /\ storageClient(c).subjects = {SA(c)} /\ storageClient(c).role[2] = <<"data-storage-client">>
        /\ storageClient(c).name = <<c, "data-storage-client">> /\ SA(c)[2] = c
        /\ agentClient(c).subjects = {SA(c)} /\ agentClient(c).role[2] = <<"kubernaut-agent-client">>
        /\ agentClient(c).name = <<c, "kubernaut-agent-client">>
    BY SMT DEF storageClient, agentClient, Binding, SA
  <2>2. /\ \A sub \in storageClient(c).subjects :
              SourceName("use-datastorage", sub) = storageClient(c).name
        /\ \A sub \in agentClient(c).subjects : SourceName("use-agent", sub) = agentClient(c).name
    <3>1. /\ SourceName("use-datastorage", SA(c)) = <<SA(c)[2], "data-storage-client">>
          /\ SourceName("use-agent", SA(c)) = <<SA(c)[2], "kubernaut-agent-client">>
      BY SourceNames
    <3> QED
      BY <2>1, <3>1
  <2>3. /\ NameRights(<<"data-storage-client">>) = {"use-datastorage"}
        /\ NameRights(<<"kubernaut-agent-client">>) = {"use-agent"}
    BY <1>3, <1>4
  <2> QED
    BY <2>1, <2>2, <2>3, OneRight
<1>9. \A x : Sourced(x, "catalogBinding") /\ Sourced(x, "mcpBinding")
  BY DEF Sourced, From, Shared
<1>10. ASSUME NEW c \in WfUsers  PROVE Sourced(wfBinding(s, c), "wfBinding")
  <2>1. /\ wfBinding(s, c).subjects = {WfSubject(s, c)} /\ wfBinding(s, c).role[2] = <<c, "workflow">>
        /\ wfBinding(s, c).name = <<c, "workflow-binding">> /\ SA(c)[2] = c
    BY SMT DEF wfBinding, Binding, SA
  <2>2. NameRights(<<c, "workflow">>) = {WfRight(c)}
    BY <1>5
  <2>3. SourceName(WfRight(c), WfSubject(s, c)) = <<c, "workflow-binding">>
    <3>1. /\ SourceName("write-workflows", Runner(s)) = <<"runner", "workflow-binding">>
          /\ SourceName("read-dependencies", SA(c)) = <<SA(c)[2], "workflow-binding">>
      BY SourceNames
    <3> QED
      BY <2>1, <3>1 DEF WfRight, WfSubject
  <2> QED
    BY <2>1, <2>2, <2>3, OneRight
<1>11. ASSUME NEW n \in BindingNames  PROVE Sourced(NamedBinding(s, n), "coreBinding")
  <2>1. /\ NamedBinding(s, n).subjects = {SubjectOf(s, n)}
        /\ NamedBinding(s, n).role[2] = <<RoleRef(n)>> /\ NamedBinding(s, n).name = <<n>>
    BY SMT DEF NamedBinding, clusterRoleBinding, Binding
  <2>2. SubjectOf(s, n)[2] = Owner(n)
    BY SubjectOwner
  <2>3. ASSUME NEW rt \in SingleRights(RoleRef(n))
        PROVE  SourceName(rt, SubjectOf(s, n)) = <<n>>
    <3>1. rt \in CoreRights /\ CoreSource(rt, Owner(n)) = n
      BY CoreSources
    <3> QED
      BY <2>2, <3>1, SourceNames
  <2> QED
    BY <1>4, <2>1, <2>3 DEF Sourced, From, Shared
<1>12. ASSUME NEW c, NEW r \in ExtraRoles  PROVE Sourced(AdditionalComponentCRB(c, r), "extra")
  <2>1. /\ AdditionalComponentCRB(c, r).subjects = {SA(c)}
        /\ AdditionalComponentCRB(c, r).role[2] = <<r>>
        /\ AdditionalComponentCRB(c, r).name = <<c, "ext", r>> /\ SA(c)[2] = c /\ SA(c)[1] # "group"
    BY SMT DEF AdditionalComponentCRB, Binding, SA, Home
  <2>2. SingleRights(r) = {r}
    BY OthersRoles
  <2>3. SourceName(r, SA(c)) = <<c, "ext", r>>
    BY <2>1 DEF SourceName
  <2> QED
    BY <1>4, <2>1, <2>2, <2>3 DEF Sourced, From
<1>13. ASSUME NEW r \in Personas \cup ExtraRoles  PROVE Sourced(toolBinding(s, r), "tool")
  <2>1. /\ \A sub \in toolBinding(s, r).subjects : sub[1] = "group"
        /\ toolBinding(s, r).role[2] = IF r \in Personas THEN <<"tool", r>> ELSE <<r>>
        /\ toolBinding(s, r).name = ToolName(r)
    BY SMT DEF toolBinding, Binding, Group, ToolName
  <2>2. CASE r \in Personas
    BY <1>6, <2>1, <2>2 DEF Sourced, From, Shared
  <2>3. CASE r \notin Personas
    <3>1. SingleRights(r) = {r}
      BY <2>3, OthersRoles
    <3>2. \A sub \in toolBinding(s, r).subjects : SourceName(r, sub) = ToolName(r)
      BY <2>1, <2>3 DEF SourceName
    <3> QED
      BY <1>4, <2>1, <2>3, <3>1, <3>2 DEF Sourced, From
  <2> QED
    BY <2>2, <2>3
<1>14. Sourced(AwxBinding(s), "awx") /\ Sourced(consoleBinding(s), "console")
  <2>1. /\ AwxBinding(s).role[2] = <<"workflowexecution-awx">>
        /\ AwxBinding(s).name = <<"workflowexecution-awx-binding">>
        /\ consoleBinding(s).role[2] = <<"console-access">>
        /\ consoleBinding(s).name = <<"console-access-binding">>
    BY SMT DEF AwxBinding, consoleBinding, Binding
  <2>2. /\ NameRights(<<"workflowexecution-awx">>) = {"run-awx-jobs"}
        /\ NameRights(<<"console-access">>) = {"use-console"}
    BY <1>3, <1>4
  <2>3. \A sub : /\ SourceName("run-awx-jobs", sub) = AwxBinding(s).name
                 /\ SourceName("use-console", sub) = consoleBinding(s).name
    BY <2>1, SourceNames
  <2> QED
    BY <2>1, <2>2, <2>3, OneRight
<1>15. /\ \A x \in NsBindings : Sourced(x, "nsBinding")
       /\ \A x \in Clients : Sourced(x, "client")
       /\ \A x \in Agents : Sourced(x, "agent")
  BY <1>7, <1>8, SMT DEF NsBindings, Clients, Agents
<1>16. /\ \A x \in WfBindings(s) : Sourced(x, "wfBinding")
       /\ \A x \in CoreRoleBindings(s) : Sourced(x, "coreBinding")
       /\ \A x \in Extras : Sourced(x, "extra")
       /\ \A x \in ToolBindings(s) : Sourced(x, "tool")
  BY <1>10, <1>11, <1>12, <1>13, SMT DEF WfBindings, CoreRoleBindings, Extras, ToolBindings
<1> QED
  BY <1>1, <1>9, <1>14, <1>15, <1>16

\* In particular, only a tool binding gives the tools.
LEMMA ToolGivers ==
  ASSUME NEW b \in Universe, b.kind = "Binding", NEW sub \in b.subjects,
         "use-tools" \in NameRights(b.role[2])
  PROVE  Family(b) = "tool"
<1>1. PICK s \in Specs :
           \/ Family(b) = "nsBinding" /\ b \in NsBindings
           \/ Family(b) = "client" /\ b \in Clients
           \/ Family(b) = "agent" /\ b \in Agents
           \/ Family(b) = "catalogBinding" /\ b \in CatalogBindings
           \/ Family(b) = "mcpBinding" /\ b \in McpBindings(s)
           \/ Family(b) = "wfBinding" /\ b \in WfBindings(s)
           \/ Family(b) = "coreBinding" /\ b \in CoreRoleBindings(s)
           \/ Family(b) = "extra" /\ b \in Extras
           \/ Family(b) = "tool" /\ b \in ToolBindings(s)
           \/ Family(b) = "awx" /\ b = AwxBinding(s)
           \/ Family(b) = "console" /\ b = consoleBinding(s)
  BY BindingCases
<1>2. \A c \in Components : c # "tool"
  BY AllTheComponents
<1>3. \A c : c # "tool" => /\ NameRights(<<c, "workflow-catalog">>) = {"read-catalog"}
                           /\ NameRights(<<c, "mcpgateway">>) = GatewayTypes
  BY SMT DEF NameRights, PairRights
<1>4. Family(b) \notin {"catalogBinding", "mcpBinding"}
  <2>1. \A c : /\ catalogBinding(c).role[2] = <<c, "workflow-catalog">>
               /\ mcpBinding(s, c).role[2] = <<c, "mcpgateway">>
    BY SMT DEF catalogBinding, mcpBinding, Binding
  <2>2. "use-tools" \notin GatewayTypes /\ "use-tools" \notin {"read-catalog"}
    BY DEF GatewayTypes
  <2>3. \A c \in Components : /\ "use-tools" \notin NameRights(catalogBinding(c).role[2])
                              /\ "use-tools" \notin NameRights(mcpBinding(s, c).role[2])
    <3> TAKE c \in Components
    <3>1. NameRights(catalogBinding(c).role[2]) = {"read-catalog"}
      BY <1>2, <1>3, <2>1
    <3>2. NameRights(mcpBinding(s, c).role[2]) = GatewayTypes
      BY <1>2, <1>3, <2>1
    <3> QED
      BY <2>2, <3>1, <3>2
  <2>4. \A x \in CatalogBindings \cup McpBindings(s) : "use-tools" \notin NameRights(x.role[2])
    BY <2>3 DEF CatalogBindings, McpBindings, Gatewayed
  <2> QED
    BY <1>1, <2>4
<1>5. SourceName("use-tools", sub) = <<"none">>
  <2>1. "use-tools" \in Reserved /\ "use-tools" \notin CoreRights
    BY DEF Reserved, CoreRights, BuiltIn, GatewayTypes
  <2>2. "use-tools" \notin ExtraRoles
    BY <2>1, ExtraRolesAssumption
  <2>3. \A c : OwnSource("use-tools", c) = <<"none">>
    BY SMT DEF OwnSource
  <2> QED
    BY <2>1, <2>2, <2>3 DEF SourceName
<1>6. b.name # <<"none">>
  <2> SUFFICES ASSUME b.name = <<"none">>  PROVE FALSE
    OBVIOUS
  <2>1. Family(b) = "coreBinding"
    BY SMT DEF Family, FamilyAt, OfSingle
  <2>2. PICK n \in BindingNames : b = NamedBinding(s, n)
    BY <1>1, <2>1 DEF CoreRoleBindings
  <2>3. n = "none"
    BY <2>2, SMT DEF NamedBinding, clusterRoleBinding, Binding
  <2> QED
    BY <2>3 DEF BindingNames
<1>7. From(b, Family(b), sub, "use-tools")
  BY Sourcing DEF Sourced
<1> QED
  BY <1>4, <1>5, <1>6, <1>7 DEF From, Shared

--------------------------------------------------------------------------
(* What a write takes away.                                                *)

LEMMA HeldBy ==
  ASSUME NEW O, NEW b \in O, b.kind = "Binding", NEW sub \in b.subjects, NEW rt \in RightsOf(b.role, O)
  PROVE  <<sub, rt, b.ns>> \in Held(O)
  BY SMT DEF Held, Bindings

LEMMA GivenBy ==
  ASSUME NEW O, NEW o \in O, o.kind = "Role", NEW rt \in o.rights
  PROVE  rt \in RightsOf(<<o.ns, o.name>>, O)
  BY DEF RightsOf

LEMMA RoleOf ==
  ASSUME NEW O, NEW role, NEW rt \in RightsOf(role, O)
  PROVE  \/ rt \in BuiltIn \cup ExtraRoles /\ role = <<Everywhere, <<rt>> >>
         \/ \E o \in O : o.kind = "Role" /\ <<o.ns, o.name>> = role /\ rt \in o.rights
  BY DEF RightsOf

LEMMA AlwaysThere ==
  ASSUME NEW O, NEW rt \in BuiltIn \cup ExtraRoles
  PROVE  rt \in RightsOf(<<Everywhere, <<rt>> >>, O)
  BY DEF RightsOf

LEMMA KeyOf ==
  ASSUME NEW x, NEW y
  PROVE  Key(x) = Key(y) <=> x.kind = y.kind /\ x.ns = y.ns /\ x.name = y.name
  BY SMT DEF Key

LEMMA SameFamily ==
  ASSUME NEW x, NEW y, Key(x) = Key(y)  PROVE Family(x) = Family(y)
  BY KeyOf DEF Family

\* A harmless write puts what is deployed in the place of what was there.
LEMMA Replaced ==
  ASSUME NEW s \in Specs, NEW w, Harmless(w, s), NEW O, NEW o \in O, NEW e \in Deployed[s],
         Key(o) = Key(e)
  PROVE  o \in Apply(w, O) \/ e \in Apply(w, O)
<1>1. CASE Key(w.obj) # Key(o)
  BY <1>1 DEF Apply
<1>2. CASE Key(w.obj) = Key(o)
  <2>1. w.op = "ensure"
    BY <1>2 DEF Harmless, Keys
  <2>2. w.obj \in Pool(s) /\ e \in Pool(s)
    BY <2>1, HarmlessInPool, Deployment
  <2>3. w.obj = e
    BY <1>2, <2>2, Unique
  <2> QED
    BY <2>1, <2>3 DEF Apply
<1> QED
  BY <1>1, <1>2

\* A right that a binding gives now and under the spec is not lost.
LEMMA Regular ==
  ASSUME NEW s \in Specs, NEW w, Harmless(w, s), NEW O \in SUBSET Universe,
         NEW b \in O, b.kind = "Binding", NEW d \in Deployed[s], Key(b) = Key(d),
         NEW sub, sub \in b.subjects, sub \in d.subjects,
         NEW rt, rt \in RightsOf(b.role, O), rt \in RightsOf(d.role, Deployed[s])
  PROVE  <<sub, rt, d.ns>> \in Held(Apply(w, O))
<1> DEFINE P == Apply(w, O)
<1>1. d.kind = "Binding" /\ b.ns = d.ns /\ b.name = d.name /\ Family(b) = Family(d)
  BY KeyOf, SameFamily
<1>2. b.role = d.role
  <2>1. d \in Universe
    BY Deployment DEF Universe
  <2>2. Placed(b, Family(b)) /\ Placed(d, Family(d))
    BY <1>1, <2>1, Placement
  <2> QED
    BY <1>1, <2>2 DEF Placed
<1>3. PICK x \in {b, d} : x \in P
  BY Replaced
<1>4. rt \in RightsOf(d.role, P)
  <2>1. CASE rt \in BuiltIn \cup ExtraRoles /\ d.role = <<Everywhere, <<rt>> >>
    BY <2>1, AlwaysThere
  <2>2. CASE ~(rt \in BuiltIn \cup ExtraRoles /\ d.role = <<Everywhere, <<rt>> >>)
    <3>1. PICK o \in O : o.kind = "Role" /\ <<o.ns, o.name>> = d.role /\ rt \in o.rights
      BY <1>2, <2>2, RoleOf
    <3>2. PICK e \in Deployed[s] : e.kind = "Role" /\ <<e.ns, e.name>> = d.role /\ rt \in e.rights
      BY <2>2, RoleOf
    <3>3. Key(o) = Key(e)
      <4>1. <<o.ns, o.name>> = <<e.ns, e.name>>
        BY <3>1, <3>2
      <4>2. o.ns = e.ns /\ o.name = e.name
        BY <4>1, SMT
      <4> QED
        BY <3>1, <3>2, <4>2, KeyOf
    <3>4. PICK y \in {o, e} : y \in P
      BY <3>3, Replaced
    <3>5. rt \in RightsOf(<<y.ns, y.name>>, P)
      BY <3>1, <3>2, <3>4, GivenBy
    <3> QED
      BY <3>1, <3>2, <3>5
  <2> QED
    BY <2>1, <2>2
<1> HIDE DEF P
<1>5. <<sub, rt, x.ns>> \in Held(P)
  BY <1>1, <1>2, <1>3, <1>4, HeldBy
<1> QED
  BY <1>1, <1>5 DEF P

LEMMA MayGive ==
  ASSUME NEW O \in SUBSET Universe, NEW b \in Universe, b.kind = "Binding", NEW rt \in RightsOf(b.role, O)
  PROVE  rt \in NameRights(b.role[2])
<1>1. b.role = RefOf(Family(b), b.ns, b.name)
  BY Placement DEF Placed
<1> DEFINE IsPair(t) == t = <<t[1], t[2]>>
<1>2. \A x, y : IsPair(<<x, y>>)
  BY SMT
<1> HIDE DEF IsPair
<1>3. \A f, ns, name : IsPair(RefOf(f, ns, name))
  BY <1>2, SMTT(60) DEF RefOf
<1>4. IsPair(b.role)
  BY <1>1, <1>3
<1>5. b.role = <<b.role[1], b.role[2]>>
  BY <1>4 DEF IsPair
<1> DEFINE ns == b.role[1]
           name == b.role[2]
<1>6. b.role = <<ns, name>>
  BY <1>5
<1> HIDE DEF ns
<1>7. rt \in RightsOf(<<ns, name>>, O)
  BY <1>6
<1> QED
  BY <1>7, RightsBounded

\* Where only one binding can give a right, it is the one deployed.
LEMMA SameBinding ==
  ASSUME NEW b \in Universe, b.kind = "Binding", NEW d \in Universe, d.kind = "Binding",
         b.ns \in {d.ns, Everywhere}, NEW sub \in b.subjects, sub \in d.subjects,
         NEW rt \in NameRights(b.role[2]), rt \in NameRights(d.role[2]),
         ~Shared(rt, Family(b)), ~Shared(rt, Family(d))
  PROVE  Key(b) = Key(d)
<1>1. b.name = SourceName(rt, sub) /\ d.name = SourceName(rt, sub)
  BY Sourcing DEF Sourced, From
<1>2. Family(b) = Family(d)
  BY <1>1 DEF Family
<1>3. b.ns = Everywhere <=> d.ns = Everywhere
  BY <1>2, Placement DEF Placed
<1> QED
  BY <1>1, <1>3, KeyOf

LEMMA CatalogGives ==
  ASSUME NEW b \in Universe, b.kind = "Binding", Family(b) = "catalogBinding"
  PROVE  /\ \E c \in Components : b = catalogBinding(c) /\ b.subjects = {SA(c)}
         /\ b.ns = Home /\ NameRights(b.role[2]) = {"read-catalog"}
<1>1. PICK c \in Components : b = catalogBinding(c)
  BY BindingCases DEF CatalogBindings
<1>2. c # "tool"
  BY AllTheComponents
<1>3. b.subjects = {SA(c)} /\ b.ns = Home /\ b.role[2] = <<c, "workflow-catalog">>
  BY <1>1, SMT DEF catalogBinding, Binding
<1>4. NameRights(<<c, "workflow-catalog">>) = {"read-catalog"}
  BY <1>2, SMT DEF NameRights, PairRights
<1> QED
  BY <1>1, <1>3, <1>4

LEMMA McpGives ==
  ASSUME NEW b \in Universe, b.kind = "Binding", Family(b) = "mcpBinding"
  PROVE  b.ns # Everywhere /\ NameRights(b.role[2]) = GatewayTypes
<1>1. PICK s \in Specs, c \in Components : b = mcpBinding(s, c)
  BY BindingCases DEF McpBindings, Gatewayed
<1>2. c # "tool"
  BY AllTheComponents
<1>3. b.role[2] = <<c, "mcpgateway">>
  BY <1>1, SMT DEF mcpBinding, Binding
<1>4. NameRights(<<c, "mcpgateway">>) = GatewayTypes
  BY <1>2, SMT DEF NameRights, PairRights
<1>5. b.ns # Everywhere
  BY Placement DEF Placed, Wide
<1> QED
  BY <1>3, <1>4, <1>5

\* The catalog is read by the agent through its ClusterRole as well.
LEMMA CatalogElsewhere ==
  ASSUME NEW b \in Universe, b.kind = "Binding", NEW sub \in b.subjects,
         "read-catalog" \in NameRights(b.role[2]), Family(b) # "catalogBinding"
  PROVE  \E s \in Specs : b = NamedBinding(s, "kubernaut-agent-investigator-binding")
<1>1. "read-catalog" \notin GatewayTypes /\ "read-catalog" \in CoreRights
  BY DEF GatewayTypes, CoreRights
<1>2. ~Shared("read-catalog", Family(b))
  BY <1>1, McpGives DEF Shared
<1>3. b.name = SourceName("read-catalog", sub)
  BY <1>2, Sourcing DEF Sourced, From
<1>4. \A c : CoreSource("read-catalog", c) = "kubernaut-agent-investigator-binding"
  BY SMT DEF CoreSource
<1>5. b.name = <<"kubernaut-agent-investigator-binding">>
  BY <1>1, <1>3, <1>4, SourceNames
<1>6. Family(b) = "coreBinding"
  BY <1>5, SMT DEF Family, FamilyAt, OfSingle
<1>7. PICK s \in Specs, n \in BindingNames : b = NamedBinding(s, n)
  BY <1>6, BindingCases DEF CoreRoleBindings
<1>8. NamedBinding(s, n).name = <<n>>
  BY DEF NamedBinding, clusterRoleBinding, Binding
<1>9. n = "kubernaut-agent-investigator-binding"
  BY <1>5, <1>7, <1>8, SMT
<1> QED
  BY <1>7, <1>9

LEMMA ConcatHas ==
  ASSUME NEW s, NEW t, IsSeq(s), IsSeq(t), NEW x \in Members(s)
  PROVE  IsSeq(s \o t) /\ x \in Members(s \o t)
  BY Concat

LEMMA IfSeq ==
  ASSUME NEW c, NEW s, IsSeq(s)  PROVE IsSeq(If(c, s))
  BY Empty DEF If

\* The agent's ClusterRole and its binding are deployed under every spec.
LEMMA AgentDeployed ==
  ASSUME NEW s \in Specs
  PROVE  /\ kubernautAgentInvestigatorClusterRole \in Deployed[s]
         /\ NamedBinding(s, "kubernaut-agent-investigator-binding") \in Deployed[s]
<1>1. kubernautAgentInvestigatorClusterRole \in Members(ClusterRoles(s))
  <2> DEFINE r == kubernautAgentInvestigatorClusterRole
             a == <<aianalysisControllerClusterRole, kubernautAgentClientClusterRole,
                    kubernautAgentInvestigatorClusterRole, signalprocessingClusterRole(s),
                    remediationOrchestratorClusterRole, workflowExecutionControllerClusterRole,
                    workflowRunnerClusterRole, effectivenessMonitorControllerClusterRole(s),
                    notificationControllerClusterRole, dataStorageAuthMiddlewareClusterRole,
                    dataStorageClientClusterRole, authWebhookClusterRole>>
             b == a \o If(On(s, "gateway"), <<gatewayClusterRole>>)
             c == b \o <<alertmanagerViewClusterRole>>
             d == c \o If(On(s, "gateway"), <<gatewaySignalSourceClusterRole>>)
             e == d \o If(On(s, "apifrontend"), <<apifrontendClusterRole(s), ConsoleAccessClusterRole>>)
             f == e \o If(On(s, "fmc") /\ s.mcp = Everywhere, <<fleetMetadataCacheClusterRole(s)>>)
             g == f \o If(On(s, "fmc"), <<fleetMetadataCacheAuthMiddlewareClusterRole,
                                          fmcScopeCheckClientClusterRole>>)
             h == g \o If(fleetCallerRBACEnabled(s), <<fleetCallerNodeReaderClusterRole,
                                                       fleetCallerWorkflowExecutionClusterRole>>)
  <2>0. ClusterRoles(s) = h
    BY DEF ClusterRoles
  <2>1. IsSeq(a) /\ r \in Members(a)
    <3> DEFINE S == {a[i] : i \in 1 .. 12}
    <3>1. a \in Seq(S) /\ 3 \in DOMAIN a /\ a[3] = r
      BY SMT
    <3> HIDE DEF a, S
    <3> QED
      BY <3>1 DEF IsSeq, Members
  <2> HIDE DEF a, r
  <2>2. IsSeq(b) /\ r \in Members(b)
    BY <2>1, ConcatHas, IfSeq, Single
  <2> HIDE DEF b
  <2>3. IsSeq(c) /\ r \in Members(c)
    BY <2>2, ConcatHas, Single
  <2> HIDE DEF c
  <2>4. IsSeq(d) /\ r \in Members(d)
    BY <2>3, ConcatHas, IfSeq, Single
  <2> HIDE DEF d
  <2>5. IsSeq(e) /\ r \in Members(e)
    BY <2>4, ConcatHas, IfSeq, Pair
  <2> HIDE DEF e
  <2>6. IsSeq(f) /\ r \in Members(f)
    BY <2>5, ConcatHas, IfSeq, Single
  <2> HIDE DEF f
  <2>7. IsSeq(g) /\ r \in Members(g)
    BY <2>6, ConcatHas, IfSeq, Pair
  <2> HIDE DEF g
  <2>8. r \in Members(h)
    BY <2>7, ConcatHas, IfSeq, Pair
  <2> QED
    BY <2>0, <2>8 DEF r
<1>2. NamedBinding(s, "kubernaut-agent-investigator-binding") \in Members(ClusterRoleBindings(s))
  <2> DEFINE r == NamedBinding(s, "kubernaut-agent-investigator-binding")
             a == [i \in DOMAIN coreBindings |->
                     clusterRoleBinding(coreBindings[i][3], coreBindings[i][2], SA(coreBindings[i][1]))]
             b == a \o <<clusterRoleBinding("workflow-runner-binding", "workflow-runner", Runner(s))>>
             c == b \o If(On(s, "gateway"),
                          <<clusterRoleBinding("gateway-role-binding", "gateway-role", SA("gateway"))>>)
             d == c \o monitoringClusterRoleBindings(s)
             e == d \o If(On(s, "apifrontend"),
                          <<clusterRoleBinding("apifrontend-binding", "apifrontend-role", SA("apifrontend"))>>)
             f == e \o If(On(s, "fmc") /\ s.mcp = Everywhere, <<fleetMetadataCacheClusterRoleBinding>>)
             g == f \o If(On(s, "fmc"),
                          <<clusterRoleBinding("fleetmetadatacache-auth-middleware-binding",
                                "fleetmetadatacache-auth-middleware", SA("fleetmetadatacache"))>>)
             h == g \o If(On(s, "fmc") /\ On(s, "gateway"),
                          <<clusterRoleBinding("gateway-fmc-scope-check-client",
                                "fmc-scope-check-client", SA("gateway"))>>)
             i == h \o If(On(s, "fmc"),
                          <<clusterRoleBinding("remediationorchestrator-fmc-scope-check-client",
                                "fmc-scope-check-client", SA("remediationorchestrator"))>>)
             j == i \o If(fleetCallerRBACEnabled(s),
                          <<groupClusterRoleBinding("fleet-caller-read-view-binding", "view", "fleet-read"),
                            groupClusterRoleBinding("fleet-caller-read-node-reader-binding",
                                "fleet-caller-node-reader", "fleet-read"),
                            groupClusterRoleBinding("fleet-caller-execution-binding",
                                "fleet-caller-workflow-execution", "fleet-execution")>>)
  <2>0. ClusterRoleBindings(s) = j
    BY DEF ClusterRoleBindings
  <2>1. IsSeq(a) /\ r \in Members(a)
    <3>1. DOMAIN coreBindings = 1 .. 10 /\ 2 \in DOMAIN coreBindings
      BY SMT DEF coreBindings
    <3>2. /\ coreBindings[2][3] = "kubernaut-agent-investigator-binding"
          /\ coreBindings[2][2] = RoleRef("kubernaut-agent-investigator-binding")
          /\ SA(coreBindings[2][1]) = SubjectOf(s, "kubernaut-agent-investigator-binding")
      BY SMT DEF coreBindings, RoleRef, SubjectOf
    <3>3. a[2] = r
      BY <3>1, <3>2 DEF NamedBinding
    <3> DEFINE S == {a[k] : k \in 1 .. 10}
    <3>4. a = [k \in 1 .. 10 |-> a[k]] /\ DOMAIN a = 1 .. 10
      BY <3>1
    <3>5. \A k \in 1 .. 10 : a[k] \in S
      OBVIOUS
    <3> HIDE DEF a, S
    <3>6. a \in Seq(S)
      BY <3>4, <3>5, SMT
    <3> QED
      BY <3>1, <3>3, <3>4, <3>6 DEF IsSeq, Members
  <2>2. IsSeq(monitoringClusterRoleBindings(s))
    <3> DEFINE m == <<clusterRoleBinding("effectivenessmonitor-alertmanager-view-binding",
                          "alertmanager-view", SA("effectivenessmonitor")),
                      clusterRoleBinding("effectivenessmonitor-monitoring-view",
                          "cluster-monitoring-view", SA("effectivenessmonitor")),
                      clusterRoleBinding("kubernaut-agent-monitoring-view",
                          "cluster-monitoring-view", SA("kubernaut-agent")),
                      clusterRoleBinding("kubernaut-agent-alertmanager-view-binding",
                          "alertmanager-view", SA("kubernaut-agent"))>>
               n == m \o If(On(s, "gateway"),
                         <<clusterRoleBinding("alertmanager-gateway-signal-source",
                               "gateway-signal-source", <<Openshift, "alertmanager-main">>)>>)
               o == n \o If(On(s, "apifrontend"),
                         <<clusterRoleBinding("apifrontend-monitoring-view",
                               "cluster-monitoring-view", SA("apifrontend"))>>)
    <3>1. monitoringClusterRoleBindings(s) = o
      BY DEF monitoringClusterRoleBindings
    <3>2. IsSeq(m)
      <4>1. \A w, x, y, z : <<w, x, y, z>> \in Seq({w, x, y, z})
        BY SMT
      <4> QED
        BY <4>1 DEF IsSeq
    <3> HIDE DEF m
    <3>3. IsSeq(n)
      BY <3>2, Concat, IfSeq, Single
    <3> HIDE DEF n
    <3>4. IsSeq(o)
      BY <3>3, Concat, IfSeq, Single
    <3> HIDE DEF o
    <3> QED
      BY <3>1, <3>4
  <2> HIDE DEF a, r
  <2>3. IsSeq(b) /\ r \in Members(b)
    BY <2>1, ConcatHas, Single
  <2> HIDE DEF b
  <2>4. IsSeq(c) /\ r \in Members(c)
    BY <2>3, ConcatHas, IfSeq, Single
  <2> HIDE DEF c
  <2>5. IsSeq(d) /\ r \in Members(d)
    BY <2>2, <2>4, ConcatHas
  <2> HIDE DEF d
  <2>6. IsSeq(e) /\ r \in Members(e)
    BY <2>5, ConcatHas, IfSeq, Single
  <2> HIDE DEF e
  <2>7. IsSeq(f) /\ r \in Members(f)
    BY <2>6, ConcatHas, IfSeq, Single
  <2> HIDE DEF f
  <2>8. IsSeq(g) /\ r \in Members(g)
    BY <2>7, ConcatHas, IfSeq, Single
  <2> HIDE DEF g
  <2>9. IsSeq(h) /\ r \in Members(h)
    BY <2>8, ConcatHas, IfSeq, Single
  <2> HIDE DEF h
  <2>10. IsSeq(i) /\ r \in Members(i)
    BY <2>9, ConcatHas, IfSeq, Single
  <2> HIDE DEF i
  <2>11. r \in Members(j)
    BY <2>10, ConcatHas, IfSeq, Triple
  <2> QED
    BY <2>0, <2>11 DEF r
<1>3. /\ kubernautAgentInvestigatorClusterRole \in All(Desired[s].core)
      /\ NamedBinding(s, "kubernaut-agent-investigator-binding") \in All(Desired[s].core)
  <2>1. 1 \in 1 .. 2 /\ 2 \in 1 .. 2
    BY SMT
  <2> QED
    BY <1>1, <1>2, <2>1, Parts DEF All
<1>4. /\ kubernautAgentInvestigatorClusterRole # gatewayAccount
      /\ NamedBinding(s, "kubernaut-agent-investigator-binding") # gatewayAccount
  <2>1. \A n : NamedBinding(s, n).kind = "Binding" /\ NamedBinding(s, n).kind # "ServiceAccount"
    BY SMT DEF NamedBinding, clusterRoleBinding, Binding
  <2>2. gatewayAccount.kind = "ServiceAccount"
    BY SMT DEF gatewayAccount, ServiceAccount
  <2>3. kubernautAgentInvestigatorClusterRole.kind # "ServiceAccount"
    BY SMT DEF kubernautAgentInvestigatorClusterRole, ClusterRole, Role
  <2> QED
    BY <2>1, <2>2, <2>3
<1> QED
  BY <1>3, <1>4, PartsAsked, DeployedIs

\* A write that may come next takes nothing away that is wanted, and what it counts
\* on is there.
Ready(w, s, O) == Harmless(w, s) /\ Needed(w, s) \subseteq O

\* b, or the role of b, is what the write changes.
Hits(o, b) == o = b \/ (o.kind = "Role" /\ <<o.ns, o.name>> = b.role)

LEMMA Changed ==
  ASSUME NEW w, NEW O, NEW o \in O, o \notin Apply(w, O)
  PROVE  Key(w.obj) = Key(o) /\ (w.op = "ensure" => w.obj # o)
  BY DEF Apply

\* A harmless write of something that is deployed is no delete.
LEMMA Rewritten ==
  ASSUME NEW s \in Specs, NEW w, Harmless(w, s), NEW e \in Deployed[s], Key(w.obj) = Key(e)
  PROVE  w.op = "ensure" /\ w.obj = e
<1>1. w.op = "ensure"
  BY DEF Harmless, Keys
<1> QED
  BY <1>1, HarmlessInPool, Deployment, Unique

LEMMA PairParts == ASSUME NEW a, NEW b, NEW c, NEW d, <<a, b>> = <<c, d>>  PROVE a = c /\ b = d
  BY SMT

\* The agent reads the catalog through its own role before its ClusterRole is rewritten.
LEMMA CatalogReadable ==
  ASSUME NEW s \in Specs, NEW O \in SUBSET Universe, NEW w, Ready(w, s, O),
         NEW b \in O, b.kind = "Binding", Family(b) # "catalogBinding",
         NEW sub \in b.subjects, "read-catalog" \in NameRights(b.role[2]),
         NEW d \in Deployed[s], d.kind = "Binding", Family(d) = "catalogBinding", sub \in d.subjects,
         NEW o \in O, o \notin Apply(w, O), Hits(o, b)
  PROVE  <<sub, "read-catalog", d.ns>> \in Held(Apply(w, O))
<1> DEFINE n == "kubernaut-agent-investigator-binding"
           P == Apply(w, O)
           mine == catalogBinding("kubernaut-agent")
           myRole == catalogRole("kubernaut-agent")
<1>1. PICK t \in Specs : b = NamedBinding(t, n)
  BY CatalogElsewhere
<1>2. \A u : SubjectOf(u, n) = SA("kubernaut-agent") /\ RoleRef(n) = "kubernaut-agent-investigator"
  BY SMT DEF SubjectOf, RoleRef
<1>3. NamedBinding(t, n) = NamedBinding(s, n)
  BY <1>2 DEF NamedBinding
<1>4. b \in Deployed[s]
  BY <1>1, <1>3, AgentDeployed
<1>5. o # b
  BY <1>4, Kept DEF Ready
<1>6. b.role = <<Everywhere, <<"kubernaut-agent-investigator">> >> /\ b.subjects = {SA("kubernaut-agent")}
  BY <1>1, <1>2 DEF NamedBinding, clusterRoleBinding, Binding
<1>7. o.kind = "Role" /\ <<o.ns, o.name>> = <<Everywhere, <<"kubernaut-agent-investigator">> >>
  BY <1>5, <1>6 DEF Hits
<1>8. o.ns = Everywhere /\ o.name = <<"kubernaut-agent-investigator">>
  BY <1>7, PairParts
<1>9. Key(o) = Key(OldAgent) /\ Key(o) = Key(kubernautAgentInvestigatorClusterRole)
  BY <1>7, <1>8, SMT DEF Key, OldAgent, kubernautAgentInvestigatorClusterRole, ClusterRole, Role
<1>10. w.op = "ensure" /\ Key(w.obj) = Key(OldAgent)
  <2>1. Key(w.obj) = Key(o)
    BY Changed
  <2>2. Key(w.obj) = Key(kubernautAgentInvestigatorClusterRole) /\ Key(w.obj) = Key(OldAgent)
    BY <1>9, <2>1
  <2> QED
    BY <2>2, AgentDeployed, Rewritten DEF Ready
<1>11. Needed(w, s) = {myRole, mine}
  BY <1>10 DEF Needed
<1>12. myRole \in O /\ mine \in O
  BY <1>11 DEF Ready
<1>13. myRole \in P /\ mine \in P
  BY <1>11, <1>12, NeededDeployed, Kept DEF Ready
<1>14. sub = SA("kubernaut-agent")
  BY <1>6
<1>15. /\ mine.kind = "Binding" /\ mine.ns = Home /\ mine.subjects = {SA("kubernaut-agent")}
       /\ mine.role = <<Home, <<"kubernaut-agent", "workflow-catalog">> >>
       /\ myRole.kind = "Role" /\ myRole.ns = Home /\ myRole.name = <<"kubernaut-agent", "workflow-catalog">>
       /\ myRole.rights = {"read-catalog"}
  BY SMT DEF catalogBinding, catalogRole, Binding, Role
<1>16. d.ns = Home
  BY CatalogGives, Deployment DEF Universe
<1> HIDE DEF P, mine, myRole
<1>17. "read-catalog" \in RightsOf(<<myRole.ns, myRole.name>>, P)
  BY <1>13, <1>15, GivenBy
<1>18. "read-catalog" \in RightsOf(mine.role, P)
  BY <1>15, <1>17
<1>19. <<sub, "read-catalog", mine.ns>> \in Held(P)
  BY <1>13, <1>14, <1>15, <1>18, HeldBy
<1> QED
  BY <1>15, <1>16, <1>19 DEF P

\* The tools are given by the bindings of the personas.
LEMMA PersonaBinding ==
  ASSUME NEW b \in Universe, b.kind = "Binding", Family(b) = "tool",
         "use-tools" \in NameRights(b.role[2])
  PROVE  \E p \in Personas : b.role = <<Everywhere, <<"tool", p>> >>
<1>1. PICK s \in Specs, r \in Personas \cup ExtraRoles : b = toolBinding(s, r)
  BY BindingCases DEF ToolBindings
<1>2. /\ toolBinding(s, r).role = <<Everywhere, IF r \in Personas THEN <<"tool", r>> ELSE <<r>> >>
      /\ toolBinding(s, r).role[2] = IF r \in Personas THEN <<"tool", r>> ELSE <<r>>
  BY SMT DEF toolBinding, Binding
<1>3. r \in Personas
  <2> SUFFICES ASSUME r \notin Personas  PROVE FALSE
    OBVIOUS
  <2>1. NameRights(<<r>>) = SingleRights(r)
    BY SMT DEF NameRights
  <2>2. SingleRights(r) = {r}
    BY <1>1, OthersRoles
  <2>3. b.role[2] = <<r>>
    BY <1>1, <1>2
  <2>4. r = "use-tools"
    BY <2>1, <2>2, <2>3
  <2>5. "use-tools" \in Reserved
    BY DEF Reserved
  <2> QED
    BY <1>1, <2>4, <2>5, ExtraRolesAssumption
<1> QED
  BY <1>1, <1>2, <1>3

\* The role of a persona is the same under every spec.
LEMMA PersonaRole ==
  ASSUME NEW o \in Universe, o.kind = "Role", NEW p \in Personas,
         <<o.ns, o.name>> = <<Everywhere, <<"tool", p>> >>
  PROVE  o = toolRole(p) /\ Family(o) = "toolRole"
<1>1. o.name = <<"tool", p>> /\ o.ns = Everywhere
  BY PairParts
<1>2. Family(o) = "toolRole"
  <2>1. \A x : FamilyAt("Role", <<"tool", x>>) = "toolRole"
    BY SMT DEF FamilyAt, OfPair
  <2> QED
    BY <1>1, <2>1 DEF Family
<1>3. Family(OldAgent) # "toolRole"
  <2>1. \A x : FamilyAt("Role", <<x>>) # "toolRole"
    BY SMT DEF FamilyAt, OfSingle
  <2>2. OldAgent.kind = "Role" /\ OldAgent.name = <<"kubernaut-agent-investigator">>
    BY DEF OldAgent, ClusterRole, Role
  <2> QED
    BY <2>1, <2>2 DEF Family
<1>4. PICK s \in Specs : o \in Pool(s)
  BY <1>2, <1>3, InUniverse
<1>5. toolRole(p) \in ToolRoles
  BY DEF ToolRoles
<1>6. toolRole(p) \in Pool(s)
  BY <1>5, SMT DEF Pool
<1>7. Key(o) = Key(toolRole(p))
  BY <1>1, SMT DEF Key, toolRole, Role
<1> QED
  BY <1>2, <1>4, <1>6, <1>7, Unique

\* Where one persona's role is deployed, all are.
LEMMA AllPersonas ==
  ASSUME NEW s \in Specs, NEW e \in Deployed[s], Family(e) = "toolRole", NEW p \in Personas
  PROVE  toolRole(p) \in Deployed[s]
<1>1. e \in Members(ToolClusterRoles(s))
  BY Deployment, DesiredIs
<1>2. On(s, "apifrontend")
  <2>1. ~On(s, "apifrontend") => ToolClusterRoles(s) = <<>>
    BY DEF ToolClusterRoles, If
  <2> QED
    BY <1>1, <2>1, Empty
<1>3. toolRole(p) \in Members(Desired[s].toolRoles)
  BY <1>2, PersonaRoles, DesiredIs DEF ToolRoles
<1>4. toolRole(p) \in AskedFor(s)
  BY <1>3, PartsAsked
<1>5. toolRole(p) # gatewayAccount
  <2>1. toolRole(p).kind # "ServiceAccount" /\ gatewayAccount.kind = "ServiceAccount"
    BY SMT DEF toolRole, Role, gatewayAccount, ServiceAccount
  <2> QED
    BY <2>1
<1> QED
  BY <1>4, <1>5, DeployedIs

\* What a write may take all the same, in the state O
Excepted(sub, rt, s, O) ==
  \/ rt \in GatewayTypes /\ s.mcp # Everywhere
  \/ /\ rt = "use-tools"
     /\ \E c \in O, e \in Desired[s].tools :
           c.kind = "Binding" /\ Key(c) = Key(e) /\ sub \in c.subjects \ e.subjects

\* A group keeps the tools, unless its binding is rewritten without it.
LEMMA ToolsUsable ==
  ASSUME NEW s \in Specs, NEW O \in SUBSET Universe, NEW w, Ready(w, s, O),
         NEW b \in O, b.kind = "Binding", NEW sub \in b.subjects, "use-tools" \in RightsOf(b.role, O),
         NEW d \in Deployed[s], d.kind = "Binding", sub \in d.subjects,
         "use-tools" \in RightsOf(d.role, Deployed[s]),
         NEW o \in O, o \notin Apply(w, O), Hits(o, b)
  PROVE  Excepted(sub, "use-tools", s, O) \/ <<sub, "use-tools", d.ns>> \in Held(Apply(w, O))
<1> DEFINE P == Apply(w, O)
<1>1. Deployed[s] \in SUBSET Universe
  BY Deployment DEF Universe
<1>2. d \in Universe
  BY <1>1
<1>3. "use-tools" \in NameRights(b.role[2]) /\ "use-tools" \in NameRights(d.role[2])
  BY <1>1, <1>2, MayGive
<1>4. Family(b) = "tool" /\ Family(d) = "tool"
  BY <1>2, <1>3, ToolGivers
<1>5. b.ns = Everywhere /\ d.ns = Everywhere
  BY <1>2, <1>4, Placement DEF Placed, Wide
<1>6. "use-tools" \notin BuiltIn \cup ExtraRoles
  <2>1. "use-tools" \in Reserved /\ "use-tools" \notin BuiltIn
    BY DEF Reserved, BuiltIn
  <2> QED
    BY <2>1, ExtraRolesAssumption
<1>7. PICK p \in Personas : b.role = <<Everywhere, <<"tool", p>> >>
  BY <1>3, <1>4, PersonaBinding
<1>8. PICK q \in Personas : d.role = <<Everywhere, <<"tool", q>> >>
  BY <1>2, <1>3, <1>4, PersonaBinding
<1>9. PICK br \in O : br.kind = "Role" /\ <<br.ns, br.name>> = b.role /\ "use-tools" \in br.rights
  BY <1>6, RoleOf
<1>10. PICK dr \in Deployed[s] : dr.kind = "Role" /\ <<dr.ns, dr.name>> = d.role /\ "use-tools" \in dr.rights
  BY <1>6, RoleOf
<1>11. Family(dr) = "toolRole"
  <2>1. dr \in Universe /\ <<dr.ns, dr.name>> = <<Everywhere, <<"tool", q>> >>
    BY <1>1, <1>8, <1>10
  <2> QED
    BY <1>10, <2>1, PersonaRole
<1>12. CASE o = b
  <2>0. Key(w.obj) = Key(b)
    BY <1>12, Changed
  <2>1. Key(w.obj) = Key(b) /\ Family(w.obj) = "tool"
    BY <1>4, <2>0, SameFamily
  <2>2. CASE w.op = "delete"
    <3>1. Needed(w, s) = Members(Desired[s].toolRoles) \cup Desired[s].tools
      BY <2>1, <2>2 DEF Needed
    <3>2. d \in O /\ dr \in O
      BY <1>4, <1>11, <3>1, Deployment DEF Ready
    <3>3. d \in P /\ dr \in P
      BY <3>2, Kept DEF Ready
    <3> HIDE DEF P
    <3>4. "use-tools" \in RightsOf(d.role, P)
      BY <1>10, <3>3, GivenBy
    <3> QED
      BY <3>3, <3>4, HeldBy DEF P
  <2>3. CASE w.op = "ensure"
    <3>1. w.obj \in Deployed[s]
      <4>1. Family(gatewayAccount) = "account"
        BY SMT DEF Family, FamilyAt, gatewayAccount, ServiceAccount
      <4> QED
        BY <2>1, <2>3, <4>1 DEF Ready, Harmless
    <3>2. w.obj \in Desired[s].tools
      BY <2>1, <3>1, Deployment
    <3>3. CASE sub \notin w.obj.subjects
      BY <2>1, <3>2, <3>3 DEF Excepted
    <3>4. CASE sub \in w.obj.subjects
      <4>1. w.obj.kind = "Binding" /\ w.obj.ns = b.ns /\ w.obj.name = b.name
        BY <2>1, KeyOf
      <4>2. w.obj.role = b.role
        BY <1>1, <1>4, <2>1, <3>1, <4>1, Placement DEF Placed
      <4>3. Key(br) # Key(w.obj)
        BY <1>9, <4>1, KeyOf
      <4>4. br \in P /\ w.obj \in P
        BY <2>3, <4>3 DEF Apply
      <4> HIDE DEF P
      <4>5. "use-tools" \in RightsOf(w.obj.role, P)
        BY <1>9, <4>2, <4>4, GivenBy
      <4>6. <<sub, "use-tools", w.obj.ns>> \in Held(P)
        BY <3>4, <4>1, <4>4, <4>5, HeldBy
      <4> QED
        BY <1>5, <4>1, <4>6 DEF P
    <3> QED
      BY <3>3, <3>4
  <2> QED
    BY <2>2, <2>3 DEF Ready, Harmless
<1>13. CASE o.kind = "Role" /\ <<o.ns, o.name>> = b.role
  <2>1. o = toolRole(p)
    BY <1>7, <1>13, PersonaRole
  <2>2. toolRole(p) \in Deployed[s]
    BY <1>11, AllPersonas
  <2> QED
    BY <2>1, <2>2, Kept DEF Ready
<1> QED
  BY <1>12, <1>13 DEF Hits

\* No write that is ready takes away what its spec grants.
LEMMA WriteKeeps ==
  ASSUME NEW s \in Specs, NEW O \in SUBSET Universe, NEW w, Ready(w, s, O),
         NEW b \in O, b.kind = "Binding", NEW sub \in b.subjects, NEW rt \in RightsOf(b.role, O),
         NEW d \in Deployed[s], d.kind = "Binding", sub \in d.subjects, rt \in RightsOf(d.role, Deployed[s]),
         b.ns \in {d.ns, Everywhere}, NEW o \in O, o \notin Apply(w, O), Hits(o, b)
  PROVE  Excepted(sub, rt, s, O) \/ <<sub, rt, d.ns>> \in Held(Apply(w, O))
<1>1. Deployed[s] \in SUBSET Universe
  BY Deployment DEF Universe
<1>2. d \in Universe
  BY <1>1
<1>3. rt \in NameRights(b.role[2]) /\ rt \in NameRights(d.role[2])
  BY <1>1, <1>2, MayGive
<1>4. CASE rt = "use-tools"
  <2>1. "use-tools" \in RightsOf(b.role, O) /\ "use-tools" \in RightsOf(d.role, Deployed[s])
    BY <1>4
  <2>2. Excepted(sub, "use-tools", s, O) \/ <<sub, "use-tools", d.ns>> \in Held(Apply(w, O))
    BY <2>1, ToolsUsable
  <2> QED
    BY <1>4, <2>2
<1>5. CASE Family(d) = "mcpBinding"
  <2>1. rt \in GatewayTypes
    BY <1>2, <1>3, <1>5, McpGives
  <2>2. d \in McpBindings(s)
    BY <1>5, Deployment, InFamily
  <2> QED
    BY <2>1, <2>2 DEF Excepted, McpBindings, Gatewayed
<1>6. CASE rt # "use-tools" /\ Family(d) # "mcpBinding" /\ Family(b) = "mcpBinding"
  <2>1. rt \in GatewayTypes /\ b.ns # Everywhere
    BY <1>3, <1>6, McpGives
  <2>2. rt # "read-catalog" /\ rt \in CoreRights
    BY <2>1 DEF GatewayTypes, CoreRights
  <2>3. Family(d) # "catalogBinding"
    BY <1>2, <1>3, <2>2, CatalogGives
  <2>4. d.name = SourceName(rt, sub)
    BY <1>2, <1>3, <1>6, <2>3, Sourcing DEF Sourced, From, Shared
  <2>5. d.name = <<CoreSource(rt, sub[2])>>
    BY <2>2, <2>4, CoreReserved DEF SourceName
  <2>6. \A x : FamilyAt("Binding", <<x>>) \in Wide
    BY SMT DEF FamilyAt, OfSingle, Wide
  <2>7. Family(d) \in Wide
    BY <2>5, <2>6 DEF Family
  <2>8. d.ns = Everywhere
    BY <1>2, <2>7, Placement DEF Placed
  <2> QED
    BY <2>1, <2>8
<1>7. CASE rt # "use-tools" /\ Family(b) = "catalogBinding"
  <2>1. PICK x \in Components : b = catalogBinding(x) /\ b.subjects = {SA(x)}
    BY <1>7, CatalogGives
  <2>2. rt = "read-catalog" /\ b.ns = Home /\ Home # Everywhere
    <3>1. Home # Everywhere
      BY SMT DEF Home, Everywhere
    <3> QED
      BY <1>3, <1>7, <3>1, CatalogGives
  <2>3. CASE Family(d) = "catalogBinding"
    <3>1. PICK y \in Components : d = catalogBinding(y) /\ d.subjects = {SA(y)}
      BY <1>2, <2>3, CatalogGives
    <3>2. SA(x) = SA(y)
      BY <2>1, <3>1
    <3>3. x = y
      BY <3>2, SMT DEF SA
    <3> QED
      BY <2>1, <3>1, <3>3, Regular DEF Ready
  <2>4. CASE Family(d) # "catalogBinding"
    <3>1. PICK t \in Specs : d = NamedBinding(t, "kubernaut-agent-investigator-binding")
      BY <1>2, <1>3, <2>2, <2>4, CatalogElsewhere
    <3>2. d.ns = Everywhere
      BY <3>1 DEF NamedBinding, clusterRoleBinding, Binding
    <3> QED
      BY <2>2, <3>2
  <2> QED
    BY <2>3, <2>4
<1>8. CASE Family(d) = "catalogBinding" /\ Family(b) # "catalogBinding"
  <2>1. rt = "read-catalog"
    BY <1>2, <1>3, <1>8, CatalogGives
  <2> QED
    BY <1>3, <1>8, <2>1, CatalogReadable
<1>9. CASE /\ rt # "use-tools" /\ Family(b) \notin {"mcpBinding", "catalogBinding"}
           /\ Family(d) \notin {"mcpBinding", "catalogBinding"}
  <2>1. Key(b) = Key(d)
    BY <1>2, <1>3, <1>9, SameBinding DEF Shared
  <2> QED
    BY <2>1, Regular DEF Ready
<1> QED
  BY <1>4, <1>5, <1>6, <1>7, <1>8, <1>9

LEMMA DueReady ==
  ASSUME IInv, Ordered, kn.state = "live", NEW i \in DOMAIN todo, NEW w \in todo[i], Due(i, w)
  PROVE  Ready(w, kn.spec, objs)
<1>1. Harmless(w, kn.spec) /\ \A x \in Needed(w, kn.spec) : Before(x, i, objs, todo)
  BY DEF Ordered
<1>2. \A x : \A j \in DOMAIN todo : j < i => ~Ensured(x, todo[j])
  BY DEF Due, Ensured
<1> QED
  BY <1>1, <1>2 DEF Ready, Before

LEMMA StepKeeps ==
  ASSUME IInv, Ordered, Write, kn.state = "live", NEW r \in Lost(objs, objs'),
         NEW g \in Granted[kn.spec], Holds(g, {r})
  PROVE  Moved(g) \/ Regrouped(g) \/ Holds(g, Held(objs'))
<1> DEFINE s == kn.spec
<1>1. s \in Specs /\ objs \in SUBSET Universe
  BY DEF IInv, TypeInv, CRType
<1>2. PICK i \in DOMAIN todo : \E w \in todo[i] : Due(i, w) /\ objs' = Apply(w, objs)
  BY DEF Write
<1>3. PICK w \in todo[i] : Due(i, w) /\ objs' = Apply(w, objs)
  BY <1>2
<1>4. Ready(w, s, objs)
  BY <1>3, DueReady
<1>5. PICK b \in Bindings(objs) : /\ r \in b.subjects \X RightsOf(b.role, objs) \X {b.ns}
                                 /\ \E o \in objs \ objs' : Hits(o, b)
  BY DEF Lost, Hits
<1>6. PICK o \in objs \ objs' : Hits(o, b)
  BY <1>5
<1>7. g \in Held(Deployed[s])
  BY <1>1 DEF Granted
<1>8. PICK d \in Bindings(Deployed[s]) : g \in d.subjects \X RightsOf(d.role, Deployed[s]) \X {d.ns}
  BY <1>7 DEF Held
<1> DEFINE sub == g[1]
           rt == g[2]
<1>9. /\ sub \in d.subjects /\ rt \in RightsOf(d.role, Deployed[s]) /\ g = <<sub, rt, d.ns>>
      /\ r[1] \in b.subjects /\ r[2] \in RightsOf(b.role, objs) /\ r[3] = b.ns
  BY <1>5, <1>8, SMT
<1>10. g = r \/ <<g[1], g[2], Everywhere>> = r
  BY DEF Holds
<1>11. sub \in b.subjects /\ rt \in RightsOf(b.role, objs) /\ b.ns \in {d.ns, Everywhere}
  <2>1. CASE g = r
    <3>1. g[3] = d.ns
      BY <1>9, SMT
    <3> QED
      BY <1>9, <2>1, <3>1
  <2>2. CASE <<g[1], g[2], Everywhere>> = r
    <3>1. r[1] = sub /\ r[2] = rt /\ r[3] = Everywhere
      BY <2>2, SMT
    <3> QED
      BY <1>9, <3>1
  <2> QED
    BY <1>10, <2>1, <2>2
<1> HIDE DEF sub, rt
<1>12. Excepted(sub, rt, s, objs) \/ <<sub, rt, d.ns>> \in Held(Apply(w, objs))
  BY <1>1, <1>3, <1>4, <1>5, <1>6, <1>8, <1>9, <1>11, WriteKeeps DEF Bindings
<1>13. CASE Excepted(sub, rt, s, objs)
  BY <1>13 DEF Excepted, Moved, Regrouped, Bindings, sub, rt
<1>14. CASE <<sub, rt, d.ns>> \in Held(Apply(w, objs))
  BY <1>3, <1>9, <1>14 DEF Holds
<1> QED
  BY <1>12, <1>13, <1>14

\* A step that leaves the objects alone loses nothing.
LEMMA NothingLost == ASSUME NEW O, NEW r \in Lost(O, O)  PROVE FALSE
  BY SMT DEF Lost

\* Through every pass over a live CR, whatever edits, failed calls and restarts
\* come between, no write of deployRBAC takes away a right that the spec it deploys
\* grants, apart from the two exceptions named at KeepsWhatIsWanted: for any set of
\* specs, of administrators' roles and of groups.
THEOREM WantedRightsKept == Spec => KeepsWhatIsWanted
<1> DEFINE Keeps == kn.state = "live" =>
              \A r \in Lost(objs, objs') : \A g \in Granted[kn.spec] :
                 Holds(g, {r}) => Moved(g) \/ Regrouped(g) \/ Holds(g, Held(objs'))
<1>1. IInv /\ Ordered /\ [Next]_vars => [Keeps]_vars
  <2> SUFFICES ASSUME IInv, Ordered, Next  PROVE Keeps
    OBVIOUS
  <2>1. CASE Write
    BY <2>1, StepKeeps
  <2>2. CASE ~Write
    <3>1. objs' = objs
      BY <2>2 DEF Next, Reconciler, Begin, PatchStatus, End, RemoveFinalizer, FailDelete, EditCR,
         DeleteCR, Restart
    <3> QED
      BY <3>1, NothingLost
  <2> QED
    BY <2>1, <2>2
<1> QED
  BY <1>1, InOrderAlways, PTL DEF Spec, KeepsWhatIsWanted

=============================================================================
