----------------------------- MODULE MCRendering -----------------------------
(***************************************************************************)
(* Rendering on specs that differ in which references are shared.          *)
(***************************************************************************)
EXTENDS Rendering, TLC

Profile(cred, oauth2, ca, client) ==
  [cred |-> cred, oauth2 |-> oauth2, tls |-> [ca |-> ca, client |-> client]]
Off(ref) == [enabled |-> FALSE, ref |-> ref]
On(ref)  == [enabled |-> TRUE, ref |-> ref]
Trust(source, ref) == [source |-> source, ref |-> ref]
InterService == Trust("interService", NoRef)
NoTelemetry == [network |-> FALSE, ca |-> NoRef, client |-> NoRef]

\* One profile for everybody, every option off.
Plain ==
  [profiles |-> ("base" :> Profile("llm", Off(NoRef), NoRef, NoRef)),
   investigation |-> NoRef, workflowDiscovery |-> NoRef, alignment |-> NoRef, alignmentEnabled |-> FALSE,
   runtimeConfigMap |-> NoRef, gateway |-> TRUE, apiFrontend |-> TRUE, afProfile |-> NoRef,
   triageProfile |-> NoRef, llmTriage |-> TRUE, console |-> FALSE, consoleSecret |-> NoRef,
   fleet |-> FALSE, backend |-> "none", acm |-> [tls |-> InterService, token |-> NoRef],
   mcpTLS |-> InterService, oauth2TLS |-> InterService, fleetOAuth2Ref |-> NoRef,
   override |-> [c \in FleetReaders \cup {"fleetmetadatacache"} |-> NoRef], weFleetRef |-> NoRef,
   telemetry |-> [c \in {"gateway", "datastorage", "kubernaut-agent"} |-> NoTelemetry],
   monitoringCA |-> NoRef, valkey |-> [tls |-> FALSE, ca |-> NoRef, client |-> NoRef],
   signing |-> "signing", tlsMode |-> "service-ca", manualCA |-> NoRef,
   aiPolicy |-> "ai-policy", spPolicy |-> "sp-policy", routing |-> NoRef, credentials |-> {}, aapCA |-> NoRef,
   consoleIssuer |-> FALSE, lowConfidenceFloor |-> TRUE, noImage |-> {}]

Roles(s, inv, wd, al) ==
  [s EXCEPT !.investigation = inv, !.workflowDiscovery = wd, !.alignment = al, !.alignmentEnabled = TRUE,
            !.afProfile = inv]

\* The siblings share the base profile's Secret, but the base has OAuth2 off.
DisabledBase ==
  Roles([Plain EXCEPT !.profiles = "base" :> Profile("llm", Off("oa"), NoRef, NoRef)
                                 @@ "wd"  :> Profile("llm", On("oa"), "ca", NoRef)
                                 @@ "al"  :> Profile("llm2", On("oa"), "ca", "client")],
        "base", "wd", "al")

\* The siblings share everything with the base profile, or half of it.
SharedBase ==
  Roles([Plain EXCEPT !.profiles = "base" :> Profile("llm", On("oa"), "ca", "client")
                                 @@ "wd"  :> Profile("llm", On("oa"), "ca", "client")
                                 @@ "al"  :> Profile("llm", On("oa2"), "ca", NoRef),
                      !.console = TRUE, !.consoleSecret = "console-auth", !.consoleIssuer = TRUE],
        "base", "wd", "al")

\* Triage on a profile of its own, and the administrator's runtime ConfigMap.
Triage ==
  [Roles(SharedBase, "base", "wd", "base") EXCEPT
     !.triageProfile = "al", !.runtimeConfigMap = "my-runtime", !.routing = "my-routing",
     !.credentials = {"slack"}, !.monitoringCA = "monitoring-ca", !.gateway = FALSE]

TriageOff == [Triage EXCEPT !.llmTriage = FALSE, !.profiles["al"].cred = "llm3", !.aapCA = "aap-ca"]

Fleet ==
  [Plain EXCEPT !.fleet = TRUE, !.backend = "acm", !.acm = [tls |-> Trust("secret", "acm-ca"), token |-> "acm-token"],
     !.mcpTLS = Trust("secret", "mcp-ca"), !.fleetOAuth2Ref = "fleet-oauth2", !.weFleetRef = "we-oauth2",
     !.override["gateway"] = "gw-oauth2",
     !.telemetry["gateway"] = [network |-> TRUE, ca |-> "otel-ca", client |-> "otel-client"],
     !.telemetry["datastorage"] = [network |-> TRUE, ca |-> NoRef, client |-> "otel-client"]]

FleetCache ==
  [Fleet EXCEPT !.backend = "fleetmetadatacache", !.acm = [tls |-> InterService, token |-> NoRef],
     !.oauth2TLS = Trust("secret", "oauth2-ca"), !.mcpTLS = Trust("system", NoRef),
     !.override["fleetmetadatacache"] = "fmc-oauth2", !.override["apifrontend"] = "af-oauth2",
     !.valkey = [tls |-> TRUE, ca |-> "valkey-ca", client |-> NoRef], !.gateway = FALSE]

Manual ==
  [DisabledBase EXCEPT !.tlsMode = "manual", !.manualCA = "my-ca", !.apiFrontend = FALSE,
     !.telemetry["kubernaut-agent"] = [network |-> TRUE, ca |-> "otel-ca", client |-> NoRef]]

ManualFrontend == [Manual EXCEPT !.apiFrontend = TRUE]

\* Not valid: an unresolvable reference; and Consoles that cannot be built.
Dangling == [SharedBase EXCEPT !.investigation = "gone"]
NoConsoleSecret == [SharedBase EXCEPT !.consoleSecret = NoRef]
NoConsoleIssuer == [NoConsoleSecret EXCEPT !.consoleIssuer = FALSE]

\* Valid, and yet not to be built.
BadFloor == [Plain EXCEPT !.lowConfidenceFloor = FALSE]
NoImage  == [Plain EXCEPT !.noImage = {"datastorage"}]

MCSpecOf ==
  [plain |-> Plain, disabled_base |-> DisabledBase, shared_base |-> SharedBase, triage |-> Triage,
   triage_off |-> TriageOff, fleet |-> Fleet, fleet_cache |-> FleetCache, manual |-> Manual,
   manual_frontend |-> ManualFrontend, dangling |-> Dangling, no_console_secret |-> NoConsoleSecret,
   no_console_issuer |-> NoConsoleIssuer, bad_floor |-> BadFloor, no_image |-> NoImage]
MCRevisions == DOMAIN MCSpecOf
MCEditTargets == {"shared_base", "fleet_cache", "no_console_secret", "no_console_issuer"}
=============================================================================
