--------------------------- MODULE MaterialRollout ---------------------------
(***************************************************************************)
(* How a change of administrator-owned material reaches the pods.          *)
(*                                                                         *)
(* Credentials and CAs are read once, when a process starts.  The operator *)
(* never copies them: it validates the objects, derives a revision from    *)
(* their resourceVersions and stamps it on the pod templates of the        *)
(* components that consume them, so that a change rolls exactly those.     *)
(* Objects are read from the manager's cache.  A pod of a template that is  *)
(* stamped with a version starts after that version was read, and mounts   *)
(* it or a newer one: the pods themselves are left out.                    *)
(* The ambient trust bundle is different: the operator derives it from the *)
(* service CA that OpenShift injects and from the ingress CA, both read    *)
(* from the API server and left out when that fails, and then treats its   *)
(* own ConfigMap as material.                                              *)
(*                                                                         *)
(* The CR is one that uses everything: telemetry in three components, a    *)
(* monitoring CA, fleet trust, a signing certificate, tls.mode service-ca. *)
(* Left out: Secrets that are mounted and only checked for existence (LLM  *)
(* credentials, Console), serving certificates, and the audit hash key.    *)
(***************************************************************************)
EXTENDS Naturals, Sequences

CONSTANTS Builders,      \* the components, in the order they are deployed
          Changing,      \* the Secrets an administrator may change
          MaxEvents      \* bound: changes of Secrets and CAs, failed reads and passes

Components == {Builders[i] : i \in DOMAIN Builders}

AdminSecrets == {"postgresql", "valkey", "signing", "monitoring", "mcp-gateway",
            "fleet-oauth2", "otlp-gateway", "otlp-agent"}

Materials == AdminSecrets \cup {"ambient"}

ASSUME MaterialRolloutAssumption ==
  Changing \subseteq AdminSecrets /\ MaxEvents \in Nat

VARIABLES live, cache,      \* Secrets: resourceVersion and state; cached copy
          sources,          \* CAs that the ambient bundle is derived from
          bundle, cbundle,  \* the trust bundle ConfigMap; cached copy
          stage, revs,      \* the pass, and the revisions it has derived
          template,         \* revisions on each component's pod template
          byo,              \* condition BYOValidated
          rolls,            \* history: changes of each pod template
          events

objects     == <<live, cache, sources, bundle, cbundle>>
pass        == <<stage, revs>>
rolloutVars == <<objects, pass, template, byo, rolls, events>>

-----------------------------------------------------------------------------
(* Validation.                                                             *)

\* Mutant: the monitoring CA is not looked at.
ValidatedButMonitoring == AdminSecrets \ {"signing", "monitoring"}

\* The Secrets that phaseValidate checks: database inputs, telemetry, fleet
\* trust and monitoring.  With OpenShift's service CA nothing checks the
\* signing Secret.
ValidatedSecrets == AdminSecrets \ {"signing"}

\* An absent or empty bundle is pending, not a reason to go on without.
validateTelemetryAmbientTrust == cbundle.rv # 0 /\ cbundle.parts # {}

-----------------------------------------------------------------------------
(* Revisions and stamps.                                                   *)

\* resourceVersion of the cached object; a missing signing Secret is a
\* revision, anything else that is missing ends the pass.
telemetryMaterialRevisions ==
  [o \in Materials |-> IF o = "ambient" THEN cbundle.rv
                       ELSE IF cache[o].state = "missing" THEN 0 ELSE cache[o].rv]

RevisionsReadable == \A o \in AdminSecrets \ {"signing", "fleet-oauth2"} : cache[o].state # "missing"

\* Mutant: every producer is stamped with the Secrets of all lanes.
stampTelemetryAllLanes(c) ==
  IF c \in {"gateway", "datastorage", "kubernaut-agent"}
  THEN {"ambient", "otlp-gateway", "otlp-agent"} ELSE {}

stampTelemetryMaterialRevision(c) ==
  CASE c = "gateway"         -> {"ambient", "otlp-gateway"}
    [] c = "datastorage"     -> {"ambient"}
    [] c = "kubernaut-agent" -> {"ambient", "otlp-agent"}
    [] OTHER                 -> {}

stampFleetMCPGatewayMaterialRevision(c) ==
  IF c \in {"gateway", "remediationorchestrator", "signalprocessing", "apifrontend",
            "effectivenessmonitor", "workflowexecution", "kubernaut-agent", "fleetmetadatacache"}
  THEN {"mcp-gateway"} ELSE {}

stampDataStorageSigningMaterialRevision(c) == IF c = "datastorage" THEN {"signing"} ELSE {}
stampDataStorageDependencyRevision(c) ==
  IF c = "datastorage" THEN {"postgresql", "valkey"} ELSE {}

\* Mutant: a consumer of the monitoring CA is forgotten.
stampMonitoringForgetful(c) ==
  IF c \in {"effectivenessmonitor", "apifrontend"} THEN {"monitoring"} ELSE {}

stampMonitoringMaterialRevision(c) ==
  IF c \in {"effectivenessmonitor", "kubernaut-agent", "apifrontend"} THEN {"monitoring"} ELSE {}

Stamps(c) ==
  stampTelemetryMaterialRevision(c) \cup stampFleetMCPGatewayMaterialRevision(c)
    \cup stampDataStorageSigningMaterialRevision(c) \cup stampDataStorageDependencyRevision(c)
    \cup stampMonitoringMaterialRevision(c)

\* The volumes of the Deployment builders: all of them have the trust bundle, the
\* fleet-aware ones the fleet's Secrets.
Mounts(c) ==
  {"ambient"}
    \cup (IF c \in {"gateway", "remediationorchestrator", "signalprocessing", "apifrontend",
                    "effectivenessmonitor", "workflowexecution", "kubernaut-agent", "fleetmetadatacache"}
         THEN {"mcp-gateway", "fleet-oauth2"} ELSE {})
    \cup (CASE c = "datastorage"          -> {"postgresql", "valkey", "signing"}
            [] c = "gateway"              -> {"otlp-gateway"}
            [] c = "kubernaut-agent"      -> {"monitoring", "otlp-agent"}
            [] c = "effectivenessmonitor" -> {"monitoring"}
            [] c = "apifrontend"          -> {"monitoring", "valkey"}
            [] OTHER                      -> {})

Stamped(c) == [o \in Materials |-> IF o \in Stamps(c) THEN revs[o] ELSE 0]

-----------------------------------------------------------------------------
(* The pass.                                                               *)

None == [o \in Materials |-> 0]

\* Whatever a pass read is forgotten when it ends.
EndPass == stage' = "idle" /\ revs' = None

\* Changes and faults share one budget.
Event == events < MaxEvents /\ events' = events + 1

\* What ensureNamespaced compares with: the cached ConfigMap, or the live one
\* if the cache has none and creating it fails.
Existing == IF cbundle.rv = 0 THEN bundle ELSE cbundle

\* TrustBundleConfigMap(read): `read` is what could be read of the sources; the
\* ConfigMap is created or updated when it differs.
TrustBundleConfigMap(read) ==
  \/ Existing.rv # 0 /\ Existing.parts = read /\ UNCHANGED bundle
  \/ /\ Existing = bundle /\ (bundle.rv = 0 \/ bundle.parts # read)
     /\ bundle' = [rv |-> bundle.rv + 1, parts |-> read]

\* The sources that are read, and whether a read failed.
Reads(read) ==
  \/ read = sources /\ UNCHANGED events
  \/ read \in (SUBSET sources) \ {sources} /\ Event

\* phaseValidate: the Secrets, then the bundle.
phaseValidate(read) ==
  /\ stage = "idle"
  /\ \/ /\ \E o \in ValidatedSecrets : cache[o].state # "valid"
        /\ byo' = FALSE /\ EndPass /\ read = sources /\ UNCHANGED <<bundle, events>>
     \/ /\ \A o \in ValidatedSecrets : cache[o].state = "valid"
        /\ Reads(read) /\ TrustBundleConfigMap(read)
        /\ IF validateTelemetryAmbientTrust
           THEN stage' = "validated" /\ byo' = TRUE /\ UNCHANGED revs
           ELSE byo' = FALSE /\ EndPass
  /\ UNCHANGED <<live, cache, sources, cbundle, template, rolls>>

\* deployConfigMaps writes the bundle again.
deployConfigMaps(read) ==
  /\ stage = "validated" /\ cache["postgresql"].state # "missing"
  /\ Reads(read) /\ TrustBundleConfigMap(read)
  /\ stage' = "rendered"
  /\ UNCHANGED <<live, cache, sources, cbundle, revs, template, byo, rolls>>

\* phaseDeploy reads the PostgreSQL Secret before anything else of this.
DatabaseMissing ==
  /\ stage = "validated" /\ cache["postgresql"].state = "missing" /\ EndPass
  /\ UNCHANGED <<objects, template, byo, rolls, events>>

\* The cached ConfigMap is outdated: the update conflicts and the pass fails,
\* in phaseValidate with a condition.
BundleConflict ==
  /\ Existing # bundle /\ Existing.parts # sources
  /\ \/ stage = "idle" /\ (\A o \in ValidatedSecrets : cache[o].state = "valid") /\ byo' = FALSE
     \/ stage = "validated" /\ cache["postgresql"].state # "missing" /\ UNCHANGED byo
  /\ EndPass
  /\ UNCHANGED <<objects, template, rolls, events>>

\* The bundle is checked again before the revisions are derived.
deriveRevisions ==
  \/ /\ stage = "rendered"
     /\ IF validateTelemetryAmbientTrust THEN stage' = "checked" /\ UNCHANGED revs ELSE EndPass
     /\ UNCHANGED <<objects, template, byo, rolls, events>>
  \/ /\ stage = "checked"
     /\ IF RevisionsReadable THEN stage' = "revisions" /\ revs' = telemetryMaterialRevisions ELSE EndPass
     /\ UNCHANGED <<objects, template, byo, rolls, events>>

\* ensureDeployments up to the n-th component.
ensureDeployments(n) ==
  /\ stage = "revisions"
  /\ LET new == [c \in Components |-> IF c \in {Builders[i] : i \in 1..n} THEN Stamped(c) ELSE template[c]]
     IN  /\ template' = new
         /\ rolls' = [c \in Components |-> IF new[c] # template[c] THEN rolls[c] + 1 ELSE rolls[c]]
  /\ EndPass
  /\ UNCHANGED <<objects, byo>>

deployWorkloads == ensureDeployments(Len(Builders)) /\ UNCHANGED events

\* An error or a crash, at any point and between two Deployments.
Abort ==
  \/ stage # "idle" /\ Event /\ EndPass /\ UNCHANGED <<objects, template, byo, rolls>>
  \/ \E n \in 1..(Len(Builders) - 1) : ensureDeployments(n) /\ Event

Reconcile ==
  \/ phaseValidate(sources) \/ deployConfigMaps(sources) \/ DatabaseMissing \/ BundleConflict
  \/ deriveRevisions \/ deployWorkloads

-----------------------------------------------------------------------------
(* The environment.                                                        *)

\* A Secret is rotated, broken, removed or created again.
ChangeSecret(o, state) ==
  /\ Event
  /\ ~(live[o].state = "missing" /\ state = "missing")
  /\ live' = [live EXCEPT ![o] = [rv |-> @.rv + 1, state |-> state]]
  /\ UNCHANGED <<cache, sources, bundle, cbundle, pass, template, byo, rolls>>

\* OpenShift injects the service CA, or the ingress CA comes or goes.
ChangeSources ==
  /\ \/ "service" \notin sources /\ sources' = sources \cup {"service"} /\ UNCHANGED events
     \/ /\ Event
        /\ sources' = IF "router" \in sources THEN sources \ {"router"} ELSE sources \cup {"router"}
  /\ UNCHANGED <<live, cache, bundle, cbundle, pass, template, byo, rolls>>

Deliver ==
  \/ \E o \in AdminSecrets : cache[o] # live[o] /\ cache' = [cache EXCEPT ![o] = live[o]]
       /\ UNCHANGED <<live, sources, bundle, cbundle, pass, template, byo, rolls, events>>
  \/ cbundle # bundle /\ cbundle' = bundle
       /\ UNCHANGED <<live, cache, sources, bundle, pass, template, byo, rolls, events>>

InitRollout ==
  /\ live = [o \in AdminSecrets |-> [rv |-> 1, state |-> "valid"]] /\ cache = live
  /\ sources \in {{}, {"router"}}
  /\ bundle = [rv |-> 0, parts |-> {}] /\ cbundle = bundle
  /\ stage = "idle" /\ revs = None /\ byo = FALSE
  /\ template = [c \in Components |-> None]
  /\ rolls = [c \in Components |-> 0] /\ events = 0

NextRollout ==
  \/ Reconcile \/ Abort \/ Deliver \/ ChangeSources
  \/ \E read \in SUBSET sources : phaseValidate(read) \/ deployConfigMaps(read)
  \/ \E o \in Changing, state \in {"valid", "invalid", "missing"} : ChangeSecret(o, state)

SpecRollout == InitRollout /\ [][NextRollout]_rolloutVars

FairSpecRollout ==
  /\ SpecRollout /\ WF_rolloutVars(Reconcile) /\ WF_rolloutVars(Deliver)
  /\ WF_rolloutVars("service" \notin sources /\ ChangeSources)

-----------------------------------------------------------------------------
(* Properties.                                                             *)

\* What has to restart a component: all that it mounts, but for what no revision
\* follows.  The fleet OAuth2 credentials are in no revision; the ambient bundle
\* is in that of the telemetry producers only, the others leave its reload to the
\* shared TLS runtime; and the API Frontend mounts the Valkey Secret, whose
\* revision is stamped on Data Storage alone.
Consumes(c) ==
  Mounts(c) \ ({"fleet-oauth2"}
    \cup (IF c \in {"gateway", "datastorage", "kubernaut-agent"} THEN {} ELSE {"ambient"})
    \cup (IF c = "apifrontend" THEN {"valkey"} ELSE {}))

Version(o) == IF o = "ambient" THEN bundle.rv ELSE live[o].rv

\* How often something that the component consumes has changed.
Changes(c, o) == IF o \in Consumes(c) /\ Version(o) # 0 THEN Version(o) - 1 ELSE 0

\* The sum over all the materials.
Total(count) ==
  count["postgresql"] + count["valkey"] + count["signing"] + count["monitoring"] + count["mcp-gateway"]
    + count["fleet-oauth2"] + count["otlp-gateway"] + count["otlp-agent"] + count["ambient"]

\* The shape of the state.  A cache never runs ahead of the cluster, nor does a
\* stamp, and revisions are only kept within a pass.
TypeOKRollout ==
  /\ live \in [AdminSecrets -> [rv : 1..(MaxEvents + 1), state : {"valid", "invalid", "missing"}]]
  /\ \A o \in AdminSecrets : cache[o].rv <= live[o].rv
  /\ sources \subseteq {"service", "router"} /\ cbundle.rv <= bundle.rv
  /\ stage \in {"idle", "validated", "rendered", "checked", "revisions"}
  /\ (revs # None) = (stage = "revisions")
  /\ \A c \in Components : \A o \in Stamps(c) : template[c][o] <= Version(o)
  /\ byo \in BOOLEAN

\* After it is created, a pod template changes at most once for every change of
\* something that its component consumes, whatever lags, fails or is retried:
\* "unrelated producers do not roll when only one external object changes"
\* (telemetryMaterialRevisions).
NoChurn == \A c \in Components : rolls[c] <= 1 + Total([o \in Materials |-> Changes(c, o)])

AllValid == sources # {} /\ \A o \in AdminSecrets : live[o].state = "valid"

\* When everything is valid and stays so, every pod template comes to carry the
\* current version of all that its component mounts, but for what no revision
\* follows (Consumes), so that its pods run on it, and the bundle comes to hold
\* all the CAs.
Fresh ==
  <>[](AllValid => /\ byo /\ bundle.parts = sources
                   /\ \A c \in Components : \A o \in Consumes(c) : template[c][o] = Version(o))

\* A Secret that stays invalid or missing is reported and stays reported,
\* whatever the passes in between found in their caches (phaseValidate).
Reported == <>[]((\E o \in AdminSecrets \ {"signing"} : live[o].state # "valid") => ~byo)
==============================================================================
