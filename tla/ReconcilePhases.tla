--------------------------- MODULE ReconcilePhases ---------------------------
(***************************************************************************)
(* One pass of the reconciler over the phases Validating, Migrating,       *)
(* Deploying and Running, with the status it reports, the NetworkPolicies  *)
(* it puts up and the workloads it starts.                                 *)
(*                                                                         *)
(* The reconciler works on one in-memory CR, kn in the code and knCR here. *)
(* It is read from the manager cache between the phases, and every status  *)
(* patch replaces it by the server's answer, that is by the live CR with   *)
(* its live spec.  A patch sends what differs from kn as it was before:    *)
(* the phase if it changed, the whole list of conditions if any of them    *)
(* changed.                                                                *)
(*                                                                         *)
(* Abstractions: a component is its Deployment; a condition is its status  *)
(* and observed generation.  "Services" stands for the conditions that     *)
(* finalizeDeployStatus sets together, "Extras" for those of phaseRunning. *)
(* MigrationJob has the details of the Job.                                *)
(***************************************************************************)
EXTENDS Naturals, FiniteSets

CONSTANTS
    Core,           \* components that are always on
    KnToggles,      \* optional ones looked up in kn (gateway, apifrontend, console)
    ViewToggles,    \* optional ones looked up in the view (fleetmetadatacache)
    NoCleanup,      \* optional ones without a cleanup (apifrontend)
    Unlisted,       \* optional ones that AllComponents does not list (console)
    Exposed,        \* listed ones that policy.Render skips (authwebhook)
    Choices,        \* bound: the sets of optional components a spec switches on
    MaxGenerations, \* edits of the spec
    MaxFailures,    \* failed calls, crashes and lost pods
    MaxEvents       \* edits and failures together

Toggles == KnToggles \cup ViewToggles

ASSUME ConstantAssumption ==
    /\ MaxGenerations \in Nat /\ MaxFailures \in Nat /\ MaxEvents \in Nat
    /\ NoCleanup \subseteq KnToggles /\ Unlisted \subseteq KnToggles /\ Exposed \subseteq Core
    /\ Choices \subseteq SUBSET Toggles
    /\ KnToggles \cap ViewToggles = {} /\ Core \cap Toggles = {}

VARIABLES
    cr, cache,      \* the CR in the API server and in the manager cache
    knCR,             \* the reconciler's CR
    view,           \* toggles of runtimeKnV2, the copy phaseDeploy works with
    at,
    policies,       \* components with a NetworkPolicy
    workloads,      \* components with a Deployment
    reported,       \* listed components whose Deployment is reported ready
    job,
    failures

phaseVars == <<cr, cache, knCR, view, at, policies, workloads, reported, job, failures>>
objects == <<policies, workloads, job>>

Components == Core \cup Toggles

\* ActiveComponents, when kn and knV2 agree on the toggles
Active(on) == (Core \cup on) \ Unlisted

Phases == {"", "Validating", "Migrating", "Deploying", "Running", "Degraded", "Error"}
Conditions == {"BYOValidated", "NetworkPolicyReady", "MigrationComplete", "Services", "Extras"}
Values == [status : {"none", "True", "False"}, gen : 0 .. MaxGenerations]
CRs == [on : SUBSET Toggles, gen : 0 .. MaxGenerations, phase : Phases,
        conds : [Conditions -> Values]]

phaseOrder == [p \in Phases |->
    CASE p = "Validating" -> 2 [] p = "Migrating" -> 3 [] p = "Deploying" -> 4
      [] p \in {"Running", "Degraded"} -> 5 [] p = "Error" -> 0 [] OTHER -> 1]

setPhase(c, p) ==
    IF p = "Error" \/ phaseOrder[p] >= phaseOrder[c.phase]
    THEN [c EXCEPT !.phase = p] ELSE c

setCondition(c, name, status) ==
    [c EXCEPT !.conds[name] = [status |-> status, gen |-> c.gen]]

--------------------------------------------------------------------------
(* The server's side of a status patch that takes kn to new.               *)

Patched(new) ==
    [cr EXCEPT !.phase = IF new.phase # knCR.phase THEN new.phase ELSE @,
               !.conds = IF new.conds # knCR.conds THEN new.conds ELSE @]

patchStatus(new) == cr' = Patched(new) /\ knCR' = Patched(new)

Continue(next) == at' = next

\* The reconcile ends, with a last patch or with an error; kn and view are dropped.
Unset == [on |-> {}, gen |-> 0, phase |-> "",
          conds |-> [k \in Conditions |-> [status |-> "none", gen |-> 0]]]
Return == at' = "idle" /\ knCR' = Unset /\ view' = {}
patchAndReturn(new) == cr' = Patched(new) /\ Return

MoreEvents == cr.gen + failures < MaxEvents

Failing == failures < MaxFailures /\ MoreEvents /\ failures' = failures + 1

--------------------------------------------------------------------------
(* Users, informers, the cluster.                                          *)

EditToggles ==
    /\ cr.gen < MaxGenerations /\ MoreEvents
    /\ \E on \in Choices \ {cr.on} : cr' = [cr EXCEPT !.on = on, !.gen = @ + 1]
    /\ UNCHANGED <<cache, knCR, view, at, objects, reported, failures>>

SyncCache ==
    /\ cache # cr
    /\ cache' = cr
    /\ UNCHANGED <<cr, knCR, view, at, objects, reported, failures>>

JobCompletes ==
    /\ job = "running"
    /\ job' = "complete"
    /\ UNCHANGED <<cr, cache, knCR, view, at, policies, workloads, reported, failures>>

\* The Deployment informer learns that c has become ready, or is gone.
Report(c) ==
    /\ (c \in workloads) # (c \in reported)
    /\ reported' = IF c \in workloads THEN reported \cup {c} ELSE reported \ {c}
    /\ UNCHANGED <<cr, cache, knCR, view, at, objects, failures>>

PodLost(c) ==
    /\ c \in reported /\ Failing
    /\ reported' = reported \ {c}
    /\ UNCHANGED <<cr, cache, knCR, view, at, objects>>

--------------------------------------------------------------------------
(* The phases.                                                             *)

Start ==
    /\ at = "idle"
    /\ knCR' = cache
    /\ Continue("validate")
    /\ UNCHANGED <<cr, cache, view, objects, reported, failures>>

\* phaseValidate, all inputs in order
phaseValidate ==
    /\ at = "validate"
    /\ patchStatus(setPhase(setCondition(knCR, "BYOValidated", "True"), "Validating"))
    /\ Continue("get1")
    /\ UNCHANGED <<cache, view, objects, reported, failures>>

setConditionAndRequeue(name) ==
    patchAndReturn(setPhase(setCondition(knCR, name, "False"), "Error"))

validateFails ==
    /\ at = "validate" /\ Failing
    /\ setConditionAndRequeue("BYOValidated")
    /\ UNCHANGED <<cache, objects, reported>>

\* The Get between two phases
Reread ==
    /\ at \in {"get1", "get2", "get3"}
    /\ knCR' = cache
    /\ Continue(CASE at = "get1" -> "policies1" [] at = "get2" -> "rbac" [] OTHER -> "running")
    /\ UNCHANGED <<cr, cache, view, objects, reported, failures>>

\* What is on according to kn and to runtimeKnV2
Enabled == Core \cup (knCR.on \cap KnToggles) \cup (view \cap ViewToggles)

\* policy.Render for the active components: the ingress of the admission webhook
\* has no portable caller and is left to administrators.
Rendered == (IF at = "policies1" THEN Active(knCR.on) ELSE Enabled \ Unlisted) \ Exposed

\* Mutant: only the policies of the components that are always on are rendered.
CorePolicies ==
    /\ at \in {"policies1", "policies2"}
    /\ policies' = Core \ Exposed
    /\ Continue(IF at = "policies1" THEN "patch1" ELSE "patch2")
    /\ UNCHANGED <<cr, cache, knCR, view, workloads, job, reported, failures>>

\* Policies are put up, then those no longer rendered are pruned.
reconcileNetworkPolicies ==
    /\ at \in {"policies1", "policies2"}
    /\ policies' = Rendered
    /\ Continue(IF at = "policies1" THEN "patch1" ELSE "patch2")
    /\ UNCHANGED <<cr, cache, knCR, view, workloads, job, reported, failures>>

patchNetworkPolicyStatus ==
    /\ at \in {"patch1", "patch2"}
    /\ patchStatus(setCondition(knCR, "NetworkPolicyReady", "True"))
    /\ Continue(IF at = "patch1" THEN "migrate" ELSE "workloads")
    /\ UNCHANGED <<cache, view, objects, reported, failures>>

\* A failure on the way: some were put up, none of the rendered ones is lost.
networkPoliciesFail ==
    /\ at \in {"policies1", "policies2"} /\ Failing
    /\ \/ \E some \in SUBSET Rendered : policies' = policies \cup some
       \/ \E some \in SUBSET (policies \ Rendered) : policies' = Rendered \cup some
    /\ LET failed == setCondition(knCR, "NetworkPolicyReady", "False")
       IN  patchAndReturn(IF knCR.phase = "Running" THEN setPhase(failed, "Degraded") ELSE failed)
    /\ UNCHANGED <<cache, workloads, job, reported>>

\* Mutant: a Job that is done is run again if the status has not said so yet.
phaseMigrateAgain ==
    /\ at = "migrate"
    /\ IF job = "complete" /\ knCR.conds["MigrationComplete"].status = "True"
       THEN /\ patchStatus(setPhase(setCondition(knCR, "MigrationComplete", "True"), "Deploying"))
            /\ Continue("get2") /\ UNCHANGED <<job, view>>
       ELSE /\ job' = "running"
            /\ patchAndReturn(setPhase(setCondition(knCR, "MigrationComplete", "False"), "Migrating"))
    /\ UNCHANGED <<cache, policies, workloads, reported, failures>>

\* phaseMigrate: the Job is created, waited for, or done
phaseMigrate ==
    /\ at = "migrate"
    /\ IF job = "complete"
       THEN /\ patchStatus(setPhase(setCondition(knCR, "MigrationComplete", "True"), "Deploying"))
            /\ Continue("get2") /\ UNCHANGED <<job, view>>
       ELSE /\ job' = "running"
            /\ patchAndReturn(setPhase(setCondition(knCR, "MigrationComplete", "False"), "Migrating"))
    /\ UNCHANGED <<cache, policies, workloads, reported, failures>>

migrateFails ==
    /\ at = "migrate" /\ Failing
    /\ setConditionAndRequeue("MigrationComplete")
    /\ UNCHANGED <<cache, objects, reported>>

\* deployRBAC ends in patches of the status that change no condition.
deployRBAC ==
    /\ at = "rbac"
    /\ patchStatus(knCR)
    /\ Continue("configs")
    /\ UNCHANGED <<cache, view, objects, reported, failures>>

\* monitoringConfigView, from which ConfigMaps and webhooks are deployed
monitoringConfigView ==
    /\ at = "configs"
    /\ view' = knCR.on
    /\ Continue("policies2")
    /\ UNCHANGED <<cr, cache, knCR, objects, reported, failures>>

\* An ownership conflict goes to Error, another failure of RBAC or TLS does not.
deployFails ==
    /\ at \in {"rbac", "configs", "workloads"} /\ Failing
    /\ LET failed == setCondition(knCR, "Services", "False")
       IN  patchAndReturn(failed) \/ patchAndReturn(setPhase(failed, "Error"))
    /\ UNCHANGED <<cache, objects, reported>>

\* enabledDeploymentBuilders and its cleanups, then ensureDeployments
deployWorkloads ==
    /\ at = "workloads"
    /\ workloads' = Enabled \cup (workloads \cap NoCleanup)
    /\ view' = {}
    /\ Continue("finalize")
    /\ UNCHANGED <<cr, cache, knCR, policies, job, reported, failures>>

finalizeDeployStatus ==
    /\ at = "finalize"
    /\ patchStatus(setPhase(setCondition(knCR, "Services", "True"), "Deploying"))
    /\ Continue("get3")
    /\ UNCHANGED <<cache, view, objects, reported, failures>>

\* Mutant: the NetworkPolicies have no say.
allReportedReady == Active(knCR.on) \subseteq reported

allReady ==
    /\ Active(knCR.on) \subseteq reported
    /\ knCR.conds["NetworkPolicyReady"].status = "True"

phaseRunning ==
    /\ at = "running"
    /\ patchAndReturn(setPhase(setCondition(knCR, "Extras", "True"),
                               IF allReady THEN "Running" ELSE "Degraded"))
    /\ UNCHANGED <<cache, objects, reported, failures>>

\* Any other failed call, a failed patch included, ends the reconcile.
CallFails ==
    /\ at # "idle" /\ Failing
    /\ Return
    /\ UNCHANGED <<cr, cache, objects, reported>>

Step == \/ Start \/ phaseValidate \/ Reread \/ reconcileNetworkPolicies
        \/ patchNetworkPolicyStatus \/ phaseMigrate \/ deployRBAC \/ monitoringConfigView
        \/ deployWorkloads \/ finalizeDeployStatus \/ phaseRunning

NextPhases == \/ EditToggles \/ SyncCache \/ JobCompletes
              \/ \E c \in Components \ Unlisted : Report(c) \/ PodLost(c)
              \/ Step
              \/ validateFails \/ networkPoliciesFail \/ migrateFails \/ deployFails \/ CallFails

InitPhases ==
    /\ \E on \in Choices : cr = [Unset EXCEPT !.on = on]
    /\ cache = cr /\ knCR = Unset
    /\ view = {} /\ at = "idle"
    /\ policies = {} /\ workloads = {} /\ reported = {}
    /\ job = "absent" /\ failures = 0

SpecPhases == InitPhases /\ [][NextPhases]_phaseVars

\* The queue serves the CR again (events, retries, requeue timers), informers
\* catch up, a Job that is left alone completes and pods become ready.
FairSpecPhases ==
    /\ SpecPhases
    /\ WF_phaseVars(Step) /\ WF_phaseVars(SyncCache) /\ WF_phaseVars(JobCompletes)
    /\ \A c \in Components \ Unlisted : WF_phaseVars(Report(c))

--------------------------------------------------------------------------
(* Properties.                                                             *)

\* Type invariant of the phases.
TypeOKPhases ==
    /\ cr \in CRs /\ cache \in CRs /\ knCR \in CRs
    /\ view \subseteq Toggles
    /\ at \in {"idle", "validate", "get1", "policies1", "patch1", "migrate", "get2", "rbac",
               "configs", "policies2", "patch2", "workloads", "finalize", "get3", "running"}
    /\ policies \subseteq Components /\ workloads \subseteq Components
    /\ reported \subseteq Components
    /\ job \in {"absent", "running", "complete"}
    /\ failures \in 0 .. MaxFailures

\* The Job starts behind the NetworkPolicies of the components that are always on,
\* and every workload that gets a policy starts behind its own; the one exception
\* is a component switched on after phaseDeploy took its view of the spec.
IsolationFirst ==
    [][/\ job = "absent" /\ job' # "absent" => Core \ Exposed \subseteq policies
       /\ \A c \in (workloads' \ workloads) \ (Exposed \cup Unlisted) :
             c \in policies \/ c \in KnToggles \ view]_phaseVars

\* phaseRunning takes NetworkPolicyReady from the cached CR; still, whenever Running
\* is entered, the status that is published with it says the policies are there
\* and every active component of the spec that was looked at is reported ready
\* (the Console is not among them).
RunningIsEarned ==
    [][cr.phase # "Running" /\ cr'.phase = "Running" =>
          /\ cr'.conds["NetworkPolicyReady"].status = "True"
          /\ Active(knCR.on) \subseteq reported]_phaseVars

\* Once edits and failures have stopped the status settles: Running, every condition
\* True for the current generation, whatever stale copies were patched from; and
\* workloads come to be those of the spec, each active one with its policy but
\* for those whose ingress administrators own.
Settles ==
    <>[](/\ cr.phase = "Running"
         /\ \A k \in Conditions : cr.conds[k] = [status |-> "True", gen |-> cr.gen]
         /\ policies = Active(cr.on) \ Exposed
         /\ workloads \ NoCleanup = (Core \cup cr.on) \ NoCleanup)
=============================================================================
