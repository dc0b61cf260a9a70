------------------------------ MODULE PassProofs ------------------------------
(***************************************************************************)
(* What a pass has established by the time it gets somewhere, through      *)
(* re-reads of a stale cache and patches from a stale base: proofs about   *)
(* ReconcilePhases, for any components, edits and failures, and about      *)
(* AuditHashKey, for every set of names and keys and every bound.  The two *)
(* specifications share no variable and no proof step; SpecPhases is the   *)
(* one of ReconcilePhases, Spec the one of AuditHashKey.                   *)
(***************************************************************************)
EXTENDS ReconcilePhases, AuditHashKey, TLAPS

\* A step is for Zenon, unless it names another prover.
USE Zenon

TypeInv == cr \in CRs /\ cache \in CRs /\ knCR \in CRs

\* The policies that are known to be up at each point of the reconcile
IsolationInv ==
    /\ at \in {"patch1", "migrate"} => Core \ Exposed \subseteq policies
    /\ at = "policies2" => view = knCR.on
    /\ at \in {"patch2", "workloads"} 
          => (Core \cup view) \ (Exposed \cup Unlisted) \subseteq policies

PolicyTrue(c) == c.conds["NetworkPolicyReady"].status = "True"

\* Where kn is the answer to a patch, no one else has changed the conditions since.
FreshInv ==
    at \in {"migrate", "configs", "policies2", "patch2", "workloads", "finalize"}
        => knCR.conds = cr.conds

\* From the second round of policies on, the live CR says they are there, and
\* no patch from there on says otherwise.
ReadyInv ==
    at \in {"workloads", "finalize", "get3", "running"} => PolicyTrue(cr)

Inv == TypeInv /\ IsolationInv /\ FreshInv /\ ReadyInv

\* setPhase touches the phase only.
LEMMA SetPhase ==
    ASSUME NEW c \in CRs, NEW p \in Phases
    PROVE  /\ setPhase(c, p) \in CRs
           /\ setPhase(c, p).conds = c.conds
           /\ setPhase(c, p).phase \in {c.phase, p}
  BY DEF setPhase, CRs

\* SetStatusCondition touches one condition.
LEMMA SetCondition ==
    ASSUME NEW c \in CRs, NEW k \in Conditions, NEW s \in {"True", "False"}
    PROVE  /\ setCondition(c, k, s) \in CRs
           /\ setCondition(c, k, s).phase = c.phase
  BY DEF setCondition, CRs, Values

\* It has the status that it is given.
LEMMA SetConditionStatus ==
    ASSUME NEW c \in CRs, NEW k \in Conditions, NEW s \in {"True", "False"}
    PROVE  setCondition(c, k, s).conds[k].status = s
  BY DEF setCondition, CRs, Values

\* The other conditions stay.
LEMMA SetConditionOthers ==
    ASSUME NEW c \in CRs, NEW k \in Conditions, NEW s \in {"True", "False"},
           NEW j \in Conditions, j # k
    PROVE  setCondition(c, k, s).conds[j] = c.conds[j]
  BY DEF setCondition, CRs, Values

\* What the server makes of a patch.
LEMMA PatchedCR ==
    ASSUME TypeInv, NEW new \in CRs
    PROVE  /\ Patched(new) \in CRs
           /\ Patched(new).on = cr.on
           /\ Patched(new).phase = IF new.phase # knCR.phase THEN new.phase ELSE cr.phase
           /\ Patched(new).conds = IF new.conds # knCR.conds THEN new.conds ELSE cr.conds
  BY DEF Patched, TypeInv, CRs

\* The CR that the reconciler drops kn for is one.
LEMMA UnsetCR == Unset \in CRs
  BY SMT, ConstantAssumption DEF Unset, CRs, Values, Phases

\* A patch that sets one condition and a phase.
LEMMA PatchStep ==
    ASSUME TypeInv, NEW k \in Conditions, NEW s \in {"True", "False"}, NEW p \in Phases,
           NEW new, new \in {setCondition(knCR, k, s), setPhase(setCondition(knCR, k, s), p)}
    PROVE  /\ Patched(new) \in CRs
           /\ Patched(new).phase \in {cr.phase, p}
           /\ k # "NetworkPolicyReady" /\ PolicyTrue(cr) /\ PolicyTrue(knCR)
                 => PolicyTrue(Patched(new))
           /\ k = "NetworkPolicyReady" /\ s = "True" /\ knCR.conds = cr.conds
                 => PolicyTrue(Patched(new))
  <1> DEFINE mid == setCondition(knCR, k, s)
  <1>1. knCR \in CRs /\ "NetworkPolicyReady" \in Conditions
    BY DEF TypeInv, Conditions
  <1>2. /\ mid \in CRs /\ mid.phase = knCR.phase
        /\ mid.conds[k].status = s
        /\ \A j \in Conditions : j # k => mid.conds[j] = knCR.conds[j]
    <2>1. setCondition(knCR, k, s) \in CRs /\ setCondition(knCR, k, s).phase = knCR.phase
      BY <1>1, SetCondition
    <2>2. setCondition(knCR, k, s).conds[k].status = s
      BY <1>1, SetConditionStatus
    <2>3. \A j \in Conditions : j # k => setCondition(knCR, k, s).conds[j] = knCR.conds[j]
      BY <1>1, SetConditionOthers
    <2>4. QED
      BY <2>1, <2>2, <2>3
  <1> HIDE DEF mid
  <1>3. /\ setPhase(mid, p) \in CRs /\ setPhase(mid, p).conds = mid.conds
        /\ setPhase(mid, p).phase \in {mid.phase, p}
    BY <1>2, SetPhase
  <1>4. new \in CRs /\ new.conds = mid.conds /\ new.phase \in {knCR.phase, p}
    <2>1. new = mid \/ new = setPhase(mid, p)
      BY DEF mid
    <2>2. QED
      BY <1>2, <1>3, <2>1
  <1>5. /\ Patched(new) \in CRs
        /\ Patched(new).phase = IF new.phase # knCR.phase THEN new.phase ELSE cr.phase
        /\ Patched(new).conds = IF new.conds # knCR.conds THEN new.conds ELSE cr.conds
    BY <1>4, PatchedCR
  <1>6. QED
    BY <1>1, <1>2, <1>4, <1>5 DEF PolicyTrue

\* Base case.
LEMMA InvInit == InitPhases => Inv
  <1> SUFFICES ASSUME InitPhases PROVE Inv
    OBVIOUS
  <1>1. cr \in CRs
    <2>1. PICK on \in Choices : cr = [Unset EXCEPT !.on = on]
      BY DEF InitPhases
    <2>2. on \in SUBSET Toggles
      BY ConstantAssumption
    <2>3. QED
      BY <2>1, <2>2, UnsetCR DEF CRs
  <1>2. TypeInv
    BY <1>1, UnsetCR DEF InitPhases, TypeInv
  <1>3. QED
    BY <1>2 DEF InitPhases, Inv, IsolationInv, FreshInv, ReadyInv

\* The environment touches no condition and nothing the reconcile relies on.
LEMMA EnvironmentStep ==
    ASSUME Inv, EditToggles \/ SyncCache \/ JobCompletes \/ (\E c \in Components : Report(c) \/ PodLost(c))
    PROVE  Inv'
  <1>1. CASE EditToggles
    <2>1. PICK on \in Choices : cr' = [cr EXCEPT !.on = on, !.gen = @ + 1]
      BY <1>1 DEF EditToggles
    <2>a. cr \in CRs /\ cr.gen \in 0 .. MaxGenerations
      BY DEF Inv, TypeInv, CRs
    <2>b. cr.gen < MaxGenerations
      BY <1>1 DEF EditToggles
    <2>c. cr.gen + 1 \in 0 .. MaxGenerations
      BY SMT, <2>a, <2>b, ConstantAssumption
    <2>d. on \in SUBSET Toggles
      BY ConstantAssumption
    <2>2. cr' \in CRs /\ cr'.conds = cr.conds
      BY <2>1, <2>a, <2>c, <2>d DEF CRs
    <2>3. UNCHANGED <<cache, knCR, view, at, policies>>
      BY <1>1 DEF EditToggles, objects
    <2>4. QED
      BY <2>2, <2>3 DEF Inv, TypeInv, IsolationInv, FreshInv, ReadyInv, PolicyTrue
  <1>2. CASE SyncCache
    BY <1>2 DEF Inv, TypeInv, IsolationInv, FreshInv, ReadyInv, PolicyTrue, SyncCache, objects
  <1>3. CASE JobCompletes
    BY <1>3 DEF Inv, TypeInv, IsolationInv, FreshInv, ReadyInv, PolicyTrue, JobCompletes
  <1>4. CASE \E c \in Components : Report(c) \/ PodLost(c)
    BY <1>4 DEF Inv, TypeInv, IsolationInv, FreshInv, ReadyInv, PolicyTrue, Report, PodLost, objects
  <1>5. QED
    BY <1>1, <1>2, <1>3, <1>4

\* The steps that end a reconcile leave a CR and nothing to rely on.
LEMMA ReturnStep ==
    ASSUME Inv, Return, cr' \in CRs, cache' = cache
    PROVE  Inv'
  BY UnsetCR DEF Return, Inv, TypeInv, IsolationInv, FreshInv, ReadyInv

\* Failures patch a condition and end the reconcile.
LEMMA FailureStep ==
    ASSUME Inv, validateFails \/ networkPoliciesFail \/ migrateFails \/ deployFails \/ CallFails
    PROVE  Inv' /\ (cr'.phase = cr.phase \/ cr'.phase # "Running")
  <1>0. TypeInv /\ cr \in CRs
    BY DEF Inv, TypeInv
  <1>c. /\ "BYOValidated" \in Conditions /\ "NetworkPolicyReady" \in Conditions
        /\ "MigrationComplete" \in Conditions /\ "Services" \in Conditions
    BY DEF Conditions
  <1>p. "Error" \in Phases /\ "Degraded" \in Phases
    BY DEF Phases
  <1>1. CASE validateFails
    <2> DEFINE failed == setPhase(setCondition(knCR, "BYOValidated", "False"), "Error")
    <2>1. cr' = Patched(failed) /\ Return
      BY <1>1 DEF validateFails, setConditionAndRequeue, patchAndReturn
    <2>a. Patched(failed) \in CRs /\ Patched(failed).phase \in {cr.phase, "Error"}
      BY <1>0, <1>c, <1>p, PatchStep
    <2>2. cr' \in CRs /\ cr'.phase \in {cr.phase, "Error"}
      BY <2>1, <2>a
    <2>3. QED
      BY <1>1, <2>1, <2>2, ReturnStep DEF validateFails
  <1>2. CASE migrateFails
    <2> DEFINE failed == setPhase(setCondition(knCR, "MigrationComplete", "False"), "Error")
    <2>1. cr' = Patched(failed) /\ Return
      BY <1>2 DEF migrateFails, setConditionAndRequeue, patchAndReturn
    <2>a. Patched(failed) \in CRs /\ Patched(failed).phase \in {cr.phase, "Error"}
      BY <1>0, <1>c, <1>p, PatchStep
    <2>2. cr' \in CRs /\ cr'.phase \in {cr.phase, "Error"}
      BY <2>1, <2>a
    <2>3. QED
      BY <1>2, <2>1, <2>2, ReturnStep DEF migrateFails
  <1>3. CASE networkPoliciesFail
    <2> DEFINE failed == setCondition(knCR, "NetworkPolicyReady", "False")
    <2>1. /\ cr' = Patched(failed) \/ cr' = Patched(setPhase(failed, "Degraded"))
          /\ Return
      BY <1>3 DEF networkPoliciesFail, patchAndReturn
    <2>a. Patched(failed) \in CRs /\ Patched(failed).phase \in {cr.phase, "Degraded"}
      BY <1>0, <1>c, <1>p, PatchStep
    <2>b. /\ Patched(setPhase(failed, "Degraded")) \in CRs
          /\ Patched(setPhase(failed, "Degraded")).phase \in {cr.phase, "Degraded"}
      BY <1>0, <1>c, <1>p, PatchStep
    <2>2. cr' \in CRs /\ cr'.phase \in {cr.phase, "Degraded"}
      BY <2>1, <2>a, <2>b
    <2>3. QED
      BY <1>3, <2>1, <2>2, ReturnStep DEF networkPoliciesFail
  <1>4. CASE deployFails
    <2> DEFINE failed == setCondition(knCR, "Services", "False")
    <2>1. /\ cr' = Patched(failed) \/ cr' = Patched(setPhase(failed, "Error"))
          /\ Return
      BY <1>4 DEF deployFails, patchAndReturn
    <2>a. Patched(failed) \in CRs /\ Patched(failed).phase \in {cr.phase, "Error"}
      BY <1>0, <1>c, <1>p, PatchStep
    <2>b. /\ Patched(setPhase(failed, "Error")) \in CRs
          /\ Patched(setPhase(failed, "Error")).phase \in {cr.phase, "Error"}
      BY <1>0, <1>c, <1>p, PatchStep
    <2>2. cr' \in CRs /\ cr'.phase \in {cr.phase, "Error"}
      BY <2>1, <2>a, <2>b
    <2>3. QED
      BY <1>4, <2>1, <2>2, ReturnStep DEF deployFails
  <1>5. CASE CallFails
    BY <1>0, <1>5, ReturnStep DEF CallFails
  <1>6. QED
    BY <1>1, <1>2, <1>3, <1>4, <1>5

\* A successful step of the reconcile: what it hands on to the next one.
LEMMA PhaseStep ==
    ASSUME Inv, Step, at # "running"
    PROVE  Inv' /\ (cr'.phase = cr.phase \/ cr'.phase # "Running")
  <1>0. TypeInv /\ cr \in CRs /\ knCR \in CRs
    BY DEF Inv, TypeInv
  <1>c. /\ "BYOValidated" \in Conditions /\ "NetworkPolicyReady" \in Conditions
        /\ "MigrationComplete" \in Conditions /\ "Services" \in Conditions
    BY DEF Conditions
  <1>p. /\ "Validating" \in Phases /\ "Migrating" \in Phases /\ "Deploying" \in Phases
        /\ "Running" \in Phases /\ "Degraded" \in Phases
    BY DEF Phases
  <1> USE DEF Continue
  <1>1. CASE Start
    BY <1>1 DEF Start, Inv, TypeInv, IsolationInv, FreshInv, ReadyInv, objects
  <1>2. CASE Reread
    <2>1. /\ cr' = cr /\ cache' = cache /\ knCR' = cache /\ policies' = policies
          /\ at' \in {"policies1", "rbac", "running"}
          /\ at' = "running" => at = "get3"
      BY <1>2 DEF Reread, objects
    <2>2. QED
      BY <2>1 DEF Inv, TypeInv, IsolationInv, FreshInv, ReadyInv, PolicyTrue
  <1>3. CASE phaseValidate
    <2> DEFINE new == setPhase(setCondition(knCR, "BYOValidated", "True"), "Validating")
    <2>1. cr' = Patched(new) /\ knCR' = Patched(new) /\ at' = "get1" /\ cache' = cache
      BY <1>3 DEF phaseValidate, patchStatus
    <2>2. "BYOValidated" \in Conditions /\ "Validating" \in Phases
      BY DEF Conditions, Phases
    <2>3. Patched(new) \in CRs /\ Patched(new).phase \in {cr.phase, "Validating"}
      BY <1>0, <2>2, PatchStep
    <2>4. QED
      BY <2>1, <2>3 DEF Inv, TypeInv, IsolationInv, FreshInv, ReadyInv
  <1>4. CASE reconcileNetworkPolicies
    <2>1. /\ UNCHANGED <<cr, knCR, cache, view>> /\ policies' = Rendered
          /\ \/ at = "policies1" /\ at' = "patch1"
             \/ at = "policies2" /\ at' = "patch2"
      BY <1>4 DEF reconcileNetworkPolicies
    <2>2. Core \ Exposed \subseteq Rendered
      BY ConstantAssumption DEF Rendered, Active, Enabled, Toggles
    <2>3. at = "policies2" => view \ (Exposed \cup Unlisted) \subseteq Rendered
      BY <1>0 DEF Inv, IsolationInv, Rendered, Enabled, CRs, Toggles
    <2>4. QED
      BY <2>1, <2>2, <2>3 DEF Inv, TypeInv, IsolationInv, FreshInv, ReadyInv
  <1>5. CASE patchNetworkPolicyStatus
    <2> DEFINE new == setCondition(knCR, "NetworkPolicyReady", "True")
    <2>1. /\ cr' = Patched(new) /\ knCR' = Patched(new) /\ UNCHANGED <<cache, view, policies>>
          /\ \/ at = "patch1" /\ at' = "migrate"
             \/ at = "patch2" /\ at' = "workloads"
      BY <1>5 DEF patchNetworkPolicyStatus, patchStatus, objects
    <2>2. /\ Patched(new) \in CRs /\ Patched(new).phase \in {cr.phase, "Validating"}
          /\ knCR.conds = cr.conds => PolicyTrue(Patched(new))
      BY <1>0, <1>c, <1>p, PatchStep
    <2>3. QED
      BY <2>1, <2>2 DEF Inv, TypeInv, IsolationInv, FreshInv, ReadyInv
  <1>6. CASE phaseMigrate
    <2> DEFINE done == setPhase(setCondition(knCR, "MigrationComplete", "True"), "Deploying")
               wait == setPhase(setCondition(knCR, "MigrationComplete", "False"), "Migrating")
    <2>1. Patched(done) \in CRs /\ Patched(done).phase \in {cr.phase, "Deploying"}
      BY <1>0, <1>c, <1>p, PatchStep
    <2>2. Patched(wait) \in CRs /\ Patched(wait).phase \in {cr.phase, "Migrating"}
      BY <1>0, <1>c, <1>p, PatchStep
    <2>3. CASE job = "complete"
      <3>1. cr' = Patched(done) /\ knCR' = Patched(done) /\ at' = "get2" /\ cache' = cache
        BY <1>6, <2>3 DEF phaseMigrate, patchStatus
      <3>2. QED
        BY <2>1, <3>1 DEF Inv, TypeInv, IsolationInv, FreshInv, ReadyInv
    <2>4. CASE job # "complete"
      <3>1. cr' = Patched(wait) /\ Return /\ cache' = cache
        BY <1>6, <2>4 DEF phaseMigrate, patchAndReturn
      <3>2. QED
        BY <2>2, <3>1, ReturnStep
    <2>5. QED
      BY <2>3, <2>4
  <1>7. CASE deployRBAC
    <2>1. cr' = Patched(knCR) /\ knCR' = Patched(knCR) /\ at' = "configs" /\ cache' = cache
      BY <1>7 DEF deployRBAC, patchStatus
    <2>2. Patched(knCR) \in CRs /\ Patched(knCR).phase = cr.phase
      BY <1>0, PatchedCR
    <2>3. QED
      BY <2>1, <2>2 DEF Inv, TypeInv, IsolationInv, FreshInv, ReadyInv
  <1>8. CASE monitoringConfigView
    BY <1>8 DEF monitoringConfigView, Inv, TypeInv, IsolationInv, FreshInv, ReadyInv, objects
  <1>9. CASE deployWorkloads
    BY <1>9 DEF deployWorkloads, Inv, TypeInv, IsolationInv, FreshInv, ReadyInv, PolicyTrue
  <1>10. CASE finalizeDeployStatus
    <2> DEFINE new == setPhase(setCondition(knCR, "Services", "True"), "Deploying")
    <2>1. /\ cr' = Patched(new) /\ knCR' = Patched(new) /\ at = "finalize" /\ at' = "get3"
          /\ cache' = cache
      BY <1>10 DEF finalizeDeployStatus, patchStatus
    <2>2. PolicyTrue(cr) /\ PolicyTrue(knCR)
      BY <2>1 DEF Inv, ReadyInv, FreshInv, PolicyTrue
    <2>3. /\ Patched(new) \in CRs /\ Patched(new).phase \in {cr.phase, "Deploying"}
          /\ PolicyTrue(Patched(new))
      BY <1>0, <2>2, PatchStep DEF Conditions, Phases
    <2>4. QED
      BY <2>1, <2>3 DEF Inv, TypeInv, IsolationInv, FreshInv, ReadyInv
  <1>11. QED
    BY <1>1, <1>2, <1>3, <1>4, <1>5, <1>6, <1>7, <1>8, <1>9, <1>10 DEF Step, phaseRunning

\* The last step publishes Running only together with NetworkPolicyReady: if the
\* conditions are sent they are those that allReady looked at, otherwise the live
\* ones stay, and those were set by the second round of policies.
LEMMA RunningStep ==
    ASSUME Inv, phaseRunning
    PROVE  /\ Inv'
           /\ cr.phase # "Running" /\ cr'.phase = "Running"
                 => PolicyTrue(cr') /\ Active(knCR.on) \subseteq reported
  <1> DEFINE next == IF allReady THEN "Running" ELSE "Degraded"
             new == setPhase(setCondition(knCR, "Extras", "True"), next)
  <1>1. /\ at = "running" /\ cr' = Patched(new) /\ Return /\ cache' = cache
    BY DEF phaseRunning, patchAndReturn
  <1>2. TypeInv /\ PolicyTrue(cr)
    BY <1>1 DEF Inv, ReadyInv
  <1>3. "Extras" \in Conditions /\ next \in Phases
    BY DEF Conditions, Phases
  <1>4. /\ Patched(new) \in CRs /\ Patched(new).phase \in {cr.phase, next}
        /\ PolicyTrue(cr) /\ PolicyTrue(knCR) => PolicyTrue(Patched(new))
    BY <1>2, <1>3, PatchStep
  <1>5. allReady => PolicyTrue(knCR) /\ Active(knCR.on) \subseteq reported
    BY DEF allReady, PolicyTrue
  <1>6. Inv'
    BY <1>1, <1>4, ReturnStep
  <1>7. ASSUME cr.phase # "Running", cr'.phase = "Running"
        PROVE  PolicyTrue(cr') /\ Active(knCR.on) \subseteq reported
    <2>1. allReady
      BY <1>1, <1>4, <1>7
    <2>2. QED
      BY <1>1, <1>2, <1>4, <1>5, <2>1
  <1>8. QED
    BY <1>6, <1>7

\* The inductive step.
LEMMA InvNext == Inv /\ [NextPhases]_phaseVars => Inv'
  <1> SUFFICES ASSUME Inv, [NextPhases]_phaseVars PROVE Inv'
    OBVIOUS
  <1>1. CASE Step
    BY <1>1, PhaseStep, RunningStep DEF Step, phaseRunning, Start, phaseValidate, Reread,
       reconcileNetworkPolicies, patchNetworkPolicyStatus, phaseMigrate, deployRBAC,
       monitoringConfigView, deployWorkloads, finalizeDeployStatus
  <1>2. CASE UNCHANGED phaseVars
    BY <1>2 DEF phaseVars, Inv, TypeInv, IsolationInv, FreshInv, ReadyInv, PolicyTrue
  <1>3. QED
    BY <1>1, <1>2, EnvironmentStep, FailureStep DEF NextPhases

\* The invariant of the phases.
THEOREM InvAlways == SpecPhases => []Inv
  BY InvInit, InvNext, PTL DEF SpecPhases

\* However stale the copies of the CR that the reconcile goes through, the migration
\* Job and the workloads start behind their policies; only what is switched on after
\* phaseDeploy took its view may not.
THEOREM IsolationHolds == SpecPhases => IsolationFirst
  <1> DEFINE A == /\ job = "absent" /\ job' # "absent" => Core \ Exposed \subseteq policies
                  /\ \A c \in (workloads' \ workloads) \ (Exposed \cup Unlisted) :
                        c \in policies \/ c \in KnToggles \ view
  <1>1. ASSUME Inv, [NextPhases]_phaseVars PROVE [A]_phaseVars
    <2>1. CASE phaseMigrate
      BY <1>1, <2>1 DEF phaseMigrate, Inv, IsolationInv
    <2>2. CASE deployWorkloads
      BY <1>1, <2>2, ConstantAssumption DEF deployWorkloads, Inv, IsolationInv, Enabled
    <2>3. CASE workloads' = workloads /\ job' = job
      BY <2>3
    <2>4. CASE JobCompletes
      BY <2>4 DEF JobCompletes
    <2>5. QED
      BY <1>1, <2>1, <2>2, <2>3, <2>4
         DEF NextPhases, phaseVars, objects, Step, EditToggles, SyncCache, Report, PodLost, Start, phaseValidate,
             Reread, reconcileNetworkPolicies, patchNetworkPolicyStatus, deployRBAC,
             monitoringConfigView, finalizeDeployStatus, phaseRunning, validateFails,
             networkPoliciesFail, migrateFails, deployFails, CallFails
  <1>2. QED
    BY InvAlways, <1>1, PTL DEF SpecPhases, IsolationFirst

\* Running is never published without NetworkPolicyReady, although phaseRunning looks
\* at a cached copy of that condition and may send the whole list from it.
THEOREM RunningEarned == SpecPhases => RunningIsEarned
  <1> DEFINE A == cr.phase # "Running" /\ cr'.phase = "Running" =>
                     /\ cr'.conds["NetworkPolicyReady"].status = "True"
                     /\ Active(knCR.on) \subseteq reported
  <1>1. ASSUME Inv, [NextPhases]_phaseVars PROVE [A]_phaseVars
    <2>1. CASE phaseRunning
      BY <1>1, <2>1, RunningStep DEF PolicyTrue
    <2>2. CASE Step /\ at # "running"
      BY <1>1, <2>2, PhaseStep
    <2>3. CASE validateFails \/ networkPoliciesFail \/ migrateFails \/ deployFails \/ CallFails
      BY <1>1, <2>3, FailureStep
    <2>4. CASE EditToggles
      BY <1>1, <2>4 DEF EditToggles, Inv, TypeInv, CRs
    <2>5. CASE cr' = cr
      BY <2>5
    <2>6. QED
      BY <1>1, <2>1, <2>2, <2>3, <2>4, <2>5
         DEF NextPhases, Step, phaseVars, SyncCache, JobCompletes, Report, PodLost, Start, phaseValidate,
             Reread, reconcileNetworkPolicies, patchNetworkPolicyStatus, phaseMigrate,
             deployRBAC, monitoringConfigView, deployWorkloads, finalizeDeployStatus
  <1>2. QED
    BY InvAlways, <1>1, PTL DEF SpecPhases, RunningIsEarned

\* Every variable of the phases keeps its type.
THEOREM PhasesTypeCorrect == SpecPhases => []TypeOKPhases
<1> DEFINE Rest == /\ view \subseteq Toggles
                   /\ at \in {"idle", "validate", "get1", "policies1", "patch1", "migrate", "get2",
                              "rbac", "configs", "policies2", "patch2", "workloads", "finalize",
                              "get3", "running"}
                   /\ policies \subseteq Components /\ workloads \subseteq Components
                   /\ reported \subseteq Components
                   /\ job \in {"absent", "running", "complete"}
                   /\ failures \in 0 .. MaxFailures
<1>1. InitPhases => Rest
  BY SMT, ConstantAssumption DEF InitPhases
<1>2. Inv /\ Rest /\ [NextPhases]_phaseVars => Rest'
  <2> SUFFICES ASSUME Inv, Rest, [NextPhases]_phaseVars PROVE Rest'
    OBVIOUS
  <2> USE ConstantAssumption
  <2>0. knCR.on \subseteq Toggles
    BY DEF Inv, TypeInv, CRs
  <2>r. Enabled \subseteq Components /\ Rendered \subseteq Components
    BY <2>0 DEF Enabled, Rendered, Active, Components, Toggles
  <2>1. CASE EditToggles \/ SyncCache \/ JobCompletes
    BY <2>1 DEF EditToggles, SyncCache, JobCompletes, objects
  <2>2. ASSUME NEW c \in Components, Report(c) \/ PodLost(c) PROVE Rest'
    BY SMT, <2>2 DEF Report, PodLost, Failing, objects
  <2>3. CASE Start \/ phaseValidate \/ deployRBAC \/ finalizeDeployStatus \/ Reread
    BY <2>3 DEF Start, phaseValidate, deployRBAC, finalizeDeployStatus, Reread, Continue, objects
  <2>4. CASE reconcileNetworkPolicies
    BY <2>4, <2>r DEF reconcileNetworkPolicies, Continue
  <2>5. CASE patchNetworkPolicyStatus
    BY <2>5 DEF patchNetworkPolicyStatus, Continue, objects
  <2>6. CASE phaseMigrate
    BY <2>6 DEF phaseMigrate, Continue, patchAndReturn, Return
  <2>7. CASE monitoringConfigView
    BY <2>7, <2>0 DEF monitoringConfigView, Continue, objects
  <2>8. CASE deployWorkloads
    BY <2>8, <2>r DEF deployWorkloads, Continue
  <2>9. CASE phaseRunning \/ CallFails
    BY SMT, <2>9 DEF phaseRunning, CallFails, patchAndReturn, Return, Failing, objects
  <2>10. CASE validateFails \/ migrateFails \/ deployFails
    BY SMT, <2>10 DEF validateFails, migrateFails, deployFails, setConditionAndRequeue,
                 patchAndReturn, Return, Failing, objects
  <2>11. CASE networkPoliciesFail
    BY SMT, <2>11, <2>r DEF networkPoliciesFail, patchAndReturn, Return, Failing
  <2>12. CASE UNCHANGED phaseVars BY <2>12 DEF phaseVars
  <2> QED BY <2>1, <2>2, <2>3, <2>4, <2>5, <2>6, <2>7, <2>8, <2>9, <2>10, <2>11, <2>12
         DEF NextPhases, Step
<1>3. Inv /\ Rest => TypeOKPhases
  BY DEF Inv, TypeInv, TypeOKPhases
<1> QED BY <1>1, <1>2, <1>3, InvAlways, PTL DEF SpecPhases

-----------------------------------------------------------------------------
(* The audit key.                                                          *)

\* The identity two versions of the state ConfigMap record is the same.
SameData(c, d) ==
    c.phase = d.phase /\ c.ref = d.ref /\ c.keyFingerprint = d.keyFingerprint

\* Versions only grow, and what the cache or the reconcile has seen committed
\* is still what the API server holds.
Versions ==
    /\ cm.rv <= rv /\ cmCache.rv <= rv /\ ownRv <= rv
    /\ Exists(cmCache) => Exists(cm)
    /\ cmCache.phase = "ready" => SameData(cmCache, cm)
    /\ Settled => SameData(cmCache, cm)
    /\ cm.phase = "ready" => cm.keyFingerprint \in Keys

\* What the API server holds at each point of the reconcile.
Control ==
    /\ pc = "refuseAdoption" => goal.phase = "provisioning"
    /\ pc \in {"refuseAdoption", "ensure", "update", "initialize"}
         => cm.phase # "ready"
    /\ pc \in {"initialize", "update"} => Exists(cm)
    /\ pc \in {"ensure", "update"} /\ goal.phase = "ready"
         => Exists(cm) /\ obs = goal.keyFingerprint /\ obs \in Keys
    /\ pc = "update" => seen.phase # "ready"
    /\ pc = "validate" => cm.phase = "ready"
                            /\ goal.keyFingerprint = cm.keyFingerprint
    /\ pc = "deploy" => cm.phase = "ready" /\ obs = cm.keyFingerprint

IInv == TypeOK /\ Versions /\ Control /\ EffectiveKeyIsOnRecord /\ NoSelfLockout

LEMMA SpecRefsAreRefs == SpecRefs \subseteq Refs
  BY SMT, ConstantsAssumption DEF SpecRefs, Refs, GeneratedRef

\* A step keeps the variables' types.
LEMMA TypeStep == IInv /\ [Next]_vars => TypeOK'
<1> SUFFICES ASSUME IInv, [Next]_vars PROVE TypeOK'
  OBVIOUS
<1> USE ConstantsAssumption, SpecRefsAreRefs DEF TypeOK, IInv
<1>1. CASE initializeNewAuditHashKey
  BY <1>1 DEF initializeNewAuditHashKey, Begin, Marker, apiVars, cacheVars
<1>2. CASE rejectState
  BY <1>2 DEF rejectState, Begin, apiVars, cacheVars
<1>3. CASE correctPendingIdentity
  BY <1>3 DEF correctPendingIdentity, Begin, Marker, apiVars, cacheVars
<1>4. CASE resumePending
  BY <1>4 DEF resumePending, Begin, apiVars, cacheVars
<1>5. CASE checkCommitted
  BY SMT, <1>5 DEF checkCommitted, Begin, Ready, StateCM, apiVars, cacheVars
<1>6. CASE refuseAdoption
  BY <1>6 DEF refuseAdoption, Goto, apiVars, cacheVars
<1>7. CASE ensureCreate
  BY SMT, <1>7 DEF ensureCreate, AfterEnsure, Written, StateCM, Goto, cacheVars
<1>8. CASE ensureReread
  BY <1>8 DEF ensureReread, Goto, apiVars, cacheVars
<1>9. CASE ensureGet
  BY <1>9 DEF ensureGet, Goto, apiVars, cacheVars
<1>10. CASE ensureFail
  BY <1>10 DEF ensureFail, Goto, apiVars, cacheVars
<1>11. CASE ensureSkip
  BY <1>11 DEF ensureSkip, AfterEnsure, Goto, apiVars, cacheVars
<1>12. CASE ensureUpdate
  BY SMT, <1>12 DEF ensureUpdate, AfterEnsure, Written, StateCM, Goto, cacheVars
<1>13. CASE useExistingSecret
  BY <1>13 DEF useExistingSecret, Ready, apiVars, cacheVars
<1>14. CASE rejectSecret
  BY <1>14 DEF rejectSecret, Goto, apiVars, cacheVars
<1>15. ASSUME NEW k \in Keys, createGeneratedSecret(k) PROVE TypeOK'
  BY <1>15 DEF createGeneratedSecret, Generate, Ready, Secrets, cacheVars
<1>16. CASE validateCommitted
  <2>1. kn.name \in Names
    BY SMT DEF SpecRefs, GeneratedRef
  <2>2. secretCache[kn.name].key \in Keys \cup {NoKey, BadKey}
    BY <2>1 DEF Secrets
  <2> QED
    BY <1>16, <2>2 DEF validateCommitted, Goto, apiVars, cacheVars
<1>17. CASE deploy
  BY <1>17 DEF deploy, Goto, Control, Versions, apiVars, cacheVars
<1>18. CASE SyncState
  BY <1>18 DEF SyncState, apiVars, runVars
<1>19. ASSUME NEW n \in Names, SyncSecret(n) PROVE TypeOK'
  BY <1>19 DEF SyncSecret, apiVars, runVars
<1>20. CASE Crash
  BY SMT, <1>20 DEF Crash, apiVars
<1>21. ASSUME NEW r \in SpecRefs, EditSpec(r) PROVE TypeOK'
  BY SMT, <1>21 DEF EditSpec, Edit, apiVars, cacheVars, runVars
<1>22. ASSUME NEW n \in Names, NEW k \in Keys \cup {BadKey}, WriteSecret(n, k)
       PROVE  TypeOK'
  BY SMT, <1>22 DEF WriteSecret, Edit, Secrets, cacheVars, runVars
<1>23. ASSUME NEW n \in Names, DeleteSecret(n) PROVE TypeOK'
  BY SMT, <1>23 DEF DeleteSecret, Edit, Secrets, NoSecret, Terminating, cacheVars, runVars
<1>24. ASSUME NEW n \in Names, LoseSecret(n) PROVE TypeOK'
  BY SMT, <1>24 DEF LoseSecret, Edit, Secrets, NoSecret, cacheVars, runVars
<1>25. ASSUME NEW k \in Keys, RestoreSecret(k) PROVE TypeOK'
  BY SMT, <1>25 DEF RestoreSecret, Generate, Edit, Secrets, cacheVars, runVars
<1>26. ASSUME NEW o \in BOOLEAN, NEW p \in BOOLEAN, AlterState(o, p)
       PROVE  TypeOK'
  BY SMT, <1>26 DEF AlterState, Edit, Altered, StateCM, cacheVars, runVars
<1>27. CASE UNCHANGED vars
  BY <1>27 DEF vars, apiVars, cacheVars, runVars
<1> QED
  BY <1>1, <1>2, <1>3, <1>4, <1>5, <1>6, <1>7, <1>8, <1>9, <1>10, <1>11, <1>12,
     <1>13, <1>14, <1>15, <1>16, <1>17, <1>18, <1>19, <1>20, <1>21, <1>22, <1>23,
     <1>24, <1>25, <1>26, <1>27
     DEF Next, Operator, ensureApply, Cache, Admin

\* A step keeps what the protocol relies on, when a reconcile starts with the
\* operator's own earlier writes in its cache.
LEMMA ProtocolStep ==
    ASSUME SettledStarts, IInv, [Next]_vars
    PROVE  (Versions /\ Control /\ EffectiveKeyIsOnRecord)'
<1> DEFINE Goal == (Versions /\ Control /\ EffectiveKeyIsOnRecord)'
<1> USE ConstantsAssumption
    DEF TypeOK, IInv, Versions, Control, EffectiveKeyIsOnRecord, SameData,
        Settled, Exists, StateCM
<1>1. CASE initializeNewAuditHashKey
  BY <1>1 DEF initializeNewAuditHashKey, Begin, Marker, apiVars, cacheVars
<1>2. CASE rejectState
  BY <1>2 DEF rejectState, Begin, apiVars, cacheVars
<1>3. CASE correctPendingIdentity
  BY <1>3 DEF correctPendingIdentity, canCorrectPendingBYOIdentity, Pending,
              Begin, Marker, apiVars, cacheVars
<1>4. CASE resumePending
  BY <1>4 DEF resumePending, Pending, Begin, apiVars, cacheVars
<1>5. CASE checkCommitted
  BY <1>5 DEF checkCommitted, validateAuditHashKeyState, Begin, Ready, apiVars,
              cacheVars
<1>6. CASE refuseAdoption
  BY <1>6 DEF refuseAdoption, Goto, apiVars, cacheVars
<1>7. CASE ensureCreate
  BY SMT, <1>7 DEF ensureCreate, AfterEnsure, Written, Goto, cacheVars
<1>8. CASE ensureReread
  BY <1>8 DEF ensureReread, Goto, apiVars, cacheVars
<1>9. CASE ensureGet
  BY <1>9 DEF ensureGet, Goto, apiVars, cacheVars
<1>10. CASE ensureFail
  BY <1>10 DEF ensureFail, Goto, apiVars, cacheVars
<1>11. CASE ensureSkip
  BY <1>11 DEF ensureSkip, UpToDate, AfterEnsure, Goto, apiVars, cacheVars
<1>12. CASE ensureUpdate
  BY SMT, <1>12 DEF ensureUpdate, AfterEnsure, Written, Goto, cacheVars
<1>13. CASE useExistingSecret
  BY <1>13 DEF useExistingSecret, Ready, apiVars, cacheVars
<1>14. CASE rejectSecret
  BY <1>14 DEF rejectSecret, Goto, apiVars, cacheVars
<1>15. ASSUME NEW k \in Keys, createGeneratedSecret(k) PROVE Goal
  BY <1>15 DEF createGeneratedSecret, Ready, cacheVars
<1>16. CASE validateCommitted
  BY <1>16 DEF validateCommitted, validateEffectiveAuditHashKeySecret, Goto,
               apiVars, cacheVars
<1>17. CASE deploy
  BY <1>17 DEF deploy, Goto, apiVars, cacheVars
<1>18. CASE SyncState
  BY <1>18 DEF SyncState, apiVars, runVars
<1>19. ASSUME NEW n \in Names, SyncSecret(n) PROVE Goal
  BY <1>19 DEF SyncSecret, apiVars, runVars
<1>20. CASE Crash
  BY <1>20 DEF Crash, apiVars
<1>21. ASSUME NEW r \in SpecRefs, EditSpec(r) PROVE Goal
  BY <1>21 DEF EditSpec, Edit, apiVars, cacheVars, runVars
<1>22. ASSUME NEW n \in Names, NEW k \in Keys \cup {BadKey}, WriteSecret(n, k)
       PROVE  Goal
  BY <1>22 DEF WriteSecret, Edit, cacheVars, runVars
<1>23. ASSUME NEW n \in Names, DeleteSecret(n) PROVE Goal
  BY <1>23 DEF DeleteSecret, Edit, cacheVars, runVars
<1>24. ASSUME NEW n \in Names, LoseSecret(n) PROVE Goal
  BY <1>24 DEF LoseSecret, Edit, cacheVars, runVars
<1>25. ASSUME NEW k \in Keys, RestoreSecret(k) PROVE Goal
  BY <1>25 DEF RestoreSecret, Edit, cacheVars, runVars
<1>26. ASSUME NEW o \in BOOLEAN, NEW p \in BOOLEAN, AlterState(o, p) PROVE Goal
  BY SMT, <1>26 DEF AlterState, Edit, Altered, cacheVars, runVars
<1>27. CASE UNCHANGED vars
  BY <1>27 DEF vars, apiVars, cacheVars, runVars
<1> QED
  BY <1>1, <1>2, <1>3, <1>4, <1>5, <1>6, <1>7, <1>8, <1>9, <1>10, <1>11, <1>12,
     <1>13, <1>14, <1>15, <1>16, <1>17, <1>18, <1>19, <1>20, <1>21, <1>22, <1>23,
     <1>24, <1>25, <1>26, <1>27
     DEF Next, Operator, ensureApply, Cache, Admin

\* A step never leaves an operator-generated Secret without its marker.
LEMMA LockoutStep == ASSUME IInv, [Next]_vars PROVE NoSelfLockout'
<1> USE DEF NoSelfLockout, Exists, Found
<1>1. Exists(cm) => Exists(cm)'
  <2>1. CASE ensureCreate \/ ensureUpdate
    BY SMT, <2>1 DEF ensureCreate, ensureUpdate, Written, IInv, TypeOK
  <2>2. ASSUME NEW o \in BOOLEAN, NEW p \in BOOLEAN, AlterState(o, p)
        PROVE  Exists(cm) => Exists(cm)'
    BY <2>2 DEF AlterState, Edit, Altered
  <2>3. \/ UNCHANGED cm
        \/ ensureCreate \/ ensureUpdate
        \/ \E o \in BOOLEAN, p \in BOOLEAN : AlterState(o, p)
    BY DEF Next, Operator, ensureApply, Cache, Admin, vars, apiVars, runVars, Begin, Edit,
       initializeNewAuditHashKey, rejectState, correctPendingIdentity,
       resumePending, checkCommitted, refuseAdoption, ensureReread, ensureGet,
       ensureFail, ensureSkip, useExistingSecret, rejectSecret,
       createGeneratedSecret, validateCommitted, deploy, SyncState, SyncSecret,
       Crash, EditSpec, WriteSecret, DeleteSecret, LoseSecret, RestoreSecret
  <2> QED
    BY <2>1, <2>2, <2>3
<1>2. ASSUME NEW k \in Keys, createGeneratedSecret(k) PROVE Exists(cm)
  BY <1>2 DEF createGeneratedSecret, IInv, Control
<1>3. ASSUME NEW k \in Keys, RestoreSecret(k) PROVE Exists(cm)
  BY <1>3 DEF RestoreSecret
<1>4. ASSUME NEW n \in Names, NEW k \in Keys \cup {BadKey}, WriteSecret(n, k)
      PROVE  NoSelfLockout'
  BY <1>1, <1>4 DEF WriteSecret, IInv, TypeOK
<1>5. ASSUME NEW n \in Names, DeleteSecret(n) PROVE NoSelfLockout'
  BY <1>1, <1>5, ConstantsAssumption
     DEF DeleteSecret, IInv, TypeOK, NoSecret, Terminating
<1>6. ASSUME NEW n \in Names, LoseSecret(n) PROVE NoSelfLockout'
  BY <1>1, <1>6 DEF LoseSecret, IInv, TypeOK, NoSecret
<1>7. CASE UNCHANGED secret
  BY <1>1, <1>7 DEF IInv
<1>8. \/ UNCHANGED secret
      \/ \E k \in Keys : createGeneratedSecret(k) \/ RestoreSecret(k)
      \/ \E n \in Names, k \in Keys \cup {BadKey} : WriteSecret(n, k)
      \/ \E n \in Names : DeleteSecret(n) \/ LoseSecret(n)
  BY DEF Next, Operator, ensureApply, Cache, Admin, vars, apiVars, cacheVars, runVars, Begin,
     Goto, initializeNewAuditHashKey, rejectState, correctPendingIdentity,
     resumePending, checkCommitted, refuseAdoption, ensureCreate, ensureReread,
     ensureGet, ensureFail, ensureSkip, ensureUpdate, useExistingSecret,
     rejectSecret, validateCommitted, deploy, SyncState, SyncSecret, Crash,
     EditSpec, AlterState
<1> QED
  BY <1>1, <1>2, <1>3, <1>4, <1>5, <1>6, <1>7, <1>8

LEMMA InitIInv == Init => IInv
  BY SMT, ConstantsAssumption, SpecRefsAreRefs
     DEF Init, IInv, TypeOK, Versions, Control, EffectiveKeyIsOnRecord,
         NoSelfLockout, SameData, Settled, Exists, Found, NoCM, StateCM, NoSecret,
         Secrets, Marker, GeneratedRef, SpecRefs, Refs

\* The inductive invariant holds of every reachable state.
THEOREM InductiveInvariant == ASSUME SettledStarts PROVE Spec => []IInv
<1>1. IInv /\ [Next]_vars => IInv'
  BY TypeStep, ProtocolStep, LockoutStep DEF IInv
<1> QED
  BY InitIInv, <1>1, PTL DEF Spec

\* Every variable of the protocol keeps its type.
THEOREM TypeCorrect == ASSUME SettledStarts PROVE Spec => []TypeOK
<1>1. IInv => TypeOK
  BY DEF IInv
<1> QED
  BY InductiveInvariant, <1>1, PTL

\* ensureDataStorageAuditHashKey never lets DataStorage run with two keys.
THEOREM OneKey == ASSUME SettledStarts PROVE Spec => []OneEffectiveKey
<1>1. IInv => OneEffectiveKey
  BY DEF IInv, EffectiveKeyIsOnRecord, OneEffectiveKey
<1> QED
  BY InductiveInvariant, <1>1, PTL

\* A deployed key is the one whose fingerprint the state ConfigMap records.
THEOREM KeyOnRecord == ASSUME SettledStarts PROVE Spec => []EffectiveKeyIsOnRecord
<1>1. IInv => EffectiveKeyIsOnRecord
  BY DEF IInv
<1> QED
  BY InductiveInvariant, <1>1, PTL

\* A crash never locks the operator out of the Secret it generated.
THEOREM NoLockout == ASSUME SettledStarts PROVE Spec => []NoSelfLockout
<1>1. IInv => NoSelfLockout
  BY DEF IInv
<1> QED
  BY InductiveInvariant, <1>1, PTL

\* createOrGetAuditHashKeySecret generates no key once one is committed.
THEOREM NoRegeneration == ASSUME SettledStarts PROVE Spec => LostKeyIsNotRegenerated
<1>1. IInv /\ [Next]_vars
        => [cm.phase = "ready" => ~\E k \in Keys : createGeneratedSecret(k)]_vars
  BY DEF IInv, Control, createGeneratedSecret
<1> QED
  BY InductiveInvariant, <1>1, PTL DEF Spec, LostKeyIsNotRegenerated

\* The protocol implements the write-once register: committing a fingerprint
\* is its Commit, deploying is its Deploy, and every other step stutters.
THEOREM Refinement == ASSUME SettledStarts PROVE Spec => ImplementsWriteOnceKey
<1>1. Init => Committed!Init
  BY SMT DEF Init, Committed!Init, NoCM
<1>2. IInv /\ IInv' /\ [Next]_vars => [Committed!Next]_(Committed!vars)
  <2> SUFFICES ASSUME IInv, IInv', [Next]_vars
               PROVE  [Committed!Next]_(Committed!vars)
    OBVIOUS
  <2> USE ConstantsAssumption
      DEF Committed!Next, Committed!vars, Committed!Commit, Committed!Deploy
  <2>1. CASE ensureCreate
    BY <2>1 DEF ensureCreate, Exists, Written, IInv, TypeOK, Control
  <2>2. CASE ensureUpdate
    BY <2>2 DEF ensureUpdate, Written, IInv, TypeOK, Control
  <2>3. CASE deploy
    BY <2>3 DEF deploy, Goto, apiVars, IInv, Versions, Control
  <2>4. ASSUME NEW o \in BOOLEAN, NEW p \in BOOLEAN, AlterState(o, p)
        PROVE  UNCHANGED Committed!vars
    BY <2>4 DEF AlterState, Edit, Altered
  <2>5. \/ UNCHANGED <<cm, effective>>
        \/ ensureCreate \/ ensureUpdate \/ deploy
        \/ \E o \in BOOLEAN, p \in BOOLEAN : AlterState(o, p)
    BY DEF Next, Operator, ensureApply, Cache, Admin, vars, apiVars, cacheVars, runVars, Begin,
       Edit, initializeNewAuditHashKey, rejectState, correctPendingIdentity,
       resumePending, checkCommitted, refuseAdoption, ensureReread, ensureGet,
       ensureFail, ensureSkip, useExistingSecret, rejectSecret,
       createGeneratedSecret, validateCommitted, SyncState, SyncSecret, Crash,
       EditSpec, WriteSecret, DeleteSecret, LoseSecret, RestoreSecret
  <2> QED
    BY <2>1, <2>2, <2>3, <2>4, <2>5
<1> QED
  BY <1>1, <1>2, InductiveInvariant, PTL DEF Spec, ImplementsWriteOnceKey, Committed!Spec
=============================================================================
