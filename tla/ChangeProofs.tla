---------------------------- MODULE ChangeProofs -----------------------------
(***************************************************************************)
(* What a change brings about: proofs about ClusterRBAC, for every set of  *)
(* objects and every bound, and about MaterialRollout, for every set of    *)
(* components and changing Secrets and every bound.  The two share no      *)
(* variable and no proof step; Spec is the one of ClusterRBAC, SpecRollout *)
(* the one of MaterialRollout.                                             *)
(*                                                                         *)
(* ClusterRBAC: a CR that is gone has left no labelled or fixed-name       *)
(* object behind when the List caches are prompt, and the status has every *)
(* tool binding on record unless a call failed or the operator crashed.    *)
(* MaterialRollout: an invariant counts the versions that a component has  *)
(* taken in, those that its stamp does not show included.                  *)
(***************************************************************************)
EXTENDS ClusterRBAC, MaterialRollout, TLAPS

\* A step is for Zenon, unless it names another prover.
USE Zenon

--------------------------------------------------------------------------
(* ClusterRBAC: while it deploys, the reconciler serves a CR that exists.  *)

Served ==
    /\ cr \in CRs /\ crCache \in CRs /\ kn \in CRs
    /\ pc \in Stages => cr.state # "gone"

\* The stages of deployRBAC follow each other and end before the cleanup.
LEMMA AfterIsStage == ASSUME NEW s \in Stages \ {"console"} PROVE After(s) \in Stages
BY DEF Stages, After

\* Advance returns or enters the next stage.
LEMMA AdvanceGoes ==
    ASSUME Advance
    PROVE  \/ pc' = "idle" /\ Return
           \/ /\ pc \in Stages \ {"console"} /\ pc' = After(pc)
              /\ Enter(After(pc), kn) /\ UNCHANGED <<kn, knRV>>
<1>1. CASE failed \/ pc = "console" BY <1>1 DEF Advance, Return
<1>2. CASE ~(failed \/ pc = "console")
  <2>1. Enter(After(pc), kn) /\ UNCHANGED <<kn, knRV>> /\ pc \in Stages
    BY <1>2 DEF Advance
  <2>2. pc # "console" BY <1>2
  <2> QED BY <2>1, <2>2 DEF Enter
<1> QED BY <1>1, <1>2

LEMMA ServedStep == ASSUME Served, [Next]_vars PROVE Served'
<1> USE DEF Served
<1>0. "cleanup" \notin Stages /\ "idle" \notin Stages BY DEF Stages
<1>1. CASE Begin
  <2>1. cr' = cr /\ crCache' = crCache /\ kn' = crCache BY <1>1 DEF Begin
  <2>2. pc' = "cleanup" \/ crCache.state # "terminating" BY <1>1 DEF Begin, Enter
  <2>3. pc' = "cleanup" \/ cr.state = "live" BY <1>1, <2>2 DEF Begin, CRs
  <2> QED BY <2>1, <2>3, <1>0
<1>2. CASE Process BY <1>2 DEF Process
<1>3. CASE Fail
  <2>1. cr' = cr /\ crCache' = crCache BY <1>3 DEF Fail
  <2>2. \/ pc' = "idle" /\ kn' \in CRs
        \/ pc' = pc /\ kn' = kn
    BY SMT, <1>3 DEF Fail, Return, CRs
  <2> QED BY <2>1, <2>2, <1>0
<1>4. CASE Advance
  <2>1. cr' = cr /\ crCache' = crCache BY <1>4 DEF Advance
  <2>2. CASE pc' = "idle" /\ Return BY <2>1, <2>2, <1>0 DEF Return, CRs
  <2>3. CASE pc \in Stages \ {"console"} /\ pc' = After(pc) /\ UNCHANGED <<kn, knRV>>
    BY <2>1, <2>3, AfterIsStage
  <2> QED BY <1>4, <2>2, <2>3, AdvanceGoes
<1>5. CASE PatchStatus
  <2>1. cr' = cr \/ cr' = [cr EXCEPT !.bound = kn.want \cap Tool]
    BY <1>5 DEF PatchStatus, PatchBound
  <2>2. cr' \in CRs /\ cr'.state = cr.state BY <2>1 DEF CRs
  <2> QED BY <1>5, <2>2 DEF PatchStatus
<1>6. CASE FailPatch BY <1>6, <1>0 DEF FailPatch, Return, CRs
<1>7. CASE RemoveFinalizer
  <2>1. cr' \in CRs BY <1>7 DEF RemoveFinalizer, CRs
  <2> QED BY <1>7, <2>1, <1>0 DEF RemoveFinalizer, Return, CRs
<1>8. CASE EditCR BY <1>8 DEF EditCR, CRWrite, CRs
<1>10. CASE DeleteCR BY <1>10 DEF DeleteCR, CRWrite, CRs
<1>11. CASE SyncCR BY <1>11 DEF SyncCR
<1>12. CASE SyncList BY <1>12 DEF SyncList
<1>13. CASE Restart BY <1>13, <1>0 DEF Restart, Return, CRs
<1>14. CASE UNCHANGED vars BY <1>14 DEF vars
<1> QED BY <1>1, <1>2, <1>3, <1>4, <1>5, <1>6, <1>7, <1>8, <1>10, <1>11,
           <1>12, <1>13, <1>14 DEF Next, Reconciler

LEMMA ServedInit == Init => Served
BY SMT, ConstantAssumption DEF Init, Served, CRs, Stages, Names, Fixed

--------------------------------------------------------------------------
(* The first theorem: nothing found by label or by name is left.           *)

Pruned == Prompt \cup Fixed

\* A cleanup without a failure so far has what is left to delete on its list.
CleanupInv ==
    /\ Served
    /\ pc = "cleanup" /\ ~failed => objs \cap Pruned \subseteq todo
    /\ NothingLabelledLeft

\* deleteClusterScopedResources lists everything that can be found.
LEMMA CleanupListsAll ==
    ASSUME NEW c
    PROVE  objs \cap Pruned \subseteq Work("cleanup", c, List(objs))
BY DEF Work, deleteClusterScopedResources, List, Pruned

\* The finalizer's stage creates nothing.
LEMMA CleanupCreatesNothing == ASSUME NEW n, NEW c PROVE ~Creates("cleanup", n, c)
BY DEF Creates

LEMMA CleanupStep == ASSUME CleanupInv, [Next]_vars PROVE CleanupInv'
<1> USE DEF NothingLabelledLeft, Gone, Pruned
<1>0. "cleanup" \notin Stages /\ "idle" \notin Stages BY DEF Stages
<1>a. Served /\ Served' BY ServedStep DEF CleanupInv
<1>s. SUFFICES /\ pc' = "cleanup" /\ ~failed' => objs' \cap Pruned \subseteq todo'
               /\ NothingLabelledLeft'
  BY <1>a DEF CleanupInv
<1> USE DEF CleanupInv
<1>1. CASE Begin
  <2>1. objs' = objs /\ cr' = cr BY <1>1 DEF Begin
  <2>2. pc' = "cleanup" => todo' = Work("cleanup", crCache, List(objs))
    BY <1>1 DEF Begin, Enter
  <2> QED BY <2>1, <2>2, CleanupListsAll
<1>2. CASE Process
  <2>1. PICK n \in todo :
           /\ objs' = IF Creates(pc, n, kn) THEN objs \cup {n} ELSE objs \ {n}
           /\ todo' = todo \ {n}
    BY <1>2 DEF Process
  <2>2. pc' = pc /\ cr' = cr /\ failed' = failed BY <1>2 DEF Process
  <2>3. CASE pc \in Stages BY <2>1, <2>2, <2>3, <1>0, <1>a DEF Served
  <2>4. CASE pc \notin Stages
    <3>1. ~Creates(pc, n, kn) BY <2>4 DEF Creates, Stages
    <3> QED BY <2>1, <2>2, <2>4, <3>1
  <2> QED BY <2>3, <2>4
<1>3. CASE Fail
  <2>1. cr' = cr /\ objs' = objs BY <1>3 DEF Fail
  <2>2. pc' = "idle" \/ (pc' = pc /\ failed' = TRUE)
    BY <1>3 DEF Fail, Return
  <2> QED BY <2>1, <2>2
<1>4. CASE Advance
  <2>1. cr' = cr /\ objs' = objs BY <1>4 DEF Advance
  <2>2. pc' # "cleanup" BY <1>4, AdvanceGoes, AfterIsStage, <1>0
  <2> QED BY <2>1, <2>2
<1>5. CASE PatchStatus
  <2>1. objs' = objs /\ pc' = After(pc) /\ pc \in {"status", "toolStatus"}
    BY <1>5 DEF PatchStatus, Enter
  <2>2. pc' \in Stages BY <2>1, AfterIsStage DEF Stages
  <2> QED BY <2>2, <1>0, <1>a DEF Served
<1>6. CASE FailPatch BY <1>6 DEF FailPatch, Return
<1>7. CASE RemoveFinalizer
  <2>1. pc' = "idle" /\ objs' = objs BY <1>7 DEF RemoveFinalizer, Return
  <2>2. CASE ~failed BY <1>7, <2>1, <2>2 DEF RemoveFinalizer
  <2>3. CASE failed
    <3>1. cr' = cr BY <1>7, <2>3 DEF RemoveFinalizer
    <3> QED BY <2>1, <3>1
  <2> QED BY <2>2, <2>3
<1>8. CASE EditCR BY SMT, <1>8, <1>a DEF EditCR, CRWrite, Served, CRs
<1>10. CASE DeleteCR BY <1>10, <1>a DEF DeleteCR, CRWrite, Served, CRs
<1>11. CASE SyncCR BY <1>11 DEF SyncCR
<1>12. CASE SyncList BY <1>12 DEF SyncList
<1>13. CASE Restart BY <1>13 DEF Restart, Return
<1>14. CASE UNCHANGED vars BY <1>14 DEF vars
<1> QED BY <1>1, <1>2, <1>3, <1>4, <1>5, <1>6, <1>7, <1>8, <1>10, <1>11,
           <1>12, <1>13, <1>14 DEF Next, Reconciler

\* For any objects, edits, failures and crashes: a CR that
\* runFinalizerCleanup has let go leaves no fixed-name object behind, and no labelled
\* one of a kind whose List cache keeps up.
THEOREM NothingLeft == Spec => []NothingLabelledLeft
<1>1. Init => CleanupInv
  BY ServedInit DEF Init, CleanupInv, NothingLabelledLeft, Gone
<1>2. CleanupInv /\ [Next]_vars => CleanupInv' BY CleanupStep
<1>3. CleanupInv => NothingLabelledLeft BY DEF CleanupInv
<1> QED BY <1>1, <1>2, <1>3, PTL DEF Spec

--------------------------------------------------------------------------
(* The second theorem: the status names every tool binding.                *)

Bound == objs \cap Tool

\* What an undisturbed reconcile knows of the bindings at each stage.  The status
\* patch before "workflow" gives it the live list, so the prune of stale bindings
\* works on all that are on record; only deployToolRBAC changes the record.
RecordInv ==
    /\ Served
    /\ failures \in Nat /\ crashes \in Nat
    /\ pc \in {"workflow", "toggle", "tool", "toolPrune"} => kn.bound = cr.bound
    /\ pc \in {"core", "workflow", "toggle", "console"} => todo \cap Tool = {}
    /\ pc = "tool" => todo \subseteq kn.want
    /\ failures = 0 => failed = FALSE
    /\ failures = 0 /\ crashes = 0 =>
          /\ pc \notin {"tool", "toolPrune", "toolStatus"} => Bound \subseteq cr.bound
          /\ pc = "tool" => Bound \subseteq cr.bound \cup kn.want
          /\ pc = "toolPrune" => Bound \subseteq todo \cup kn.want
          /\ pc = "toolStatus" => Bound \subseteq kn.want

\* A stage for anything but tool bindings has none on its list.
LEMMA OtherStages ==
    ASSUME NEW c \in CRs, NEW l, NEW s \in {"core", "workflow", "toggle", "console"}
    PROVE  Work(s, c, l) \cap Tool = {}
BY SMT, ConstantAssumption DEF Work, deployCoreRBAC, deployWorkflowRBAC, CRs, Fixed

\* The lists of the two tool stages.
LEMMA ToolStages ==
    ASSUME NEW c, NEW l
    PROVE  /\ Work("tool", c, l) = c.want \cap Tool
           /\ Work("toolPrune", c, l) = c.bound \ c.want
BY DEF Work, deployToolRBAC, staleToolBindings

LEMMA RecordStep == ASSUME RecordInv, [Next]_vars PROVE RecordInv'
<1> USE DEF Bound
<1>a. Served /\ Served' BY ServedStep DEF RecordInv
<1>n. failures \in Nat /\ crashes \in Nat BY DEF RecordInv
<1>1. CASE Begin
  <2>1. objs' = objs /\ cr' = cr /\ failures' = failures /\ crashes' = crashes
        /\ failed' = FALSE
    BY <1>1 DEF Begin, Enter
  <2>2. pc = "idle" BY <1>1 DEF Begin
  <2>3. CASE crCache.state = "terminating"
    <3>1. pc' = "cleanup" BY <1>1, <2>3 DEF Begin, Enter
    <3> QED BY <2>1, <2>2, <3>1, <1>a DEF RecordInv
  <2>4. CASE crCache.state # "terminating"
    <3>1. pc' = "core" /\ todo' = Work("core", crCache, List(objs))
      BY <1>1, <2>4 DEF Begin, Enter
    <3>2. todo' \cap Tool = {} BY <3>1, OtherStages, <1>a DEF Served
    <3> QED BY <2>1, <2>2, <3>1, <3>2, <1>a DEF RecordInv
  <2> QED BY <2>3, <2>4
<1>2. CASE Process
  <2>1. PICK n \in todo :
           /\ objs' = IF Creates(pc, n, kn) THEN objs \cup {n} ELSE objs \ {n}
           /\ todo' = todo \ {n}
    BY <1>2 DEF Process
  <2>2. UNCHANGED <<pc, cr, kn, failed, failures, crashes>> BY <1>2 DEF Process
  <2>3. CASE pc \in {"core", "workflow", "toggle", "console"}
    <3>1. Bound' \subseteq Bound BY <2>1, <2>3 DEF RecordInv
    <3> QED BY <2>1, <2>2, <2>3, <3>1, <1>a DEF RecordInv
  <2>4. CASE pc = "tool"
    BY <2>1, <2>2, <2>4, <1>a DEF RecordInv, Creates
  <2>5. CASE pc \notin {"core", "workflow", "toggle", "console", "tool"}
    <3>1. objs' = objs \ {n} BY <2>1, <2>5 DEF Creates
    <3> QED BY <2>1, <2>2, <2>5, <3>1, <1>a DEF RecordInv
  <2> QED BY <2>3, <2>4, <2>5
<1>3. CASE Fail
  <2>1. failures' = failures + 1 /\ crashes' = crashes /\ cr' = cr BY <1>3 DEF Fail
  <2>2. failures' # 0 /\ failures' \in Nat /\ crashes' \in Nat BY SMT, <2>1, <1>n
  <2>3. pc' = "idle" \/ (pc' = pc /\ kn' = kn /\ todo' \subseteq todo)
    BY <1>3 DEF Fail, Return
  <2> QED BY <2>1, <2>2, <2>3, <1>a DEF RecordInv
<1>4. CASE Advance
  <2>1. UNCHANGED <<cr, objs, failures, crashes>>
        /\ pc \in Stages \ {"status", "toolStatus"} /\ todo = {}
    BY <1>4 DEF Advance
  <2>2. CASE pc' = "idle" /\ Return
    <3>1. failures = 0 => pc = "console"
      <4> SUFFICES ASSUME failures = 0, pc # "console" PROVE FALSE
        OBVIOUS
      <4>1. ~(failed \/ pc = "console") BY DEF RecordInv
      <4>2. pc' = After(pc) BY <1>4, <4>1 DEF Advance, Enter
      <4> QED BY <4>2, <2>1, <2>2, AfterIsStage DEF Stages
    <3> QED BY <2>1, <2>2, <3>1, <1>a DEF RecordInv, Return
  <2>3. CASE /\ pc \in Stages \ {"console"} /\ pc' = After(pc)
             /\ Enter(After(pc), kn) /\ UNCHANGED <<kn, knRV>>
    <3>1. failed' = FALSE /\ todo' = Work(pc', kn, List(objs)) BY <2>3 DEF Enter
    <3>2. CASE pc \in {"core", "prune"}
      <4>1. pc' \in {"prune", "status"} BY <2>3, <3>2 DEF After
      <4> QED BY <2>1, <3>1, <3>2, <4>1, <1>a DEF RecordInv
    <3>3. CASE pc = "workflow"
      <4>1. pc' = "toggle" BY <2>3, <3>3 DEF After
      <4>2. todo' \cap Tool = {} BY <3>1, <4>1, OtherStages, <1>a DEF Served
      <4> QED BY <2>1, <2>3, <3>1, <3>3, <4>1, <4>2, <1>a DEF RecordInv
    <3>4. CASE pc = "toggle"
      <4>1. pc' = "tool" BY <2>3, <3>4 DEF After
      <4>2. todo' \subseteq kn.want BY <3>1, <4>1, ToolStages
      <4> QED BY <2>1, <2>3, <3>1, <3>4, <4>1, <4>2, <1>a DEF RecordInv
    <3>5. CASE pc = "tool"
      <4>1. pc' = "toolPrune" BY <2>3, <3>5 DEF After
      <4>2. todo' = kn.bound \ kn.want BY <3>1, <4>1, ToolStages
      <4> QED BY <2>1, <2>3, <3>1, <3>5, <4>1, <4>2, <1>a DEF RecordInv
    <3>6. CASE pc = "toolPrune"
      <4>1. pc' = "toolStatus" BY <2>3, <3>6 DEF After
      <4> QED BY <2>1, <2>3, <3>1, <3>6, <4>1, <1>a DEF RecordInv
    <3> QED BY <2>1, <2>3, <3>2, <3>3, <3>4, <3>5, <3>6 DEF Stages
  <2> QED BY <1>4, <2>2, <2>3, AdvanceGoes
<1>5. CASE PatchStatus
  <2>1. UNCHANGED <<objs, failures, crashes>> /\ kn' = cr' /\ failed' = FALSE
        /\ pc' = After(pc) /\ todo' = Work(pc', cr', List(objs))
    BY <1>5 DEF PatchStatus, Enter
  <2>2. CASE pc = "status"
    <3>1. pc' = "workflow" /\ cr' = cr BY <1>5, <2>1, <2>2 DEF PatchStatus, After
    <3>2. todo' \cap Tool = {} BY <2>1, <3>1, OtherStages, <1>a DEF Served
    <3> QED BY <2>1, <2>2, <3>1, <3>2, <1>a DEF RecordInv
  <2>3. CASE pc = "toolStatus"
    <3>1. pc' = "console" BY <2>1, <2>3 DEF After
    <3>2. cr'.bound = kn.want \cap Tool
      BY <1>5, <2>3, <1>a DEF PatchStatus, PatchBound, Served, CRs
    <3>3. todo' \cap Tool = {} BY <2>1, <3>1, OtherStages, <1>a DEF Served
    <3> QED BY <2>1, <2>3, <3>1, <3>2, <3>3, <1>a DEF RecordInv
  <2> QED BY <1>5, <2>2, <2>3 DEF PatchStatus
<1>6. CASE FailPatch
  <2>1. UNCHANGED <<objs, cr, crashes>> /\ pc' = "idle" /\ failed' = FALSE
    BY <1>6 DEF FailPatch, Return
  <2>2. cr.state # "gone" BY <1>6, <1>a DEF FailPatch, Served, Stages
  <2>3. failures' = failures + 1 BY <1>6, <2>2 DEF FailPatch
  <2>4. failures' # 0 /\ failures' \in Nat BY SMT, <2>3, <1>n
  <2> QED BY <2>1, <2>4, <1>a DEF RecordInv
<1>7. CASE RemoveFinalizer
  <2>1. UNCHANGED <<objs, failures, crashes>> /\ pc' = "idle" /\ failed' = FALSE
        /\ pc = "cleanup"
    BY <1>7 DEF RemoveFinalizer, Return
  <2>2. cr'.bound = cr.bound BY <1>7, <1>a DEF RemoveFinalizer, Served, CRs
  <2> QED BY <2>1, <2>2, <1>a DEF RecordInv
<1>8. CASE EditCR \/ DeleteCR
  <2>1. UNCHANGED <<objs, pc, todo, kn, failed, failures, crashes>>
    BY <1>8 DEF EditCR, DeleteCR, CRWrite
  <2>2. cr'.bound = cr.bound
    BY <1>8, <1>a DEF EditCR, DeleteCR, CRWrite, Served, CRs
  <2> QED BY <2>1, <2>2, <1>a DEF RecordInv
<1>9. CASE SyncCR BY <1>9, <1>a DEF SyncCR, RecordInv
<1>10. CASE SyncList
  <2>1. UNCHANGED <<cr, objs, pc, todo, kn, failed, failures, crashes>>
    BY <1>10 DEF SyncList
  <2> QED BY <2>1, <1>a DEF RecordInv
<1>11. CASE Restart
  <2>1. UNCHANGED <<cr, objs, failures>> /\ pc' = "idle" /\ failed' = FALSE
    BY <1>11 DEF Restart, Return
  <2>2. crashes' # 0 /\ crashes' \in Nat BY SMT, <1>11, <1>n DEF Restart
  <2> QED BY <2>1, <2>2, <1>a DEF RecordInv
<1>12. CASE UNCHANGED vars BY <1>12, <1>a DEF vars, RecordInv
<1> QED BY <1>1, <1>2, <1>3, <1>4, <1>5, <1>6, <1>7, <1>8, <1>9, <1>10, <1>11,
           <1>12 DEF Next, Reconciler

\* For any objects and edits: as long as no call fails and the operator does not
\* crash, the status names every tool binding there is when the reconciler rests,
\* so that the finalizer finds them all (deployToolRBAC's record).
THEOREM BindingsRecorded == Spec => []BindingsOnRecord
<1>1. Init => RecordInv
  <2> SUFFICES ASSUME Init PROVE RecordInv
    OBVIOUS
  <2>1. objs = {} /\ pc = "idle" /\ failed = FALSE /\ failures = 0 /\ crashes = 0
    BY DEF Init
  <2> QED BY <2>1, ServedInit DEF RecordInv, Bound
<1>2. RecordInv /\ [Next]_vars => RecordInv' BY RecordStep
<1>3. RecordInv => BindingsOnRecord BY DEF RecordInv, BindingsOnRecord, Bound
<1> QED BY <1>1, <1>2, <1>3, PTL DEF Spec

--------------------------------------------------------------------------
(* Types.                                                                  *)

\* A stage works on objects the operator may create.
LEMMA WorkType ==
    ASSUME NEW s, NEW c \in CRs, NEW list \in SUBSET Core
    PROVE  Work(s, c, list) \subseteq Names \cup Workflows
BY DEF Work, deployCoreRBAC, pruneUndesired, deployWorkflowRBAC, deployToolRBAC,
       staleToolBindings, deleteClusterScopedResources, CRs, Names, Fixed

\* Every variable of the RBAC reconciler keeps its type.
THEOREM TypeCorrect == Spec => []TypeOK
<1> DEFINE All == Names \cup Workflows
           Rest == /\ crCacheRV \in {"current", "stale"} /\ knRV \in {"current", "stale"}
                   /\ objs \subseteq All /\ listed \subseteq Lagging
                   /\ pc \in Stages \cup {"idle", "cleanup"} /\ todo \subseteq All
                   /\ edits \in 0 .. MaxEdits /\ failures \in 0 .. MaxFailures
                   /\ crashes \in 0 .. MaxCrashes
<1>1. Init => Rest
  BY SMT, ConstantAssumption DEF Init
<1>2. Served /\ Served' /\ Rest /\ [Next]_vars => Rest'
  <2> SUFFICES ASSUME Served, Served', Rest, [Next]_vars PROVE Rest'
    OBVIOUS
  <2> USE ConstantAssumption
  <2>0. ASSUME NEW s \in Stages \cup {"cleanup"}, NEW c \in CRs, Enter(s, c)
        PROVE  pc' \in Stages \cup {"cleanup"} /\ todo' \subseteq All
    <3>1. List(objs) \in SUBSET Core
      BY DEF List, Lagging
    <3> QED BY <2>0, <3>1, WorkType DEF Enter
  <2>1. CASE Begin
    <3>1. IF crCache.state = "terminating" THEN Enter("cleanup", crCache) ELSE Enter("core", crCache)
      BY <2>1 DEF Begin
    <3>2. pc' \in Stages \cup {"cleanup"} /\ todo' \subseteq All
      BY <3>1, <2>0 DEF Served, Stages
    <3> QED BY <2>1, <3>2 DEF Begin
  <2>2. CASE Process
    BY SMT, <2>2 DEF Process
  <2>3. CASE Fail
    BY SMT, <2>3 DEF Fail, Return
  <2>4. CASE Advance
    <3>1. CASE failed \/ pc = "console"
      BY <2>4, <3>1 DEF Advance, Return
    <3>2. CASE ~(failed \/ pc = "console")
      <4>1. After(pc) \in Stages /\ Enter(After(pc), kn)
        BY <2>4, <3>2, AfterIsStage DEF Advance
      <4>2. pc' \in Stages \cup {"cleanup"} /\ todo' \subseteq All
        BY <4>1, <2>0 DEF Served
      <4> QED BY <2>4, <3>2, <4>2 DEF Advance
    <3> QED BY <3>1, <3>2
  <2>5. CASE PatchStatus
    <3>1. After(pc) \in Stages /\ Enter(After(pc), cr')
      BY <2>5, AfterIsStage DEF PatchStatus, Stages
    <3>2. pc' \in Stages \cup {"cleanup"} /\ todo' \subseteq All
      BY <3>1, <2>0 DEF Served
    <3> QED BY <2>5, <3>2 DEF PatchStatus
  <2>6. CASE FailPatch
    BY SMT, <2>6 DEF FailPatch, Return
  <2>7. CASE RemoveFinalizer
    BY <2>7 DEF RemoveFinalizer, Return
  <2>8. CASE EditCR \/ DeleteCR
    <3>1. edits' \in 0 .. MaxEdits
      <4>1. edits' = edits \/ (edits < MaxEdits /\ edits' = edits + 1)
        BY <2>8, Zenon DEF EditCR, DeleteCR
      <4> QED BY SMT, <4>1
    <3>2. /\ crCacheRV' = "stale" /\ knRV' = "stale"
          /\ UNCHANGED <<objs, listed, pc, todo, failures, crashes>>
      BY <2>8 DEF EditCR, DeleteCR, CRWrite
    <3> QED BY <3>1, <3>2
  <2>9. CASE SyncCR \/ SyncList
    BY <2>9 DEF SyncCR, SyncList
  <2>10. CASE Restart
    BY SMT, <2>10 DEF Restart, Return
  <2>11. CASE UNCHANGED vars
    BY <2>11 DEF vars
  <2> QED BY <2>1, <2>2, <2>3, <2>4, <2>5, <2>6, <2>7, <2>8, <2>9, <2>10, <2>11
         DEF Next, Reconciler
<1>3. failed \in BOOLEAN /\ [Next]_vars => failed' \in BOOLEAN
  <2> SUFFICES ASSUME failed \in BOOLEAN, [Next]_vars PROVE failed' \in BOOLEAN
    OBVIOUS
  <2>1. CASE Begin \/ PatchStatus
    BY <2>1 DEF Begin, PatchStatus, Enter
  <2>2. CASE Process \/ EditCR \/ DeleteCR \/ SyncCR \/ SyncList \/ UNCHANGED vars
    BY <2>2 DEF Process, EditCR, DeleteCR, CRWrite, SyncCR, SyncList, vars
  <2>3. CASE Fail
    BY <2>3 DEF Fail, Return
  <2>4. CASE Advance
    BY <2>4 DEF Advance, Return, Enter
  <2>5. CASE FailPatch \/ RemoveFinalizer \/ Restart
    BY <2>5 DEF FailPatch, RemoveFinalizer, Restart, Return
  <2> QED BY <2>1, <2>2, <2>3, <2>4, <2>5 DEF Next, Reconciler
<1>4. Init => failed \in BOOLEAN
  BY DEF Init
<1>5. Served /\ Rest /\ failed \in BOOLEAN => TypeOK
  BY DEF Served, TypeOK
<1> DEFINE Typed == Served /\ Rest /\ failed \in BOOLEAN
<1>6. Init => Typed
  BY <1>1, <1>4, ServedInit
<1>7. Typed /\ [Next]_vars => Typed'
  <2> SUFFICES ASSUME Typed, [Next]_vars PROVE Typed'
    OBVIOUS
  <2>1. Served'
    BY ServedStep
  <2> QED BY <2>1, <1>2, <1>3
<1>8. Typed => TypeOK
  BY <1>5
<1> HIDE DEF Typed
<1> QED BY <1>6, <1>7, <1>8, PTL DEF Spec

--------------------------------------------------------------------------
(* MaterialRollout                                                         *)

\* The version of a material in the cache.
CachedVersion(o) == IF o = "ambient" THEN cbundle.rv ELSE cache[o].rv

\* Types, with a resourceVersion that counts the changes.
RolloutTypes ==
  /\ live \in [AdminSecrets -> [rv : Nat \ {0}, state : {"valid", "invalid", "missing"}]]
  /\ cache \in [AdminSecrets -> [rv : Nat \ {0}, state : {"valid", "invalid", "missing"}]]
  /\ bundle \in [rv : Nat, parts : SUBSET {"service", "router"}]
  /\ cbundle \in [rv : Nat, parts : SUBSET {"service", "router"}]
  /\ sources \subseteq {"service", "router"} /\ byo \in BOOLEAN
  /\ stage \in {"idle", "validated", "rendered", "checked", "revisions"}
  /\ revs \in [Materials -> Nat] /\ template \in [Components -> [Materials -> Nat]]
  /\ rolls \in [Components -> Nat] /\ events \in 0..MaxEvents
  /\ \A o \in AdminSecrets : live[o].rv <= events + 1

\* A cache never runs ahead, and what it has of the current version is current.
CachesLag ==
  /\ \A o \in AdminSecrets : cache[o].rv <= live[o].rv /\ (cache[o].rv = live[o].rv => cache[o] = live[o])
  /\ cbundle.rv <= bundle.rv
  /\ stage = "checked" => cbundle.rv # 0

\* Materials that end the pass when they are missing; "fleet-oauth2" is not
\* stamped on anything.
Numbered == Materials \ {"signing", "fleet-oauth2"}

\* The revisions of a pass are versions that its cache has had.
PassRevisions ==
  IF stage = "revisions"
  THEN \A o \in Numbered : 1 <= revs[o] /\ revs[o] <= CachedVersion(o)
  ELSE revs = None

\* A template carries nothing its component does not consume, and versions no
\* newer than the cache's and the pass's.
TemplateStamps ==
  \A c \in Components :
    /\ \A o \in Materials \ Stamps(c) : template[c][o] = 0
    /\ \A o \in Stamps(c) \ {"signing"} : /\ template[c][o] <= CachedVersion(o)
                                          /\ stage = "revisions" => template[c][o] <= revs[o]
                                          /\ template[c] # None => 1 <= template[c][o]

\* A missing signing Secret is stamped 0.
SigningStamp(x) == IF x.state = "missing" THEN 0 ELSE x.rv

\* The stamp 0 does not say which version it stands for.  Some version does: w
\* is one for DataStorage's template, u for the revisions of the pass, and both
\* agree with the cache where they name the cached version.
SigningVersions(w, u) ==
  /\ stage = "revisions" => /\ revs["signing"] <= u
                            /\ u = cache["signing"].rv => revs["signing"] = SigningStamp(cache["signing"])
  /\ \A c \in Components : "signing" \in Stamps(c) /\ template[c] # None =>
       /\ template[c]["signing"] <= w
       /\ w = cache["signing"].rv => template[c]["signing"] = SigningStamp(cache["signing"])
       /\ w = u /\ stage = "revisions" => template[c]["signing"] = revs["signing"]

\* The changes that a component's template has taken in.
Observed(c, w) ==
  [o \in Materials |-> IF o \notin Stamps(c) THEN 0
                       ELSE IF o = "signing" THEN w - 1 ELSE template[c][o] - 1]

\* A template has changed once for its creation and once for each of those.
WithinBudget(w) ==
  \A c \in Components : IF template[c] = None THEN rolls[c] = 0 ELSE rolls[c] <= 1 + Total(Observed(c, w))

\* The inductive invariant.  The versions behind the signing Secret's stamps are
\* not in the state, so that the invariant claims there are some.
RolloutInv ==
  /\ RolloutTypes /\ CachesLag /\ PassRevisions /\ TemplateStamps
  /\ \E u \in 1..cache["signing"].rv : \E w \in 1..u : SigningVersions(w, u) /\ WithinBudget(w)

\* What a component is stamped with it consumes.
LEMMA StampsOfMaterials ==
  \A c : Stamps(c) \subseteq (Consumes(c) \cap Materials) \ {"fleet-oauth2"}
<1> SUFFICES ASSUME NEW c, NEW o \in Stamps(c)
             PROVE  o \in Consumes(c) /\ o \in Materials /\ o # "fleet-oauth2"
  OBVIOUS
<1>1. o \in Materials /\ o # "fleet-oauth2"
  BY DEF Stamps, Materials, AdminSecrets, stampTelemetryMaterialRevision, stampFleetMCPGatewayMaterialRevision,
         stampDataStorageSigningMaterialRevision, stampDataStorageDependencyRevision, stampMonitoringMaterialRevision
<1>2. o \in Consumes(c)
  BY DEF Stamps, Consumes, Mounts, stampTelemetryMaterialRevision, stampFleetMCPGatewayMaterialRevision,
         stampDataStorageSigningMaterialRevision, stampDataStorageDependencyRevision, stampMonitoringMaterialRevision
<1> QED
  BY <1>1, <1>2

\* The total is monotone, strictly where a summand grows.
LEMMA TotalGrows ==
  ASSUME NEW f \in [Materials -> Nat], NEW g \in [Materials -> Nat], \A o \in Materials : f[o] <= g[o]
  PROVE  /\ Total(f) \in Nat /\ Total(f) <= Total(g)
         /\ (\E o \in Materials : f[o] # g[o]) => Total(f) + 1 <= Total(g)
<1>1. /\ f["postgresql"] \in Nat /\ f["valkey"] \in Nat /\ f["signing"] \in Nat /\ f["monitoring"] \in Nat
      /\ f["mcp-gateway"] \in Nat /\ f["fleet-oauth2"] \in Nat /\ f["otlp-gateway"] \in Nat
      /\ f["otlp-agent"] \in Nat /\ f["ambient"] \in Nat
  BY DEF Materials, AdminSecrets
<1>2. /\ g["postgresql"] \in Nat /\ g["valkey"] \in Nat /\ g["signing"] \in Nat /\ g["monitoring"] \in Nat
      /\ g["mcp-gateway"] \in Nat /\ g["fleet-oauth2"] \in Nat /\ g["otlp-gateway"] \in Nat
      /\ g["otlp-agent"] \in Nat /\ g["ambient"] \in Nat
  BY DEF Materials, AdminSecrets
<1>3. /\ f["postgresql"] <= g["postgresql"] /\ f["valkey"] <= g["valkey"] /\ f["signing"] <= g["signing"]
      /\ f["monitoring"] <= g["monitoring"] /\ f["mcp-gateway"] <= g["mcp-gateway"]
      /\ f["fleet-oauth2"] <= g["fleet-oauth2"] /\ f["otlp-gateway"] <= g["otlp-gateway"]
      /\ f["otlp-agent"] <= g["otlp-agent"] /\ f["ambient"] <= g["ambient"]
  BY DEF Materials, AdminSecrets
<1>4. Total(f) \in Nat /\ Total(f) <= Total(g)
  BY SMT, <1>1, <1>2, <1>3 DEF Total
<1>5. ASSUME NEW o \in Materials, f[o] # g[o] PROVE Total(f) + 1 <= Total(g)
  BY SMT, <1>1, <1>2, <1>3, <1>5 DEF Total, Materials, AdminSecrets
<1> QED
  BY <1>4, <1>5

\* Initially no template is stamped.
LEMMA InitRolloutInv == InitRollout => RolloutInv
<1> SUFFICES ASSUME InitRollout PROVE RolloutInv
  OBVIOUS
<1>1. None \in [Materials -> Nat] /\ \A o \in Materials : None[o] = 0
  BY DEF None
<1>2. /\ live \in [AdminSecrets -> [rv : Nat \ {0}, state : {"valid", "invalid", "missing"}]]
      /\ \A o \in AdminSecrets : live[o].rv = 1
      /\ cache = live
  BY SMT DEF InitRollout
<1>3. RolloutTypes
  <2>1. bundle \in [rv : Nat, parts : SUBSET {"service", "router"}] /\ cbundle = bundle
    BY DEF InitRollout
  <2>2. events \in 0..MaxEvents /\ \A o \in AdminSecrets : live[o].rv <= events + 1
    BY SMT, <1>2, MaterialRolloutAssumption DEF InitRollout
  <2> QED
    BY <1>1, <1>2, <2>1, <2>2 DEF InitRollout, RolloutTypes
<1>4. CachesLag /\ PassRevisions
  BY SMT, <1>2 DEF CachesLag, PassRevisions, InitRollout
<1>5. TemplateStamps
  BY SMT, <1>1, <1>2, StampsOfMaterials DEF TemplateStamps, InitRollout, CachedVersion, Materials
<1>6. SigningVersions(1, 1) /\ WithinBudget(1)
  BY DEF SigningVersions, WithinBudget, InitRollout
<1>7. cache["signing"].rv = 1
  BY <1>2 DEF AdminSecrets
<1> QED
  BY SMT, <1>3, <1>4, <1>5, <1>6, <1>7 DEF RolloutInv

\* A write of the trust bundle never takes its version back.
LEMMA BundleVersionGrows ==
  ASSUME RolloutTypes, NEW read \in SUBSET sources, TrustBundleConfigMap(read)
  PROVE  bundle' \in [rv : Nat, parts : SUBSET {"service", "router"}] /\ bundle.rv <= bundle'.rv
<1>1. bundle.rv \in Nat /\ read \subseteq {"service", "router"}
  BY DEF RolloutTypes
<1>2. CASE bundle' = bundle
  BY SMT, <1>1, <1>2 DEF RolloutTypes
<1>3. CASE bundle' = [rv |-> bundle.rv + 1, parts |-> read]
  BY SMT, <1>1, <1>3
<1> QED
  BY <1>2, <1>3 DEF TrustBundleConfigMap

\* A step of a pass that derives no revisions and writes no template.
QuietStep ==
  /\ UNCHANGED <<live, cache, sources, cbundle, template, rolls>>
  /\ bundle' \in [rv : Nat, parts : SUBSET {"service", "router"}] /\ bundle.rv <= bundle'.rv
  /\ stage' \in {"idle", "validated", "rendered", "checked"}
  /\ stage' = "checked" => cbundle.rv # 0
  /\ revs' = None /\ byo' \in BOOLEAN
  /\ events' \in 0..MaxEvents /\ events <= events'

\* Events stay within their bound.
LEMMA EventBound ==
  ASSUME RolloutTypes, Event
  PROVE  events' \in 0..MaxEvents /\ events <= events'
BY SMT, MaterialRolloutAssumption DEF RolloutTypes, Event

\* Validation, the trust bundle's writes and the ends of a pass are such steps.
LEMMA QuietActions ==
  ASSUME RolloutInv, NEW read \in SUBSET sources,
         \/ phaseValidate(read) \/ deployConfigMaps(read) \/ DatabaseMissing \/ BundleConflict
         \/ deriveRevisions /\ stage' # "revisions"
         \/ stage # "idle" /\ Event /\ EndPass /\ UNCHANGED <<objects, template, byo, rolls>>
  PROVE  QuietStep
<1>a. RolloutTypes /\ (stage # "revisions" => revs = None)
  BY DEF RolloutInv, PassRevisions
<1>b. /\ bundle \in [rv : Nat, parts : SUBSET {"service", "router"}] /\ bundle.rv <= bundle.rv
      /\ events \in 0..MaxEvents /\ events <= events
  BY SMT, <1>a, MaterialRolloutAssumption DEF RolloutTypes
<1>c. byo \in BOOLEAN
  BY <1>a DEF RolloutTypes
<1>d. Reads(read) => events' \in 0..MaxEvents /\ events <= events'
  BY <1>a, <1>b, EventBound DEF Reads
<1>1. CASE phaseValidate(read)
  <2>1. bundle' \in [rv : Nat, parts : SUBSET {"service", "router"}] /\ bundle.rv <= bundle'.rv
    BY <1>a, <1>b, <1>1, BundleVersionGrows DEF phaseValidate
  <2>2. events' \in 0..MaxEvents /\ events <= events'
    BY <1>b, <1>d, <1>1 DEF phaseValidate
  <2>3. byo' \in BOOLEAN
    BY <1>1 DEF phaseValidate
  <2> QED
    BY <1>a, <1>1, <2>1, <2>2, <2>3 DEF QuietStep, phaseValidate, EndPass
<1>2. CASE deployConfigMaps(read)
  BY <1>a, <1>c, <1>d, <1>2, BundleVersionGrows DEF QuietStep, deployConfigMaps
<1>3. CASE DatabaseMissing
  BY <1>b, <1>c, <1>3 DEF QuietStep, DatabaseMissing, EndPass, objects
<1>4. CASE BundleConflict
  <2>1. byo' \in BOOLEAN
    BY <1>c, <1>4 DEF BundleConflict
  <2> QED
    BY <1>b, <1>4, <2>1 DEF QuietStep, BundleConflict, EndPass, objects
<1>5. CASE deriveRevisions /\ stage' # "revisions"
  BY <1>a, <1>b, <1>c, <1>5 DEF QuietStep, deriveRevisions, EndPass, objects, validateTelemetryAmbientTrust
<1>6. CASE stage # "idle" /\ Event /\ EndPass /\ UNCHANGED <<objects, template, byo, rolls>>
  BY <1>a, <1>b, <1>c, <1>6, EventBound DEF QuietStep, EndPass, objects
<1> QED
  BY <1>1, <1>2, <1>3, <1>4, <1>5, <1>6

\* Such a step keeps the invariant: w stands for both versions.
LEMMA QuietStepKeeps == RolloutInv /\ QuietStep => RolloutInv'
<1> SUFFICES ASSUME RolloutInv, QuietStep PROVE RolloutInv'
  OBVIOUS
<1>a. RolloutTypes /\ CachesLag /\ PassRevisions /\ TemplateStamps
  BY DEF RolloutInv
<1>1. RolloutTypes'
  <2>1. None \in [Materials -> Nat]
    BY DEF None
  <2>2. \A o \in AdminSecrets : live[o].rv <= events' + 1
    BY SMT, <1>a DEF RolloutTypes, QuietStep
  <2> QED
    BY <1>a, <2>1, <2>2 DEF RolloutTypes, QuietStep
<1>2. CachesLag'
  <2>1. cbundle.rv \in Nat /\ bundle.rv \in Nat /\ bundle'.rv \in Nat
    BY <1>a DEF RolloutTypes, QuietStep
  <2> QED
    BY SMT, <1>a, <2>1 DEF CachesLag, QuietStep
<1>3. PassRevisions'
  BY DEF PassRevisions, QuietStep, None
<1>4. TemplateStamps'
  BY <1>a DEF TemplateStamps, QuietStep, CachedVersion, None
<1>5. PICK u \in 1..cache["signing"].rv : \E w \in 1..u : SigningVersions(w, u) /\ WithinBudget(w)
  BY DEF RolloutInv
<1>6. PICK w \in 1..u : SigningVersions(w, u) /\ WithinBudget(w)
  BY <1>5
<1>7. SigningVersions(w, w)'
  BY <1>6 DEF SigningVersions, QuietStep, None
<1>8. WithinBudget(w)'
  BY <1>6 DEF WithinBudget, Observed, QuietStep, None
<1>9. w \in 1..cache'["signing"].rv /\ w \in 1..w
  <2>1. cache["signing"].rv \in Nat
    BY <1>a DEF RolloutTypes, AdminSecrets
  <2> QED
    BY SMT, <2>1 DEF QuietStep
<1> QED
  BY <1>1, <1>2, <1>3, <1>4, <1>7, <1>8, <1>9 DEF RolloutInv

\* telemetryMaterialRevisions takes the cached versions.
LEMMA DeriveKeeps == RolloutInv /\ deriveRevisions => RolloutInv'
<1> SUFFICES ASSUME RolloutInv, deriveRevisions, stage' = "revisions" PROVE RolloutInv'
  BY QuietActions, QuietStepKeeps
<1>a. RolloutTypes /\ CachesLag /\ PassRevisions /\ TemplateStamps
  BY DEF RolloutInv
<1>b. /\ stage = "checked" /\ RevisionsReadable /\ revs' = telemetryMaterialRevisions
      /\ UNCHANGED <<live, cache, sources, bundle, cbundle, template, byo, rolls, events>>
  BY DEF deriveRevisions, EndPass, objects
<1>c. cbundle.rv \in Nat /\ cbundle.rv # 0 /\ \A o \in AdminSecrets : cache[o].rv \in Nat /\ cache[o].rv # 0
  BY <1>a, <1>b DEF RolloutTypes, CachesLag
<1>d. \A o \in Numbered : revs'[o] = CachedVersion(o) /\ revs'[o] \in Nat /\ 1 <= revs'[o]
  BY SMT, <1>b, <1>c DEF telemetryMaterialRevisions, CachedVersion, Numbered, Materials, RevisionsReadable
<1>e. revs'["signing"] = SigningStamp(cache["signing"])
  BY <1>b DEF telemetryMaterialRevisions, SigningStamp, Materials, AdminSecrets
<1>1. RolloutTypes'
  <2>1. telemetryMaterialRevisions \in [Materials -> Nat]
    BY <1>c DEF telemetryMaterialRevisions, Materials
  <2> QED
    BY <1>a, <1>b, <2>1 DEF RolloutTypes
<1>2. CachesLag'
  BY <1>a, <1>b DEF CachesLag
<1>3. PassRevisions'
  BY SMT, <1>b, <1>d DEF PassRevisions, CachedVersion
<1>4. TemplateStamps'
  <2>1. \A c \in Components : \A o \in Stamps(c) \ {"signing"} : o \in Numbered
    BY StampsOfMaterials DEF Numbered
  <2> QED
    BY <1>a, <1>b, <1>d, <2>1 DEF TemplateStamps, CachedVersion, None
<1>5. PICK u \in 1..cache["signing"].rv : \E w \in 1..u : SigningVersions(w, u) /\ WithinBudget(w)
  BY DEF RolloutInv
<1>6. PICK w \in 1..u : SigningVersions(w, u) /\ WithinBudget(w)
  BY <1>5
<1> DEFINE n == cache["signing"].rv
<1>7. n \in Nat /\ n \in 1..n /\ w \in 1..n
  BY SMT, <1>c DEF AdminSecrets
<1>8. SigningVersions(w, n)'
  <2>1. SigningStamp(cache["signing"]) <= n
    BY SMT, <1>7 DEF SigningStamp
  <2> QED
    BY <1>b, <1>e, <1>6, <2>1 DEF SigningVersions, None, SigningStamp
<1>9. WithinBudget(w)'
  BY <1>b, <1>6 DEF WithinBudget, Observed, None
<1> QED
  BY <1>b, <1>1, <1>2, <1>3, <1>4, <1>7, <1>8, <1>9 DEF RolloutInv

\* ensureDeployments stamps the first n components.  A template that changes has
\* a stamp that changes, and hence takes in a version that it had not.
LEMMA DeploymentsKeep ==
  ASSUME RolloutInv, NEW n, ensureDeployments(n), events' \in 0..MaxEvents, events <= events'
  PROVE  RolloutInv'
<1>a. RolloutTypes /\ CachesLag /\ PassRevisions /\ TemplateStamps
  BY DEF RolloutInv
<1> DEFINE Done(c) == c \in {Builders[i] : i \in 1..n}
           new == [c \in Components |-> IF Done(c) THEN Stamped(c) ELSE template[c]]
<1>b. /\ stage = "revisions" /\ stage' = "idle" /\ revs' = None
      /\ UNCHANGED <<live, cache, sources, bundle, cbundle, byo>>
      /\ template' = new
      /\ rolls' = [c \in Components |-> IF new[c] # template[c] THEN rolls[c] + 1 ELSE rolls[c]]
  BY DEF ensureDeployments, EndPass, objects
<1>c. /\ revs \in [Materials -> Nat] /\ template \in [Components -> [Materials -> Nat]] /\ rolls \in [Components -> Nat]
      /\ None \in [Materials -> Nat] /\ \A o \in Materials : None[o] = 0
  BY <1>a DEF RolloutTypes, None
<1>d. \A c \in Components : Stamped(c) \in [Materials -> Nat]
  BY <1>c DEF Stamped
<1>e. \A c \in Components : template'[c] = IF Done(c) THEN Stamped(c) ELSE template[c]
  BY <1>b
<1>f. \A c \in Components : rolls'[c] = IF template'[c] # template[c] THEN rolls[c] + 1 ELSE rolls[c]
  BY <1>b
<1>g. template' \in [Components -> [Materials -> Nat]] /\ rolls' \in [Components -> Nat]
  BY SMT, <1>b, <1>c, <1>d
<1> HIDE DEF Done, new
<1>h. \A c \in Components : \A o \in Materials : Stamped(c)[o] = IF o \in Stamps(c) THEN revs[o] ELSE 0
  BY DEF Stamped
<1>i. \A c \in Components : \A o \in Stamps(c) \ {"signing"} :
        o \in Materials /\ 1 <= revs[o] /\ revs[o] <= CachedVersion(o) /\ revs[o] \in Nat
  BY <1>a, <1>b, <1>c, StampsOfMaterials DEF PassRevisions, Numbered
<1>1. RolloutTypes'
  <2>1. \A o \in AdminSecrets : live[o].rv <= events' + 1
    BY SMT, <1>a DEF RolloutTypes
  <2> QED
    BY <1>a, <1>b, <1>c, <1>g, <2>1 DEF RolloutTypes
<1>2. CachesLag' /\ PassRevisions'
  BY <1>a, <1>b DEF CachesLag, PassRevisions, None
<1>3. TemplateStamps'
  <2> SUFFICES ASSUME NEW c \in Components
               PROVE  /\ \A o \in Materials \ Stamps(c) : template'[c][o] = 0
                      /\ \A o \in Stamps(c) \ {"signing"} : /\ template'[c][o] <= CachedVersion(o)
                                                            /\ template'[c] # None => 1 <= template'[c][o]
    BY <1>b DEF TemplateStamps, CachedVersion, None
  <2>1. CASE Done(c)
    BY <1>e, <1>h, <1>i, <2>1
  <2>2. CASE ~Done(c)
    BY <1>a, <1>e, <2>2 DEF TemplateStamps
  <2> QED
    BY <2>1, <2>2
<1>4. PICK u \in 1..cache["signing"].rv : \E w \in 1..u : SigningVersions(w, u) /\ WithinBudget(w)
  BY DEF RolloutInv
<1>5. PICK w \in 1..u : SigningVersions(w, u) /\ WithinBudget(w)
  BY <1>4
<1> DEFINE v == IF Done("datastorage") THEN u ELSE w
<1>6. cache["signing"].rv \in Nat
  BY <1>a DEF RolloutTypes, AdminSecrets
<1>7. v \in 1..cache["signing"].rv /\ v \in 1..v /\ w <= v /\ v \in Nat /\ w \in Nat /\ 1 <= w
  BY SMT, <1>6
<1>8. \A c \in Components : "signing" \in Stamps(c) => c = "datastorage"
  BY DEF Stamps, stampTelemetryMaterialRevision, stampFleetMCPGatewayMaterialRevision,
         stampDataStorageSigningMaterialRevision, stampDataStorageDependencyRevision, stampMonitoringMaterialRevision
<1>9. SigningVersions(v, v)'
  <2> SUFFICES ASSUME NEW c \in Components, "signing" \in Stamps(c), template'[c] # None
               PROVE  /\ template'[c]["signing"] <= v
                      /\ v = cache["signing"].rv => template'[c]["signing"] = SigningStamp(cache["signing"])
    BY <1>b DEF SigningVersions, None, SigningStamp
  <2>1. "signing" \in Materials
    BY DEF Materials, AdminSecrets
  <2>2. CASE Done(c)
    BY <1>5, <1>b, <1>e, <1>h, <1>8, <2>1, <2>2 DEF SigningVersions
  <2>3. CASE ~Done(c)
    BY <1>5, <1>e, <1>8, <2>3 DEF SigningVersions
  <2> QED
    BY <2>2, <2>3
<1>10. WithinBudget(v)'
  <2> SUFFICES ASSUME NEW c \in Components
               PROVE  IF template'[c] = None THEN rolls'[c] = 0 ELSE rolls'[c] <= 1 + Total(Observed(c, v)')
    BY DEF WithinBudget, None
  <2> DEFINE f == Observed(c, w)
             g == Observed(c, v)'
  <2>1. \A o \in Materials : f[o] = IF o \notin Stamps(c) THEN 0
                                    ELSE IF o = "signing" THEN w - 1 ELSE template[c][o] - 1
    BY DEF Observed
  <2>2. \A o \in Materials : g[o] = IF o \notin Stamps(c) THEN 0
                                    ELSE IF o = "signing" THEN v - 1 ELSE template'[c][o] - 1
    BY DEF Observed
  <2>3. \A o \in Stamps(c) : o \in Materials
    BY StampsOfMaterials
  <2>4. template[c] \in [Materials -> Nat] /\ template'[c] \in [Materials -> Nat] /\ rolls[c] \in Nat
    BY <1>c, <1>g
  <2>5. template[c] # None => f \in [Materials -> Nat]
    <3>1. template[c] # None => \A o \in Materials : f[o] \in Nat
      BY SMT, <1>a, <1>7, <2>1, <2>3, <2>4 DEF TemplateStamps
    <3> QED
      BY <3>1 DEF Observed
  <2>6. template'[c] # None => g \in [Materials -> Nat]
    <3>1. template'[c] # None => \A o \in Materials : g[o] \in Nat
      BY SMT, <1>3, <1>7, <2>2, <2>3, <2>4 DEF TemplateStamps, None
    <3> QED
      BY <3>1 DEF Observed
  <2>7. "signing" \in Stamps(c) => c = "datastorage" /\ "ambient" \in Stamps(c)
    BY <1>8 DEF Stamps, stampTelemetryMaterialRevision
  <2>8. template[c] # None => template'[c] # None
    <3> SUFFICES ASSUME Done(c), template'[c] = None PROVE template[c] = None
      BY <1>e
    <3>1. Stamps(c) = {}
      BY SMT, <1>c, <1>e, <1>h, <1>i, <2>3, <2>7
    <3>2. \A o \in Materials : template[c][o] = None[o]
      BY <1>a, <1>c, <3>1 DEF TemplateStamps
    <3> QED
      BY SMT, <1>c, <2>4, <3>2
  <2>9. ASSUME template[c] # None
        PROVE  /\ \A o \in Materials : f[o] <= g[o]
               /\ template'[c] # template[c] => \E o \in Materials : f[o] # g[o]
    <3>1. CASE Done(c)
      <4>1. \A o \in Stamps(c) \ {"signing"} : template[c][o] <= revs[o]
        BY <1>a, <1>b DEF TemplateStamps
      <4>2. \A o \in Stamps(c) : template'[c][o] = revs[o]
        BY <1>e, <1>h, <2>3, <3>1
      <4>3. \A o \in Materials : f[o] <= g[o]
        BY SMT, <1>7, <1>i, <2>1, <2>2, <2>4, <4>1, <4>2
      <4>4. ASSUME template'[c] # template[c] PROVE \E o \in Materials : f[o] # g[o]
        <5>1. PICK o \in Materials : template'[c][o] # template[c][o]
          BY SMT, <2>4, <4>4
        <5>2. o \in Stamps(c)
          BY <1>a, <1>3, <5>1 DEF TemplateStamps
        <5>3. CASE o = "signing"
          <6>1. w # u /\ v = u
            BY <1>5, <1>b, <2>7, <2>9, <3>1, <4>2, <5>1, <5>2, <5>3 DEF SigningVersions
          <6> QED
            BY SMT, <1>7, <2>1, <2>2, <5>2, <5>3, <6>1
        <5>4. CASE o # "signing"
          BY SMT, <2>1, <2>2, <2>4, <5>1, <5>2, <5>4
        <5> QED
          BY <5>3, <5>4
      <4> QED
        BY <4>3, <4>4
    <3>2. CASE ~Done(c)
      <4>1. template'[c] = template[c] /\ ("signing" \in Stamps(c) => v = w)
        BY <1>e, <2>7, <3>2
      <4> QED
        BY SMT, <2>1, <2>2, <2>5, <2>9, <4>1
    <3> QED
      BY <3>1, <3>2
  <2>10. CASE template'[c] = None
    BY <1>5, <1>f, <2>8, <2>10 DEF WithinBudget
  <2>11. CASE template'[c] # None /\ template[c] = None
    <3>1. rolls'[c] = 1
      BY SMT, <1>5, <1>f, <2>11 DEF WithinBudget
    <3>2. Total(g) \in Nat
      BY SMT, <2>6, <2>11, TotalGrows
    <3> QED
      BY SMT, <2>11, <3>1, <3>2
  <2>12. CASE template'[c] # None /\ template[c] # None
    <3>1. rolls[c] <= 1 + Total(f)
      BY <1>5, <2>12 DEF WithinBudget
    <3>2. f \in [Materials -> Nat] /\ g \in [Materials -> Nat]
      BY <2>5, <2>6, <2>12
    <3> HIDE DEF f, g
    <3>3. /\ Total(f) \in Nat /\ Total(g) \in Nat /\ Total(f) <= Total(g)
          /\ template'[c] # template[c] => Total(f) + 1 <= Total(g)
      BY SMT, <2>9, <2>12, <3>2, TotalGrows
    <3>4. rolls'[c] <= 1 + Total(g)
      BY SMT, <1>f, <2>4, <3>1, <3>3
    <3> QED
      BY <2>12, <3>4 DEF g
  <2> QED
    BY <2>10, <2>11, <2>12
<1> QED
  BY <1>1, <1>2, <1>3, <1>7, <1>9, <1>10, <1>b DEF RolloutInv

\* What the environment does to versions: they grow, in the cache too.
CachesAdvance ==
  /\ RolloutTypes' /\ CachesLag'
  /\ cbundle.rv <= cbundle'.rv /\ cbundle'.rv \in Nat
  /\ \A o \in AdminSecrets : /\ cache[o].rv <= cache'[o].rv /\ cache'[o].rv \in Nat
                             /\ cache'[o] # cache[o] => cache[o].rv < cache'[o].rv

\* Changes and deliveries keep the invariant.
LEMMA EnvironmentKeeps ==
  ASSUME RolloutInv,
         \/ Deliver \/ ChangeSources
         \/ \E o \in Changing, state \in {"valid", "invalid", "missing"} : ChangeSecret(o, state)
  PROVE  RolloutInv'
<1>a. RolloutTypes /\ CachesLag /\ PassRevisions /\ TemplateStamps
  BY DEF RolloutInv
<1>b. UNCHANGED <<stage, revs, template, byo, rolls>>
  BY DEF Deliver, ChangeSources, ChangeSecret, pass
<1>c. /\ \A o \in AdminSecrets : /\ live[o].rv \in Nat \ {0} /\ cache[o].rv \in Nat \ {0}
                                 /\ live[o] \in [rv : Nat \ {0}, state : {"valid", "invalid", "missing"}]
      /\ bundle.rv \in Nat /\ cbundle.rv \in Nat /\ events \in Nat /\ MaxEvents \in Nat
  BY SMT, <1>a, MaterialRolloutAssumption DEF RolloutTypes
<1>1. CachesAdvance
  <2>1. ASSUME NEW o \in AdminSecrets, cache[o] # live[o], cache' = [cache EXCEPT ![o] = live[o]],
               UNCHANGED <<live, sources, bundle, cbundle, events>>
        PROVE  CachesAdvance
    <3>1. \A p \in AdminSecrets : cache'[p] = IF p = o THEN live[o] ELSE cache[p]
      BY <1>a, <2>1 DEF RolloutTypes
    <3>2. RolloutTypes'
      BY <1>a, <1>b, <1>c, <2>1 DEF RolloutTypes
    <3>3. CachesLag'
      BY SMT, <1>a, <1>b, <1>c, <2>1, <3>1 DEF CachesLag
    <3>4. cache[o].rv < live[o].rv
      BY SMT, <1>a, <1>c, <2>1 DEF CachesLag
    <3> QED
      BY SMT, <1>c, <2>1, <3>1, <3>2, <3>3, <3>4 DEF CachesAdvance
  <2>2. CASE cbundle' = bundle /\ UNCHANGED <<live, cache, sources, bundle, events>>
    <3>1. RolloutTypes'
      BY <1>a, <1>b, <2>2 DEF RolloutTypes
    <3>2. CachesLag'
      BY SMT, <1>a, <1>b, <1>c, <2>2 DEF CachesLag
    <3> QED
      BY SMT, <1>a, <1>c, <2>2, <3>1, <3>2 DEF CachesLag, CachesAdvance
  <2>3. CASE ChangeSources
    <3>1. events' \in 0..MaxEvents /\ events <= events'
      BY SMT, <1>a, <1>c, <2>3, EventBound DEF ChangeSources, RolloutTypes
    <3>2. \A o \in AdminSecrets : live[o].rv <= events' + 1
      BY SMT, <1>a, <1>c, <3>1 DEF RolloutTypes
    <3>3. sources' \subseteq {"service", "router"}
      BY <1>a, <2>3 DEF ChangeSources, RolloutTypes
    <3>4. UNCHANGED <<live, cache, bundle, cbundle>>
      BY <2>3 DEF ChangeSources
    <3>5. RolloutTypes'
      BY <1>a, <1>b, <3>1, <3>2, <3>3, <3>4 DEF RolloutTypes
    <3>6. CachesLag'
      BY <1>a, <1>b, <3>4 DEF CachesLag
    <3> QED
      BY SMT, <1>c, <3>4, <3>5, <3>6 DEF CachesAdvance
  <2>4. ASSUME NEW o \in Changing, NEW state \in {"valid", "invalid", "missing"}, ChangeSecret(o, state)
        PROVE  CachesAdvance
    <3>1. o \in AdminSecrets
      BY MaterialRolloutAssumption
    <3>2. /\ events' = events + 1 /\ events' \in 0..MaxEvents
          /\ UNCHANGED <<cache, sources, bundle, cbundle>>
      BY SMT, <1>c, <2>4 DEF ChangeSecret, Event
    <3>3. \A p \in AdminSecrets : live'[p] = IF p = o THEN [rv |-> live[o].rv + 1, state |-> state] ELSE live[p]
      BY <1>a, <2>4 DEF ChangeSecret, RolloutTypes
    <3>4. live' \in [AdminSecrets -> [rv : Nat \ {0}, state : {"valid", "invalid", "missing"}]]
      <4>1. [rv |-> live[o].rv + 1, state |-> state] \in [rv : Nat \ {0}, state : {"valid", "invalid", "missing"}]
        BY SMT, <1>c, <3>1
      <4> QED
        BY <1>a, <2>4, <4>1 DEF ChangeSecret, RolloutTypes
    <3>5. live'[o].rv = live[o].rv + 1
      BY SMT, <3>1, <3>3
    <3>6. \A p \in AdminSecrets : live'[p].rv <= events' + 1 /\ (p # o => live'[p] = live[p])
      BY SMT, <1>a, <1>c, <3>1, <3>2, <3>3, <3>5 DEF RolloutTypes
    <3>7. RolloutTypes'
      BY <1>a, <1>b, <3>2, <3>4, <3>6 DEF RolloutTypes
    <3>8. CachesLag'
      BY SMT, <1>a, <1>b, <1>c, <3>1, <3>2, <3>5, <3>6 DEF CachesLag
    <3> QED
      BY SMT, <1>c, <3>2, <3>7, <3>8 DEF CachesAdvance
  <2> QED
    BY <2>1, <2>2, <2>3, <2>4 DEF Deliver
<1>2. \A o \in Materials : /\ CachedVersion(o) \in Nat /\ CachedVersion(o)' \in Nat
                           /\ CachedVersion(o) <= CachedVersion(o)'
  BY <1>c, <1>1 DEF CachedVersion, Materials, CachesAdvance
<1>3. PassRevisions'
  BY SMT, <1>a, <1>b, <1>2 DEF PassRevisions, Numbered, None, RolloutTypes
<1>4. TemplateStamps'
  <2>1. \A c \in Components : \A o \in Stamps(c) : o \in Materials /\ template[c][o] \in Nat
    BY SMT, <1>a, StampsOfMaterials DEF RolloutTypes
  <2> QED
    BY SMT, <1>a, <1>b, <1>2, <2>1 DEF TemplateStamps, None
<1>5. PICK u \in 1..cache["signing"].rv : \E w \in 1..u : SigningVersions(w, u) /\ WithinBudget(w)
  BY DEF RolloutInv
<1>6. PICK w \in 1..u : SigningVersions(w, u) /\ WithinBudget(w)
  BY <1>5
<1>7. "signing" \in AdminSecrets
  BY DEF AdminSecrets
<1>8. u \in 1..cache'["signing"].rv
  BY SMT, <1>c, <1>1, <1>7 DEF CachesAdvance
<1>9. SigningVersions(w, u)'
  <2>1. CASE cache'["signing"] = cache["signing"]
    BY <1>b, <1>6, <2>1 DEF SigningVersions, SigningStamp, None
  <2>2. CASE cache'["signing"] # cache["signing"]
    <3>1. u # cache'["signing"].rv /\ w # cache'["signing"].rv
      BY SMT, <1>c, <1>1, <1>7, <2>2 DEF CachesAdvance
    <3> QED
      BY <1>b, <1>6, <3>1 DEF SigningVersions, SigningStamp, None
  <2> QED
    BY <2>1, <2>2
<1>10. WithinBudget(w)'
  BY <1>b, <1>6 DEF WithinBudget, Observed, None
<1> QED
  BY <1>1, <1>3, <1>4, <1>8, <1>9, <1>10 DEF RolloutInv, CachesAdvance

\* The invariant holds of every reachable state.
LEMMA RolloutInvHolds == SpecRollout => []RolloutInv
<1>1. RolloutInv /\ [NextRollout]_rolloutVars => RolloutInv'
  <2> SUFFICES ASSUME RolloutInv, [NextRollout]_rolloutVars PROVE RolloutInv'
    OBVIOUS
  <2>1. CASE UNCHANGED rolloutVars
    <3>a. UNCHANGED <<live, cache, sources, bundle, cbundle, stage, revs, template, byo, rolls, events>>
      BY <2>1 DEF rolloutVars, objects, pass
    <3>1. RolloutTypes' /\ CachesLag' /\ PassRevisions' /\ TemplateStamps'
      BY <3>a DEF RolloutInv, RolloutTypes, CachesLag, PassRevisions, TemplateStamps, CachedVersion, None
    <3>2. \A w, u : (SigningVersions(w, u) => SigningVersions(w, u)') /\ (WithinBudget(w) => WithinBudget(w)')
      BY <3>a DEF SigningVersions, WithinBudget, Observed, SigningStamp, None
    <3> QED
      BY <3>a, <3>1, <3>2 DEF RolloutInv
  <2>2. ASSUME NEW read \in SUBSET sources, phaseValidate(read) \/ deployConfigMaps(read) PROVE RolloutInv'
    BY <2>2, QuietActions, QuietStepKeeps
  <2>3. CASE DatabaseMissing \/ BundleConflict
    BY <2>3, QuietActions, QuietStepKeeps
  <2>4. CASE deriveRevisions
    BY <2>4, DeriveKeeps
  <2>5. CASE deployWorkloads
    <3>1. events' \in 0..MaxEvents /\ events <= events'
      BY SMT, <2>5 DEF deployWorkloads, RolloutInv, RolloutTypes
    <3> QED
      BY <2>5, <3>1, DeploymentsKeep DEF deployWorkloads
  <2>6. CASE Abort
    <3>1. RolloutTypes
      BY DEF RolloutInv
    <3> QED
      BY <2>6, <3>1, EventBound, DeploymentsKeep, QuietActions, QuietStepKeeps DEF Abort
  <2> QED
    BY <2>1, <2>2, <2>3, <2>4, <2>5, <2>6, EnvironmentKeeps DEF NextRollout, Reconcile
<1> QED
  BY InitRolloutInv, <1>1, PTL DEF SpecRollout

\* No cache and no stamp ever runs ahead of the cluster, and revisions live in a
\* pass only.
THEOREM RolloutTypeCorrect == SpecRollout => []TypeOKRollout
<1>1. RolloutInv => TypeOKRollout
  <2> SUFFICES ASSUME RolloutInv PROVE TypeOKRollout
    OBVIOUS
  <2>a. RolloutTypes /\ CachesLag /\ PassRevisions /\ TemplateStamps
    BY DEF RolloutInv
  <2>b. /\ \A o \in AdminSecrets : live[o].rv \in Nat \ {0} /\ cache[o].rv \in Nat \ {0}
        /\ bundle.rv \in Nat /\ cbundle.rv \in Nat /\ events \in 0..MaxEvents /\ MaxEvents \in Nat
    BY <2>a, MaterialRolloutAssumption DEF RolloutTypes
  <2>1. live \in [AdminSecrets -> [rv : 1..(MaxEvents + 1), state : {"valid", "invalid", "missing"}]]
    <3>1. \A o \in AdminSecrets : live[o].rv \in 1..(MaxEvents + 1)
      BY SMT, <2>a, <2>b DEF RolloutTypes
    <3>2. live = [o \in AdminSecrets |-> live[o]]
          /\ \A o \in AdminSecrets : live[o] \in [rv : Nat \ {0}, state : {"valid", "invalid", "missing"}]
      BY <2>a DEF RolloutTypes
    <3>3. \A o \in AdminSecrets : live[o] \in [rv : 1..(MaxEvents + 1), state : {"valid", "invalid", "missing"}]
      BY <3>1, <3>2
    <3> QED
      BY <3>2, <3>3
  <2>2. (revs # None) = (stage = "revisions")
    <3>1. CASE stage = "revisions"
      <4>1. "ambient" \in Numbered /\ None["ambient"] = 0
        BY DEF Numbered, Materials, AdminSecrets, None
      <4>2. 1 <= revs["ambient"]
        BY <2>a, <3>1, <4>1 DEF PassRevisions
      <4> QED
        BY SMT, <3>1, <4>1, <4>2
    <3>2. CASE stage # "revisions"
      BY <2>a, <3>2 DEF PassRevisions
    <3> QED
      BY <3>1, <3>2
  <2>3. ASSUME NEW c \in Components, NEW o \in Stamps(c) PROVE template[c][o] <= Version(o)
    <3>1. o \in Materials /\ template[c][o] \in Nat
      BY SMT, <2>a, StampsOfMaterials DEF RolloutTypes
    <3>2. CASE o = "signing"
      <4>1. PICK u \in 1..cache["signing"].rv : \E w \in 1..u : SigningVersions(w, u) /\ WithinBudget(w)
        BY DEF RolloutInv
      <4>2. PICK w \in 1..u : SigningVersions(w, u)
        BY <4>1
      <4>3. "signing" \in AdminSecrets /\ "signing" # "ambient"
        BY DEF AdminSecrets
      <4>4. w <= live["signing"].rv /\ w \in Nat
        BY SMT, <2>a, <2>b, <4>3 DEF CachesLag
      <4>5. template[c]["signing"] <= w
        <5>1. CASE template[c] = None
          BY SMT, <3>1, <3>2, <4>4, <5>1 DEF None
        <5>2. CASE template[c] # None
          BY <3>2, <4>2, <5>2 DEF SigningVersions
        <5> QED
          BY <5>1, <5>2
      <4> QED
        BY SMT, <2>b, <3>1, <3>2, <4>3, <4>4, <4>5 DEF Version
    <3>3. CASE o # "signing"
      <4>1. template[c][o] <= CachedVersion(o)
        BY <2>a, <3>3 DEF TemplateStamps
      <4> QED
        BY SMT, <2>a, <2>b, <3>1, <4>1 DEF CachesLag, CachedVersion, Version, Materials
    <3> QED
      BY <3>2, <3>3
  <2> QED
    BY <2>a, <2>1, <2>2, <2>3 DEF TypeOKRollout, RolloutTypes, CachesLag
<1> QED
  BY RolloutInvHolds, <1>1, PTL

\* For every set of components and changing Secrets and every number of faults:
\* a pod template changes at most once, after its creation, for each change of
\* something that its component consumes (telemetryMaterialRevisions).
THEOREM RolloutNoChurn == SpecRollout => []NoChurn
<1>1. RolloutInv => NoChurn
  <2> SUFFICES ASSUME RolloutInv, NEW c \in Components
               PROVE  rolls[c] <= 1 + Total([o \in Materials |-> Changes(c, o)])
    BY DEF NoChurn
  <2>a. RolloutTypes /\ CachesLag /\ TemplateStamps
    BY DEF RolloutInv
  <2>b. /\ \A o \in AdminSecrets : live[o].rv \in Nat \ {0} /\ cache[o].rv \in Nat \ {0}
        /\ bundle.rv \in Nat /\ cbundle.rv \in Nat
        /\ template[c] \in [Materials -> Nat] /\ rolls[c] \in Nat
    BY <2>a DEF RolloutTypes
  <2>c. PICK u \in 1..cache["signing"].rv : \E w \in 1..u : SigningVersions(w, u) /\ WithinBudget(w)
    BY DEF RolloutInv
  <2>d. PICK w \in 1..u : WithinBudget(w)
    BY <2>c
  <2> DEFINE f == Observed(c, w)
             g == [o \in Materials |-> Changes(c, o)]
  <2>1. \A o \in Materials : CachedVersion(o) \in Nat /\ Version(o) \in Nat /\ CachedVersion(o) <= Version(o)
    BY <2>a, <2>b DEF CachesLag, CachedVersion, Version, Materials
  <2>2. g \in [Materials -> Nat]
    BY SMT, <2>1 DEF Changes
  <2>3. "signing" \in Materials /\ w \in Nat /\ 1 <= w /\ w <= CachedVersion("signing")
    BY SMT, <2>b DEF Materials, AdminSecrets, CachedVersion
  <2>4. CASE template[c] = None
    <3>1. rolls[c] = 0
      BY <2>d, <2>4 DEF WithinBudget
    <3>2. Total(g) \in Nat
      <4> HIDE DEF g
      <4> QED
        BY SMT, <2>2, TotalGrows
    <3> QED
      BY SMT, <3>1, <3>2
  <2>5. CASE template[c] # None
    <3>1. rolls[c] <= 1 + Total(f)
      BY <2>d, <2>5 DEF WithinBudget
    <3>2. ASSUME NEW o \in Materials PROVE f[o] \in Nat /\ f[o] <= g[o]
      <4>1. CASE o \notin Stamps(c)
        BY SMT, <2>2, <4>1 DEF Observed
      <4>2. CASE o \in Stamps(c)
        <5>1. o \in Consumes(c)
          BY <4>2, StampsOfMaterials
        <5>2. CASE o = "signing"
          BY SMT, <2>1, <2>3, <4>2, <5>1, <5>2 DEF Observed, Changes
        <5>3. CASE o # "signing"
          <6>1. template[c][o] <= CachedVersion(o) /\ 1 <= template[c][o] /\ template[c][o] \in Nat
            BY <2>a, <2>b, <2>5, <4>2, <5>3 DEF TemplateStamps
          <6> QED
            BY SMT, <2>1, <4>2, <5>1, <5>3, <6>1 DEF Observed, Changes
        <5> QED
          BY <5>2, <5>3
      <4> QED
        BY <4>1, <4>2
    <3>3. f \in [Materials -> Nat]
      BY <3>2 DEF Observed
    <3>4. Total(f) \in Nat /\ Total(g) \in Nat /\ Total(f) <= Total(g)
      <4> HIDE DEF f, g
      <4> QED
        BY SMT, <2>2, <3>2, <3>3, TotalGrows
    <3> QED
      BY SMT, <2>b, <3>1, <3>4
  <2> QED
    BY <2>4, <2>5
<1> QED
  BY RolloutInvHolds, <1>1, PTL

=============================================================================
