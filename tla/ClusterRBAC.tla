----------------------------- MODULE ClusterRBAC -----------------------------
(***************************************************************************)
(* Objects that no owner reference can tie to the CR: cluster-scoped RBAC, *)
(* tool bindings, RBAC of the workflow namespace.  deployRBAC creates and  *)
(* prunes them, the finalizer (runFinalizerCleanup) removes them.  How an  *)
(* object is found again once the CR no longer asks for it depends on its  *)
(* class: by a label, by a fixed name, through status.boundToolRoleBindings*)
(* or through the name the current spec gives it.                          *)
(*                                                                         *)
(* Abstractions: ensuring or deleting one object is one step, which may    *)
(* fail (ResourceEngine has the calls in it).  Core stands for the three   *)
(* families pruned by label: core, MCP Gateway and additional RBAC.  Roles *)
(* that are always wanted and have fixed names are left out.  The CR       *)
(* carries the finalizer from the start (Singleton adds it).               *)
(***************************************************************************)
EXTENDS Integers, FiniteSets

CONSTANTS
    Core,           \* found by label, listed through the cache
    Ansible,        \* found by name: the AWX role and binding
    Console,        \* found by name: the console-access binding
    Tool,           \* tool ClusterRoleBindings, found through the status
    Workflows,      \* RBAC of a workflow namespace, one name per namespace
    Prompt,         \* those of Core of a kind whose cache keeps up with the writes
    MaxEdits, MaxFailures, MaxCrashes,
    Created         \* what a CR may ask for when it is created

ASSUME ConstantAssumption ==
    /\ Prompt \subseteq Core
    /\ MaxEdits \in Nat /\ MaxFailures \in Nat /\ MaxCrashes \in Nat
    /\ Created \subseteq SUBSET (Core \cup Ansible \cup Console \cup Tool)
    /\ Tool \cap (Core \cup Ansible \cup Console) = {}
    /\ Workflows \cap (Core \cup Ansible \cup Console \cup Tool) = {}

VARIABLES
    cr,             \* the live CR
    crCache, crCacheRV,
    objs,           \* the objects that exist
    listed,         \* what the lagging List caches show
    pc, todo,       \* stage of the reconcile, objects it has still to process
    kn, knRV,       \* the CR it works with
    failed,         \* did a delete of this stage fail?
    edits, failures, crashes

vars == <<cr, crCache, crCacheRV, objs, listed, pc, todo, kn, knRV, failed,
          edits, failures, crashes>>

Fixed == Ansible \cup Console
Names == Core \cup Fixed \cup Tool
CRs == [state : {"live", "terminating", "gone"}, want : SUBSET Names,
        wf : Workflows, bound : SUBSET Tool]

Stages == {"core", "prune", "status", "workflow", "toggle", "tool", "toolPrune",
           "toolStatus", "console"}

--------------------------------------------------------------------------
(* What each stage processes, in the order of deployRBAC.                  *)

After(s) == CASE s = "core"      -> "prune"
              [] s = "prune"     -> "status"
              [] s = "status"    -> "workflow"
              [] s = "workflow"  -> "toggle"
              [] s = "toggle"    -> "tool"
              [] s = "tool"      -> "toolPrune"
              [] s = "toolPrune" -> "toolStatus"
              [] s = "toolStatus" -> "console"

deployCoreRBAC(c) == c.want \cap Core
deployWorkflowRBAC(c) == {c.wf}
deployToolRBAC(c) == c.want \cap Tool
staleToolBindings(c) == c.bound \ c.want

\* Mutant: the prune looks at the status instead of the label.
PruneByStatus(c, list) == (c.bound \cap list) \ c.want

\* pruneOrphaned...: labelled objects that are not desired
pruneUndesired(c, list) == list \ c.want

\* The label prunes with nothing desired, fixed names, the tool bindings of the
\* status, the workflow RBAC of the current spec
deleteClusterScopedResources(c, list) == list \cup Fixed \cup c.bound \cup {c.wf}

\* deployToggleRBAC and deployConsoleAccessRBAC create or delete fixed names.
Work(s, c, list) ==
    CASE s = "core"      -> deployCoreRBAC(c)
      [] s = "prune"     -> pruneUndesired(c, list)
      [] s = "workflow"  -> deployWorkflowRBAC(c)
      [] s = "toggle"    -> Ansible
      [] s = "tool"      -> deployToolRBAC(c)
      [] s = "toolPrune" -> staleToolBindings(c)
      [] s = "console"   -> Console
      [] s = "cleanup"   -> deleteClusterScopedResources(c, list)
      [] OTHER           -> {}

Creates(s, n, c) ==
    \/ s \in {"core", "workflow", "tool"}
    \/ s \in {"toggle", "console"} /\ n \in c.want

\* The caches behind List, one per kind
Lagging == Core \ Prompt
List(o) == (o \cap Prompt) \cup listed

Enter(s, c) == /\ pc' = s
               /\ todo' = Work(s, c, List(objs))
               /\ failed' = FALSE

--------------------------------------------------------------------------
(* The reconciler.                                                         *)

Return == /\ pc' = "idle"
          /\ todo' = {}
          /\ failed' = FALSE
          /\ kn' = [state |-> "gone", want |-> {}, wf |-> cr.wf, bound |-> {}]
          /\ knRV' = "stale"

\* Reconcile reads the CR from the cache; deletion is decided on that, whereas
\* authorizeSingleton reads the live object before anything is deployed.
Begin ==
    /\ pc = "idle" /\ crCache.state # "gone"
    /\ crCache.state = "live" => cr.state = "live"
    /\ kn' = crCache /\ knRV' = crCacheRV
    /\ Enter(IF crCache.state = "terminating" THEN "cleanup" ELSE "core", crCache)
    /\ UNCHANGED <<cr, crCache, crCacheRV, objs, listed, edits, failures, crashes>>

\* Mutant: an object that is not there counts as a failed delete.
ProcessStrict ==
    /\ \E n \in todo :
          /\ objs' = IF Creates(pc, n, kn) THEN objs \cup {n} ELSE objs \ {n}
          /\ todo' = todo \ {n}
          /\ failed' = (failed \/ (~Creates(pc, n, kn) /\ n \notin objs))
    /\ UNCHANGED <<cr, crCache, crCacheRV, listed, pc, kn, knRV,
                   edits, failures, crashes>>

\* ensureUnowned or deleteIfExists of one object
Process ==
    /\ \E n \in todo :
          /\ objs' = IF Creates(pc, n, kn) THEN objs \cup {n} ELSE objs \ {n}
          /\ todo' = todo \ {n}
    /\ UNCHANGED <<cr, crCache, crCacheRV, listed, pc, kn, knRV, failed,
                   edits, failures, crashes>>

\* A failed call: the label prunes, the removal of Ansible RBAC and the finalizer
\* carry on with the other objects and report at the end; the rest returns.
Fail ==
    /\ failures < MaxFailures
    /\ failures' = failures + 1
    /\ \E n \in todo :
          IF pc \in {"prune", "cleanup"} \/ (pc = "toggle" /\ n \notin kn.want)
          THEN todo' = todo \ {n} /\ failed' = TRUE /\ UNCHANGED <<pc, kn, knRV>>
          ELSE Return
    /\ UNCHANGED <<cr, crCache, crCacheRV, objs, listed, edits, crashes>>

Advance ==
    /\ pc \in Stages \ {"status", "toolStatus"} /\ todo = {}
    /\ IF failed \/ pc = "console" THEN Return
       ELSE Enter(After(pc), kn) /\ UNCHANGED <<kn, knRV>>
    /\ UNCHANGED <<cr, crCache, crCacheRV, objs, listed, edits, failures, crashes>>

\* Mutant: bindings that are new do not get into the status.
PatchKnown(b) == cr' = [cr EXCEPT !.bound = @ \cap b]

\* The merge patch of deployToolRBAC
PatchBound(b) == cr' = [cr EXCEPT !.bound = b]

\* A status patch answers with the live CR, and the reconcile goes on with it.
PatchStatus ==
    /\ pc \in {"status", "toolStatus"} /\ cr.state # "gone"
    /\ IF pc = "toolStatus" THEN PatchBound(kn.want \cap Tool) ELSE UNCHANGED cr
    /\ crCacheRV' = IF cr' = cr THEN crCacheRV ELSE "stale"
    /\ kn' = cr' /\ knRV' = "current"
    /\ Enter(After(pc), cr')
    /\ UNCHANGED <<crCache, objs, listed, edits, failures, crashes>>

FailPatch ==
    /\ pc \in {"status", "toolStatus"}
    /\ failures < MaxFailures \/ cr.state = "gone"
    /\ failures' = IF cr.state = "gone" THEN failures ELSE failures + 1
    /\ Return
    /\ UNCHANGED <<cr, crCache, crCacheRV, objs, listed, edits, crashes>>

\* Mutant: the finalizer is removed although a delete failed.
RemoveAnyway ==
    /\ pc = "cleanup" /\ todo = {}
    /\ IF knRV = "current" /\ cr.state = "terminating"
       THEN cr' = [cr EXCEPT !.state = "gone"] /\ crCacheRV' = "stale"
       ELSE UNCHANGED <<cr, crCacheRV>>
    /\ Return
    /\ UNCHANGED <<crCache, objs, listed, edits, failures, crashes>>

\* RemoveFinalizer and Update, with the resourceVersion of the CR that was read
RemoveFinalizer ==
    /\ pc = "cleanup" /\ todo = {}
    /\ IF ~failed /\ knRV = "current" /\ cr.state = "terminating"
       THEN cr' = [cr EXCEPT !.state = "gone"] /\ crCacheRV' = "stale"
       ELSE UNCHANGED <<cr, crCacheRV>>
    /\ Return
    /\ UNCHANGED <<crCache, objs, listed, edits, failures, crashes>>

Reconciler == Begin \/ Process \/ Fail \/ Advance \/ PatchStatus \/ FailPatch
              \/ RemoveFinalizer

--------------------------------------------------------------------------
(* The environment.                                                        *)

CRWrite(c) == /\ cr' = c
              /\ crCacheRV' = "stale" /\ knRV' = "stale"
              /\ UNCHANGED <<crCache, objs, listed, pc, todo, kn, failed, failures, crashes>>

EditCR ==
    /\ edits < MaxEdits /\ cr.state = "live"
    /\ edits' = edits + 1
    /\ \E w \in SUBSET Names, f \in Workflows :
          <<w, f>> # <<cr.want, cr.wf>> /\ CRWrite([cr EXCEPT !.want = w, !.wf = f])

DeleteCR ==
    /\ cr.state = "live"
    /\ CRWrite([cr EXCEPT !.state = "terminating"])
    /\ UNCHANGED edits

SyncCR ==
    /\ crCacheRV = "stale"
    /\ crCache' = cr /\ crCacheRV' = "current"
    /\ UNCHANGED <<cr, objs, listed, pc, todo, kn, knRV, failed, edits, failures, crashes>>

SyncList ==
    /\ listed # objs \cap Lagging
    /\ listed' = objs \cap Lagging
    /\ UNCHANGED <<cr, crCache, crCacheRV, objs, pc, todo, kn, knRV, failed,
                   edits, failures, crashes>>

Restart ==
    /\ crashes < MaxCrashes
    /\ crashes' = crashes + 1
    /\ Return
    /\ crCache' = cr /\ crCacheRV' = "current"
    /\ listed' = objs \cap Lagging
    /\ UNCHANGED <<cr, objs, edits, failures>>

Next == Reconciler \/ EditCR \/ DeleteCR \/ SyncCR \/ SyncList \/ Restart

Init ==
    /\ \E w \in Created, f \in Workflows :
          cr = [state |-> "live", want |-> w, wf |-> f, bound |-> {}]
    /\ crCache = cr /\ crCacheRV = "current"
    /\ objs = {} /\ listed = {}
    /\ pc = "idle" /\ todo = {} /\ failed = FALSE
    /\ kn = [state |-> "gone", want |-> {}, wf |-> cr.wf, bound |-> {}]
    /\ knRV = "stale"
    /\ edits = 0 /\ failures = 0 /\ crashes = 0

Spec == Init /\ [][Next]_vars

\* The requeue timer and the retry of failed reconciles; informers catch up.
FairSpec == Spec /\ WF_vars(Reconciler) /\ WF_vars(SyncCR) /\ WF_vars(SyncList)

--------------------------------------------------------------------------
(* Properties.                                                             *)

\* Type invariant of the RBAC reconciler.
TypeOK ==
    /\ cr \in CRs /\ crCache \in CRs /\ crCacheRV \in {"current", "stale"}
    /\ objs \subseteq Names \cup Workflows /\ listed \subseteq Lagging
    /\ pc \in Stages \cup {"idle", "cleanup"} /\ todo \subseteq Names \cup Workflows
    /\ kn \in CRs /\ knRV \in {"current", "stale"} /\ failed \in BOOLEAN
    /\ edits \in 0 .. MaxEdits /\ failures \in 0 .. MaxFailures
    /\ crashes \in 0 .. MaxCrashes

Gone == cr.state = "gone"

\* When the finalizer lets the CR go, no object of a fixed name is left and none
\* the prune finds by label (pruneOrphanedCoreClusterRBAC with nothing desired),
\* provided the cache the List reads has kept up.
NothingLabelledLeft == Gone => objs \cap (Prompt \cup Fixed) = {}

\* Tool bindings are forgotten only by a reconcile that did not get to the
\* status patch of deployToolRBAC: at rest, and unless a call failed or the
\* operator crashed, the status names every tool binding there is.
BindingsOnRecord ==
    pc = "idle" /\ failures = 0 /\ crashes = 0 /\ ~Gone
        => objs \cap Tool \subseteq cr.bound

\* A CR that is left alone gets the labelled and fixed objects it asks for and no
\* other (toggling a feature off prunes its RBAC), and its workflow RBAC.
EventuallyExact ==
    <>[](cr.state = "live" => /\ objs \cap (Core \cup Fixed) = cr.want \ Tool
                              /\ cr.wf \in objs)

\* A CR under deletion goes, failed deletes and stale copies notwithstanding
\* (reconcileDelete retries until the finalizer is off).
EventuallyGone == (cr.state = "terminating") ~> Gone
=============================================================================
