--------------------------- MODULE ResourceEngine ---------------------------
(***************************************************************************)
(* How the operator creates, updates and deletes one object of the cluster *)
(* (ensureResourceChanged, createIfNotFound, ensureNetworkPolicy,          *)
(* deleteIfExists, pruneNetworkPolicies; deployWorkflowNamespace and       *)
(* ensureSharedCRD for the two kinds that outlive every CR), and the       *)
(* ownership contract that every write has to respect.                     *)
(*                                                                         *)
(* Somebody else may write the object between any two API calls of the     *)
(* operator, and ordinary reads come from a cache that lags.  The contract *)
(* is checked on what was read; optimistic concurrency has to carry the    *)
(* verdict over to the moment of the write.                                *)
(*                                                                         *)
(* Abstractions: the operations work on one object at a time, so there is  *)
(* one object, of any kind.  A resourceVersion is only ever compared with  *)
(* that of the live object: "current" is the version of the live object,   *)
(* "stale" any earlier one.  Content and hash are the number of the spec   *)
(* they were rendered from; 0 is content the operator never rendered.  The *)
(* spec of a CRD is the operator's release.                                *)
(***************************************************************************)
EXTENDS Integers

CONSTANTS
    Written,     \* the metadata that others put on the object
    MaxSpec,     \* specs the CR goes through are 1..MaxSpec; 0: object not wanted
    MaxWrites,   \* bound on writes by others and on edits of the CR
    MaxRestarts,
    MaxEvents    \* bound on all of these together

VARIABLES
    kind,               \* of the object
    want,               \* what the CR asks for
    live,               \* the object in the API server
    cache, cacheRV,     \* the manager cache's copy
    op, target,         \* the operation in progress and what it renders
    existing,           \* the object it has read, and its version
    existingRV,
    writes, restarts

engineVars ==
    <<kind, want, live, cache, cacheRV, op, target, existing, existingRV, writes, restarts>>

\* ConfigMaps and Services; the migration Job; NetworkPolicies; other objects
\* in the CR's namespace; cluster-scoped and cross-namespace objects; the
\* workflow Namespace; the shared CRDs.
Kinds    == {"config", "job", "policy", "namespaced", "unowned", "wfns", "crd"}
Retained == {"wfns", "crd"}
Versions == {"current", "stale"}
Targets  == 0 .. MaxSpec

\* labels: managed-by, part-of and instance (a policy's: its four labels; a
\* CRD's: managed-by);
\* ns, uid: the provenance annotations; ref: the owner references.
Metas == [labels : {"none", "partial", "complete", "conflict"},
          ns     : {"none", "ours", "other"},
          uid    : {"none", "current", "old"},
          ref    : {"none", "current", "old", "foreign"},
          life   : {"live", "terminating"}]
Objects == [present : {"yes"}, meta : Metas, hash : Targets, data : Targets]

ASSUME ConstantAssumption ==
    /\ Written \subseteq Metas
    /\ MaxSpec \in Nat \ {0} /\ MaxWrites \in Nat /\ MaxRestarts \in Nat
    /\ MaxEvents \in Nat

NoMeta == [labels |-> "none", ns |-> "none", uid |-> "none", ref |-> "none", life |-> "live"]
Absent == [present |-> "no", meta |-> NoMeta, hash |-> 0, data |-> 0]

--------------------------------------------------------------------------
(* The ownership checks.                                                  *)

ownershipMarkerConflict(m) ==
    \/ m.ns = "other"
    \/ m.uid # "none" /\ m.ns = "none"
    \/ m.labels = "conflict"

resourceOwnerConflict(m, controllerOwned) ==
    /\ m.ref # "none"
    /\ \/ ~controllerOwned
       \/ m.ref = "foreign"
       \/ m.uid # "none" /\ m.uid # m.ref

controllerOwned(k) == k \notin {"unowned", "wfns", "crd"}

\* Marked by the operator and owned by nobody
sharedCRDOwned(m) == m.labels = "complete" /\ m.ref = "none"

\* ResourceOwnershipError; policy.OwnershipError for NetworkPolicies; the check of
\* ensureSharedCRD.  An administrator's workflow Namespace is not authorized either:
\* if it is restricted it is used as it is, otherwise it is a conflict.
Authorized(k, m) ==
    /\ m.life = "live"
    /\ CASE k = "policy" -> m.labels = "complete" /\ m.ref # "foreign"
         [] k = "crd"    -> sharedCRDOwned(m)
         [] OTHER -> /\ ~ownershipMarkerConflict(m)
                     /\ ~resourceOwnerConflict(m, controllerOwned(k))
                     /\ m.ref = "current" \/ m.labels = "complete"

\* What SetOwnerReference and StampOwnership put on a rendered object; the
\* policy renderer writes labels and an owner reference only, a CRD is labelled.
Stamped(k) ==
    [labels |-> "complete",
     ns     |-> IF k \in {"policy", "crd"} THEN "none" ELSE "ours",
     uid    |-> IF k \in {"policy", "crd"} THEN "none" ELSE "current",
     ref    |-> IF controllerOwned(k) THEN "current" ELSE "none",
     life   |-> "live"]

ownershipMetadataMatches(k, m) ==
    /\ m.labels = "complete"
    /\ m.ref = Stamped(k).ref
    /\ k \notin {"policy", "crd"} => m.ns = "ours" /\ m.uid = "current"

\* contentDrifted, and updateNetworkPolicy's comparison of the spec
contentDrifted(k, x, t) == k \in {"config", "policy"} /\ x.data # t

\* The three Pod Security labels of the Namespace, the same for every spec
EnsureRestrictedPSALabels(x) == x.data = 0

\* No hash is kept of a Namespace.
UpToDate(k, x, t) ==
    /\ ownershipMetadataMatches(k, x.meta)
    /\ k \notin {"job", "wfns"} => x.hash = t /\ ~contentDrifted(k, x, t)
    /\ k = "wfns" => ~EnsureRestrictedPSALabels(x)

Rendered(k, t) == [present |-> "yes", meta |-> Stamped(k), hash |-> t, data |-> t]

\* A CRD keeps the labels and annotations it has.
sharedCRDMerged(x, t) == [Rendered("crd", t) EXCEPT !.meta = x.meta]

\* Mutant: an update keeps the metadata it found.
MetaKept(k, x, t) == [Rendered(k, t) EXCEPT !.meta = x.meta]

\* What an update writes: a Job's spec is immutable, only its ownership is
\* repaired.
Updated(k, x, t) ==
    CASE k = "job" -> [x EXCEPT !.meta = Stamped(k)]
      [] k = "crd" -> sharedCRDMerged(x, t)
      [] OTHER     -> Rendered(k, t)

--------------------------------------------------------------------------
(* The operator's steps.  A write makes every earlier version stale.       *)

Write(x) == /\ live' = x
            /\ cacheRV' = "stale"

Idle == /\ op' = "idle"
        /\ target' = 0
        /\ existing' = Absent
        /\ existingRV' = "stale"

\* Mutant: content rendered from another spec passes for up to date.
HashIgnored(x, rv, t) ==
    \/ /\ ~Authorized(kind, x.meta) \/ ownershipMetadataMatches(kind, x.meta)
       /\ Idle
    \/ /\ Authorized(kind, x.meta) /\ ~ownershipMetadataMatches(kind, x.meta)
       /\ op' = "update" /\ target' = t /\ existing' = x /\ existingRV' = rv

\* From the ownership check of the object read to the Update, or to the return:
\* with a conflict error, or with nothing to do.
Judge(x, rv, t) ==
    \/ /\ ~Authorized(kind, x.meta) \/ UpToDate(kind, x, t)
       /\ Idle
    \/ /\ Authorized(kind, x.meta) /\ ~UpToDate(kind, x, t)
       /\ op' = "update" /\ target' = t /\ existing' = x /\ existingRV' = rv

\* A Get of x, in version rv, starts an ensure.
Got(x, rv) ==
    /\ op = "idle" /\ want # 0
    /\ IF x = Absent
       THEN op' = "create" /\ target' = want /\ UNCHANGED <<existing, existingRV>>
       ELSE Judge(x, rv, want)
    /\ UNCHANGED <<kind, want, live, cache, cacheRV, writes, restarts>>

\* From the cache
EnsureGet == kind \notin Retained /\ Got(cache, cacheRV)

\* The kinds that outlive the CR are read from the API server.
deployWorkflowNamespace == kind = "wfns" /\ Got(live, "current")
ensureSharedCRD == kind = "crd" /\ Got(live, "current")

Create ==
    /\ op = "create"
    /\ IF live = Absent
       THEN Write(Rendered(kind, target)) /\ Idle
       ELSE op' = "reread" /\ UNCHANGED <<live, cacheRV, target, existing, existingRV>>
    /\ UNCHANGED <<kind, want, cache, writes, restarts>>

\* createOrReadExisting's uncached Get after AlreadyExists; NotFound is an error.
ReadExisting ==
    /\ op = "reread"
    /\ IF live = Absent THEN Idle ELSE Judge(live, "current", target)
    /\ UNCHANGED <<kind, want, live, cache, cacheRV, writes, restarts>>

\* Mutant: an update without a resourceVersion.
BlindUpdate ==
    /\ op = "update"
    /\ IF live # Absent
       THEN Write(Updated(kind, existing, target)) ELSE UNCHANGED <<live, cacheRV>>
    /\ Idle
    /\ UNCHANGED <<kind, want, cache, writes, restarts>>

\* An Update carries the resourceVersion that was read: a stale one conflicts.
Update ==
    /\ op = "update"
    /\ IF live # Absent /\ existingRV = "current"
       THEN Write(Updated(kind, existing, target)) ELSE UNCHANGED <<live, cacheRV>>
    /\ Idle
    /\ UNCHANGED <<kind, want, cache, writes, restarts>>

\* deleteIfExists reads around the cache; pruneNetworkPolicies deletes what the
\* cached List returned.  deleteWorkflowResources leaves the Namespace.
DeleteGet ==
    /\ op = "idle" /\ want = 0 /\ kind \notin Retained
    /\ LET x  == IF kind = "policy" THEN cache ELSE live
           rv == IF kind = "policy" THEN cacheRV ELSE "current"
       IN  /\ x # Absent /\ Authorized(kind, x.meta)
           /\ op' = "delete" /\ existing' = x /\ existingRV' = rv
    /\ UNCHANGED <<kind, want, live, cache, cacheRV, target, writes, restarts>>

\* deleteObservedResource: UID and resourceVersion preconditions
Delete ==
    /\ op = "delete"
    /\ IF live # Absent /\ existingRV = "current"
       THEN Write(Absent) ELSE UNCHANGED <<live, cacheRV>>
    /\ Idle
    /\ UNCHANGED <<kind, want, cache, writes, restarts>>

Reconciler == EnsureGet \/ deployWorkflowNamespace \/ ensureSharedCRD \/ Create \/ ReadExisting \/ Update \/ DeleteGet \/ Delete

--------------------------------------------------------------------------
(* The environment.                                                        *)

MoreEvents == writes + restarts < MaxEvents

EditCR ==
    /\ writes < MaxWrites /\ MoreEvents /\ kind # "crd"
    /\ want' \in Targets \ {want}
    /\ writes' = writes + 1
    /\ UNCHANGED <<kind, live, cache, cacheRV, op, target, existing, existingRV, restarts>>

\* Somebody else creates the object, edits its content or its metadata (taking
\* it over, or handing it over), starts or ends its termination.
OthersWrite ==
    /\ writes < MaxWrites /\ MoreEvents
    /\ \E m \in Written \cup {live.meta}, d \in {live.data, 0} :
          Write([present |-> "yes", meta |-> m, hash |-> live.hash, data |-> d])
    /\ existingRV' = "stale"
    /\ writes' = writes + 1
    /\ UNCHANGED <<kind, want, cache, op, target, existing, restarts>>

OthersDelete ==
    /\ writes < MaxWrites /\ MoreEvents /\ live # Absent
    /\ Write(Absent)
    /\ existingRV' = "stale"
    /\ writes' = writes + 1
    /\ UNCHANGED <<kind, want, cache, op, target, existing, restarts>>

SyncCache ==
    /\ cacheRV = "stale"
    /\ cache' = live /\ cacheRV' = "current"
    /\ UNCHANGED <<kind, want, live, op, target, existing, existingRV, writes, restarts>>

\* The operator restarts, perhaps as another release: its caches are listed anew.
RestartOperator ==
    /\ restarts < MaxRestarts /\ MoreEvents
    /\ Idle
    /\ want' \in IF kind = "crd" THEN Targets \ {0} ELSE {want}
    /\ cache' = live /\ cacheRV' = "current"
    /\ restarts' = restarts + 1
    /\ UNCHANGED <<kind, live, writes>>

NextEngine == Reconciler \/ EditCR \/ OthersWrite \/ OthersDelete \/ SyncCache \/ RestartOperator

InitEngine ==
    /\ kind \in Kinds
    /\ want \in Targets /\ (kind = "crd" => want # 0)
    /\ live = Absent /\ cache = Absent /\ cacheRV = "current"
    /\ op = "idle" /\ target = 0 /\ existing = Absent /\ existingRV = "stale"
    /\ writes = 0 /\ restarts = 0

SpecEngine == InitEngine /\ [][NextEngine]_engineVars

\* The requeue timer starts every reconcile again; informers catch up.
FairSpecEngine == SpecEngine /\ WF_engineVars(Reconciler) /\ WF_engineVars(SyncCache)

--------------------------------------------------------------------------
(* Properties.                                                             *)

\* Type invariant of the engine's state.
TypeOKEngine ==
    /\ kind \in Kinds /\ want \in Targets
    /\ live \in Objects \cup {Absent}
    /\ cache \in Objects \cup {Absent} /\ cacheRV \in Versions
    /\ op \in {"idle", "create", "reread", "update", "delete"}
    /\ target \in Targets
    /\ existing \in Objects \cup {Absent} /\ existingRV \in Versions
    /\ writes \in 0 .. MaxWrites /\ restarts \in 0 .. MaxRestarts

\* Eligibility for mutation in the words of the ownership contract of issue
\* 514: the current CR's controller reference without a contradictory marker, or
\* a complete marker with no reference other than the CR's present or past one.
Eligible(k, m) ==
    /\ m.life = "live" /\ m.ref # "foreign"
    /\ k \in {"unowned", "wfns", "crd"} => m.ref = "none"
    /\ k \notin {"policy", "crd"} =>
          /\ m.ns # "other" /\ m.labels # "conflict"
          /\ m.uid # "none" => m.ns = "ours" /\ m.ref \in {"none", m.uid}
    /\ m.labels = "complete" \/ (m.ref = "current" /\ k # "policy")

\* No step of the operator changes or deletes an object that is not eligible at
\* that moment, whatever was true when ensureResourceChanged, createIfNotFound,
\* updateNetworkPolicy, deployWorkflowNamespace, ensureSharedCRD or deleteIfExists
\* read it: an administrator's Namespace or CRD is read-only to the operator.
OthersObjectsUntouched ==
    [][writes' = writes /\ live # Absent /\ ~Eligible(kind, live.meta)
          => live' = live]_engineVars

\* Once the writes of others end, an object that is still the operator's (or
\* absent) comes to be what the CR asks for: gone, or rendered from the current
\* spec with current ownership; contentDrifted and updateNetworkPolicy also
\* repair content changed behind the hash of ConfigMaps, Services and policies.
Converged ==
    IF want = 0 THEN live = Absent \/ kind = "wfns"
    ELSE /\ live # Absent /\ ownershipMetadataMatches(kind, live.meta)
         /\ kind \notin {"job", "wfns"} => live.hash = want
         /\ kind = "wfns" => live.data # 0
         /\ kind \in {"config", "policy"} => live.data = want
EventuallyConverged ==
    <>[](Converged \/ (live # Absent /\ ~Eligible(kind, live.meta)))

\* The engine comes to rest: ensureResourceChanged recognises its own writes, so
\* two reconciles do not keep rewriting the object.
EventuallyQuiet == <>[](op \notin {"create", "update", "delete"})
=============================================================================
