------------------------------ MODULE Singleton ------------------------------
(***************************************************************************)
(* One Kubernaut CR for the whole cluster: the admission webhook checks    *)
(* before a CR is persisted, so two creations may race past it; the        *)
(* reconciler therefore activates a CR (adds the finalizer, deploys) only  *)
(* when an uncached List shows no other.  The objects it deploys outside   *)
(* the CR's namespace bear names that every CR would give them: a finalizer*)
(* that runs late must not take the objects of a successor.                *)
(*                                                                         *)
(* Abstractions: every CR has the canonical name (the webhook denies other *)
(* names and Reconcile ignores them), so a key is a namespace.  The        *)
(* deployment is one write per object; ResourceEngine and ClusterRBAC have *)
(* the details.  The finalizer is removed by the operator only.            *)
(***************************************************************************)
EXTENDS Integers, FiniteSets

CONSTANTS
    UIDs,           \* the CRs that are ever created
    Namespaces,
    Objects,        \* cluster-scoped objects, the same names for every CR
    None,
    MaxCrashes

ASSUME ConstantAssumption == None \notin UIDs /\ MaxCrashes \in Nat

VARIABLES
    place,          \* the namespace of each CR
    state,          \* of each CR in the API server
    fin,            \* the CRs that bear the finalizer
    cache, cacheRV, \* the manager cache's CR of each namespace
    pc, kn, knRV,   \* the worker (MaxConcurrentReconciles 1) and the CR it read
    todo,           \* objects the cleanup has still to delete
    obj,            \* the CR stamped on each object
    crashes

vars == <<place, state, fin, cache, cacheRV, pc, kn, knRV, todo, obj, crashes>>

Copies == [uid : UIDs \cup {None}, life : {"live", "terminating"}, fin : {"yes", "no"}]
NoCR == [uid |-> None, life |-> "live", fin |-> "no"]

Present == {u \in UIDs : state[u] \in {"live", "terminating"}}

\* The CR of namespace n in the API server
Stored(n) ==
    IF \E u \in Present : place[u] = n
    THEN LET u == CHOOSE v \in Present : place[v] = n
         IN  [uid |-> u, life |-> state[u], fin |-> IF u \in fin THEN "yes" ELSE "no"]
    ELSE NoCR

--------------------------------------------------------------------------
(* Users and the API server.                                               *)

\* SingletonValidator.Handle: a CREATE is allowed when there is no CR
Handle(u) ==
    /\ state[u] = "none" /\ Present = {}
    /\ state' = [state EXCEPT ![u] = "admitted"]
    /\ UNCHANGED <<place, fin, cache, cacheRV, pc, kn, knRV, todo, obj, crashes>>

Touch(u) == /\ cacheRV' = [cacheRV EXCEPT ![place[u]] = "stale"]
            /\ knRV' = IF kn.uid = u THEN "stale" ELSE knRV

\* The API server persists an admitted CR unless its name is taken.
Persist(u) ==
    /\ state[u] = "admitted"
    /\ state' = [state EXCEPT ![u] = IF \E v \in Present : place[v] = place[u]
                                     THEN "gone" ELSE "live"]
    /\ Touch(u)
    /\ UNCHANGED <<place, fin, cache, pc, kn, todo, obj, crashes>>

DeleteCR(u) ==
    /\ state[u] = "live"
    /\ state' = [state EXCEPT ![u] = IF u \in fin THEN "terminating" ELSE "gone"]
    /\ Touch(u)
    /\ UNCHANGED <<place, fin, cache, pc, kn, todo, obj, crashes>>

SyncCache(n) ==
    /\ cacheRV[n] = "stale"
    /\ cache' = [cache EXCEPT ![n] = Stored(n)]
    /\ cacheRV' = [cacheRV EXCEPT ![n] = "current"]
    /\ UNCHANGED <<place, state, fin, pc, kn, knRV, todo, obj, crashes>>

--------------------------------------------------------------------------
(* The worker.                                                             *)

Idle == /\ pc' = "idle"
        /\ kn' = NoCR
        /\ knRV' = "stale"
        /\ todo' = {}

\* Reconcile reads the CR of a key from the cache.
Reconcile(n) ==
    /\ pc = "idle" /\ cache[n].uid # None
    /\ cache[n].life = "terminating" => cache[n].fin = "yes"
    /\ kn' = cache[n] /\ knRV' = cacheRV[n]
    /\ IF cache[n].life = "terminating"
       THEN pc' = "cleanup" /\ todo' = Objects
       ELSE pc' = "authorize" /\ todo' = {}
    /\ UNCHANGED <<place, state, fin, cache, cacheRV, obj, crashes>>

Activate == /\ pc' = IF kn.fin = "yes" THEN "deploy" ELSE "addFinalizer"
            /\ UNCHANGED <<kn, knRV, todo>>

\* Mutant: the List is restricted to the namespace of the CR.
authorizeInNamespace ==
    /\ pc = "authorize"
    /\ IF state[kn.uid] = "live" /\ \A u \in Present : place[u] = place[kn.uid] => u = kn.uid
       THEN Activate ELSE Idle
    /\ UNCHANGED <<place, state, fin, cache, cacheRV, obj, crashes>>

\* The uncached List: this CR, by key and UID, and no other; not terminating
authorizeSingleton ==
    /\ pc = "authorize"
    /\ IF Present = {kn.uid} /\ state[kn.uid] = "live" THEN Activate ELSE Idle
    /\ UNCHANGED <<place, state, fin, cache, cacheRV, obj, crashes>>

\* The Update carries the resourceVersion of the CR that was read.
AddFinalizer ==
    /\ pc = "addFinalizer"
    /\ IF knRV = "current"
       THEN /\ fin' = fin \cup {kn.uid}
            /\ cacheRV' = [cacheRV EXCEPT ![place[kn.uid]] = "stale"]
       ELSE UNCHANGED <<fin, cacheRV>>
    /\ Idle
    /\ UNCHANGED <<place, state, cache, obj, crashes>>

\* Mutant: whoever owns an object, it is written and deleted.
OwnerIgnored(o) == TRUE

\* Ownership of a cluster-scoped object: the namespace on it has to be that of
\* the CR; the UID may be that of a predecessor (the reinstall exception).
ResourceOwnershipOK(o) == obj[o] # None => place[obj[o]] = place[kn.uid]

\* One ensure of the phases; an ownership conflict ends the reconcile.
Deploy(o) ==
    /\ pc = "deploy"
    /\ IF ResourceOwnershipOK(o)
       THEN obj' = [obj EXCEPT ![o] = kn.uid] /\ UNCHANGED <<pc, kn, knRV, todo>>
       ELSE Idle /\ UNCHANGED obj
    /\ UNCHANGED <<place, state, fin, cache, cacheRV, crashes>>

\* Between the phases reconcilePhases reads the CR again, from the cache.
Reread ==
    /\ pc = "deploy"
    /\ LET c == cache[place[kn.uid]]
       IN  IF c.uid = None THEN Idle
           ELSE kn' = c /\ knRV' = cacheRV[place[kn.uid]] /\ UNCHANGED <<pc, todo>>
    /\ UNCHANGED <<place, state, fin, cache, cacheRV, obj, crashes>>

Finish ==
    /\ pc = "deploy" /\ \A o \in Objects : obj[o] = kn.uid
    /\ Idle
    /\ UNCHANGED <<place, state, fin, cache, cacheRV, obj, crashes>>

\* Mutant: an object that is not there counts as a failed delete.
CleanUpStrict(o) ==
    /\ pc = "cleanup" /\ o \in todo
    /\ IF obj[o] # None
       THEN /\ todo' = todo \ {o}
            /\ obj' = IF ResourceOwnershipOK(o) THEN [obj EXCEPT ![o] = None] ELSE obj
            /\ UNCHANGED <<pc, kn, knRV>>
       ELSE Idle /\ UNCHANGED obj
    /\ UNCHANGED <<place, state, fin, cache, cacheRV, crashes>>

\* deleteIfExists, uncached: an object outside the ownership contract is left
\* where it is, which counts as success; the cleanup goes on with the others.
CleanUp(o) ==
    /\ pc = "cleanup" /\ o \in todo
    /\ todo' = todo \ {o}
    /\ obj' = IF ResourceOwnershipOK(o) THEN [obj EXCEPT ![o] = None] ELSE obj
    /\ UNCHANGED <<place, state, fin, cache, cacheRV, pc, kn, knRV, crashes>>

\* Mutant: the finalizer goes before the objects do.
RemoveFirst ==
    /\ pc = "cleanup"
    /\ IF knRV = "current"
       THEN /\ state' = [state EXCEPT ![kn.uid] = "gone"]
            /\ fin' = fin \ {kn.uid}
            /\ cacheRV' = [cacheRV EXCEPT ![place[kn.uid]] = "stale"]
       ELSE UNCHANGED <<state, fin, cacheRV>>
    /\ Idle
    /\ UNCHANGED <<place, cache, obj, crashes>>

RemoveFinalizer ==
    /\ pc = "cleanup" /\ todo = {}
    /\ IF knRV = "current"
       THEN /\ state' = [state EXCEPT ![kn.uid] = "gone"]
            /\ fin' = fin \ {kn.uid}
            /\ cacheRV' = [cacheRV EXCEPT ![place[kn.uid]] = "stale"]
       ELSE UNCHANGED <<state, fin, cacheRV>>
    /\ Idle
    /\ UNCHANGED <<place, cache, obj, crashes>>

Step == \/ authorizeSingleton \/ AddFinalizer \/ Reread \/ Finish \/ RemoveFinalizer
        \/ \E o \in Objects : Deploy(o) \/ CleanUp(o)

\* A restart, or another replica taking over; its caches are listed anew.
Restart ==
    /\ crashes < MaxCrashes
    /\ crashes' = crashes + 1
    /\ Idle
    /\ cache' = [n \in Namespaces |-> Stored(n)]
    /\ cacheRV' = [n \in Namespaces |-> "current"]
    /\ UNCHANGED <<place, state, fin, obj>>

Next == \/ \E u \in UIDs : Handle(u) \/ Persist(u) \/ DeleteCR(u)
        \/ \E n \in Namespaces : SyncCache(n) \/ Reconcile(n)
        \/ Step \/ Restart

Init ==
    /\ place \in [UIDs -> Namespaces]
    /\ state = [u \in UIDs |-> "none"]
    /\ fin = {}
    /\ cache = [n \in Namespaces |-> NoCR]
    /\ cacheRV = [n \in Namespaces |-> "current"]
    /\ pc = "idle" /\ kn = NoCR /\ knRV = "stale" /\ todo = {}
    /\ obj = [o \in Objects |-> None]
    /\ crashes = 0

Spec == Init /\ [][Next]_vars

\* A step that takes the worker further through its reconcile
Progress == \/ authorizeSingleton \/ AddFinalizer \/ Finish \/ RemoveFinalizer
            \/ \E o \in Objects : CleanUp(o) \/ (Deploy(o) /\ obj[o] # kn.uid)

\* The work queue serves every key again (events, retries, the requeue timer);
\* the worker does not stop inside a reconcile; informers catch up.
FairSpec ==
    /\ Spec
    /\ \A n \in Namespaces : WF_vars(SyncCache(n)) /\ SF_vars(Reconcile(n))
    /\ WF_vars(Progress)

--------------------------------------------------------------------------
(* Properties.                                                             *)

\* Type invariant of the singleton protocol.
TypeOK ==
    /\ place \in [UIDs -> Namespaces]
    /\ state \in [UIDs -> {"none", "admitted", "live", "terminating", "gone"}]
    /\ fin \subseteq Present
    /\ cache \in [Namespaces -> Copies] /\ cacheRV \in [Namespaces -> {"current", "stale"}]
    /\ pc \in {"idle", "authorize", "addFinalizer", "deploy", "cleanup"}
    /\ kn \in Copies /\ knRV \in {"current", "stale"} /\ todo \subseteq Objects
    /\ obj \in [Objects -> UIDs \cup {None}]
    /\ crashes \in 0 .. MaxCrashes

\* Although two CRs may get past the admission webhook, at most one is ever
\* activated (authorizeSingleton, then the finalizer).
OneActive == \A u, v \in fin : u = v

\* Every object belongs to a CR that still bears the finalizer: none is orphaned
\* by a CR that went away while reconcilePhases was deploying for it.
NoOrphans == \A o \in Objects : obj[o] # None => obj[o] \in fin

\* runFinalizerCleanup takes objects from a terminating CR only: a run on a stale
\* copy of a CR that is gone does not hit the CR created after it, although
\* ownership of cluster-scoped objects does not look at the UID.
SuccessorUntouched ==
    [][\A o \in Objects :
          obj[o] # None /\ obj'[o] = None => state[obj[o]] = "terminating"]_vars

\* A CR that ends up alone is deployed: one that lost the race past admission
\* gets its turn when the other goes.
LastOneDeployed ==
    \A u \in UIDs : <>[](Present = {u} /\ state[u] = "live")
                        => <>[](\A o \in Objects : obj[o] = u)

\* A CR under deletion goes in the end.
DeletionEnds == \A u \in UIDs : (state[u] = "terminating") ~> (state[u] = "gone")
=============================================================================
