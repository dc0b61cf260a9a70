-------------------------- MODULE SingletonProofs --------------------------
(***************************************************************************)
(* Proofs about Singleton: at most one CR is active, no object is orphaned *)
(* and a late finalizer does not touch a successor, for any CRs,           *)
(* namespaces, objects and restarts.                                       *)
(***************************************************************************)
EXTENDS Singleton, TLAPS

\* A step is for Zenon, unless it names another prover.
USE Zenon

States == {"none", "admitted", "live", "terminating", "gone"}

\* The types, in the form the steps below need them
Types ==
    /\ place \in [UIDs -> Namespaces]
    /\ state \in [UIDs -> States]
    /\ fin \subseteq Present
    /\ cache \in [Namespaces -> Copies] /\ cacheRV \in [Namespaces -> {"current", "stale"}]
    /\ kn \in Copies
    /\ obj \in [Objects -> UIDs \cup {None}]

\* The API server keeps one CR per namespace.
OnePerNamespace == \A u, v \in Present : place[u] = place[v] => u = v

\* What a copy of a CR says is true, or was before the CR went: it was persisted
\* in the namespace it was read from, a finalizer on it stays until it goes, and
\* so does its termination.
Faithful(c) ==
    c.uid # None =>
       /\ state[c.uid] \in {"live", "terminating", "gone"}
       /\ c.fin = "yes" /\ state[c.uid] # "gone" => c.uid \in fin
       /\ c.life = "terminating" => state[c.uid] # "live"

\* A copy of the current version is the CR itself.
Current(c) ==
    c.uid # None =>
       /\ state[c.uid] = c.life
       /\ c.fin = "yes" <=> c.uid \in fin

CacheInv ==
    \A n \in Namespaces :
       /\ Faithful(cache[n])
       /\ cache[n].uid # None => place[cache[n].uid] = n
       /\ cacheRV[n] = "current" => Current(cache[n])

\* An active CR has been read from the cache, which shows it until it goes.
SeenInv == \A u \in fin : cache[place[u]].uid = u

\* The worker: a copy it has read; a CR it serves that is still there is still
\* the one the cache shows; only the CR that it has authorized may be active; a
\* cleanup meets no other active CR in its namespace, and has on its list all
\* that is left of its CR.
WorkerInv ==
    /\ pc # "idle" => kn.uid # None
    /\ Faithful(kn)
    /\ knRV = "current" => Current(kn)
    /\ pc # "idle" /\ kn.uid \in Present => cache[place[kn.uid]].uid = kn.uid
    /\ pc = "addFinalizer" => fin \subseteq {kn.uid} /\ kn.life = "live"
    /\ pc = "deploy" => fin = {kn.uid}
    /\ pc = "cleanup" =>
          /\ kn.life = "terminating"
          /\ \A u \in fin : place[u] = place[kn.uid] => u = kn.uid
          /\ \A o \in Objects : obj[o] = kn.uid => o \in todo
    /\ pc = "authorize" => kn.life = "live"

Inv == /\ Types /\ OnePerNamespace /\ CacheInv /\ SeenInv /\ WorkerInv
       /\ OneActive /\ NoOrphans

--------------------------------------------------------------------------
(* Lemmas.                                                                 *)

\* What the API server stores for a namespace, as SyncCache and Restart read it.
LEMMA StoredPresent ==
    ASSUME OnePerNamespace, NEW u \in Present
    PROVE  Stored(place[u]) = [uid |-> u, life |-> state[u],
                               fin |-> IF u \in fin THEN "yes" ELSE "no"]
<1> DEFINE w == CHOOSE v \in Present : place[v] = place[u]
<1>1. w \in Present /\ place[w] = place[u] OBVIOUS
<1>2. w = u BY <1>1 DEF OnePerNamespace
<1> QED BY <1>2 DEF Stored

LEMMA StoredCurrent ==
    ASSUME Types, OnePerNamespace, NEW n \in Namespaces
    PROVE  /\ Stored(n) \in Copies
           /\ Faithful(Stored(n)) /\ Current(Stored(n))
           /\ Stored(n).uid # None => place[Stored(n).uid] = n
<1>1. CASE \E u \in Present : place[u] = n
  <2>1. PICK u \in Present : place[u] = n BY <1>1
  <2>2. Stored(n) = [uid |-> u, life |-> state[u], fin |-> IF u \in fin THEN "yes" ELSE "no"]
    BY <2>1, StoredPresent
  <2>3. u \in UIDs /\ state[u] \in {"live", "terminating"} BY DEF Present
  <2> QED BY SMT, <2>1, <2>2, <2>3 DEF Copies, Faithful, Current
<1>2. CASE ~\E u \in Present : place[u] = n
  <2>1. Stored(n) = NoCR BY <1>2 DEF Stored
  <2> QED BY SMT, <2>1 DEF NoCR, Copies, Faithful, Current
<1> QED BY <1>1, <1>2

LEMMA IdleWorker == ASSUME Idle PROVE WorkerInv' /\ kn' \in Copies
BY DEF Idle, WorkerInv, NoCR, Copies, Faithful, Current

\* Steps that leave the CRs, the finalizers and the caches alone.
LEMMA WorkerOnly ==
    ASSUME Inv, UNCHANGED <<place, state, fin, cache, cacheRV>>,
           kn' \in Copies, obj' \in [Objects -> UIDs \cup {None}], WorkerInv', NoOrphans'
    PROVE  Inv'
BY DEF Inv, Types, Present, OnePerNamespace, CacheInv, SeenInv, OneActive, Faithful, Current

--------------------------------------------------------------------------
(* The steps of users and of the API server.                               *)

\* A CR that is not persisted yet is not known to the operator.
LEMMA HandleStep == ASSUME Inv, NEW u \in UIDs, Handle(u) PROVE Inv'
<1>1. state' = [state EXCEPT ![u] = "admitted"] /\ state[u] = "none"
      /\ UNCHANGED <<place, fin, cache, cacheRV, pc, kn, knRV, todo, obj>>
  BY DEF Handle
<1>2. state' \in [UIDs -> States] /\ Present' = Present
  BY <1>1 DEF Inv, Types, Present, States
<1>3. \A c \in Copies : Faithful(c) => Faithful(c)' /\ (Current(c) => Current(c)')
  BY <1>1 DEF Inv, Types, Copies, Faithful, Current
<1>4. Types' /\ OnePerNamespace' BY <1>1, <1>2 DEF Inv, Types, OnePerNamespace
<1>5. CacheInv' BY <1>1, <1>3 DEF Inv, Types, CacheInv
<1>6. WorkerInv' BY <1>1, <1>2, <1>3 DEF Inv, Types, WorkerInv
<1> QED BY <1>1, <1>4, <1>5, <1>6 DEF Inv, SeenInv, OneActive, NoOrphans

LEMMA PersistStep == ASSUME Inv, NEW u \in UIDs, Persist(u) PROVE Inv'
<1>1. state[u] = "admitted" /\ UNCHANGED <<place, fin, cache, pc, kn, todo, obj>>
  BY DEF Persist
<1>2. \/ state' = [state EXCEPT ![u] = "gone"]
      \/ /\ state' = [state EXCEPT ![u] = "live"]
         /\ ~\E v \in Present : place[v] = place[u]
  BY DEF Persist
<1>3. state' \in [UIDs -> States] /\ Present \subseteq Present' /\ Present' \subseteq Present \cup {u}
  BY <1>1, <1>2 DEF Inv, Types, Present, States
<1>4. OnePerNamespace'
  BY SMT, <1>1, <1>2, <1>3 DEF Inv, OnePerNamespace, Present, Types
<1>5. cacheRV' = [cacheRV EXCEPT ![place[u]] = "stale"] /\ (knRV' = "current" => knRV = "current")
  BY DEF Persist, Touch
<1>6. cacheRV' \in [Namespaces -> {"current", "stale"}] BY <1>5 DEF Inv, Types
<1>7. \A c \in Copies : Faithful(c) => c.uid # u /\ Faithful(c)' /\ (Current(c) => Current(c)')
  BY SMT, <1>1, <1>2, ConstantAssumption DEF Inv, Types, Copies, Faithful, Current
<1>8. CacheInv' BY <1>1, <1>5, <1>7 DEF Inv, Types, CacheInv
<1>9. WorkerInv'
  <2>1. kn \in Copies /\ Faithful(kn) BY DEF Inv, Types, WorkerInv
  <2>2. kn.uid \in Present' => kn.uid \in Present BY <2>1, <1>3, <1>7
  <2> QED BY <1>1, <1>5, <1>7, <2>1, <2>2 DEF Inv, WorkerInv
<1>10. Types' BY <1>1, <1>3, <1>6 DEF Inv, Types
<1> QED BY <1>1, <1>4, <1>8, <1>9, <1>10 DEF Inv, SeenInv, OneActive, NoOrphans

LEMMA DeleteStep == ASSUME Inv, NEW u \in UIDs, DeleteCR(u) PROVE Inv'
<1>1. state[u] = "live" /\ UNCHANGED <<place, fin, cache, pc, kn, todo, obj>>
      /\ state' = [state EXCEPT ![u] = IF u \in fin THEN "terminating" ELSE "gone"]
  BY DEF DeleteCR
<1>2. state' \in [UIDs -> States] /\ Present' \subseteq Present /\ fin \subseteq Present'
  BY <1>1 DEF Inv, Types, Present, States
<1>3. OnePerNamespace' BY <1>1, <1>2 DEF Inv, OnePerNamespace
<1>5. cacheRV' = [cacheRV EXCEPT ![place[u]] = "stale"]
      /\ (knRV' = "current" => knRV = "current" /\ kn.uid # u)
  BY DEF DeleteCR, Touch
<1>6. cacheRV' \in [Namespaces -> {"current", "stale"}] BY <1>5 DEF Inv, Types
<1>7. \A c \in Copies : /\ Faithful(c) => Faithful(c)'
                        /\ c.uid # u /\ Current(c) => Current(c)'
  BY <1>1 DEF Inv, Types, Copies, Faithful, Current
<1>8. CacheInv'
  <2> SUFFICES ASSUME NEW n \in Namespaces
               PROVE  /\ Faithful(cache[n])'
                      /\ cache[n].uid # None => place[cache[n].uid] = n
                      /\ cacheRV'[n] = "current" => Current(cache[n])'
    BY <1>1 DEF CacheInv
  <2>1. cache[n] \in Copies /\ Faithful(cache[n]) BY DEF Inv, Types, CacheInv
  <2>2. cacheRV'[n] = "current" => cacheRV[n] = "current" /\ place[u] # n
    BY <1>5 DEF Inv, Types
  <2>3. cache[n].uid = u => place[u] = n
    BY ConstantAssumption DEF Inv, CacheInv
  <2> QED BY <1>1, <1>7, <2>1, <2>2, <2>3 DEF Inv, CacheInv
<1>9. WorkerInv'
  <2>1. kn \in Copies BY DEF Inv, Types
  <2> QED BY <1>1, <1>2, <1>5, <1>7, <2>1 DEF Inv, WorkerInv
<1>10. Types' BY <1>1, <1>2, <1>6 DEF Inv, Types
<1> QED BY <1>1, <1>3, <1>8, <1>9, <1>10 DEF Inv, SeenInv, OneActive, NoOrphans

LEMMA SyncStep == ASSUME Inv, NEW n \in Namespaces, SyncCache(n) PROVE Inv'
<1>1. cache' = [cache EXCEPT ![n] = Stored(n)] /\ cacheRV' = [cacheRV EXCEPT ![n] = "current"]
      /\ UNCHANGED <<place, state, fin, pc, kn, knRV, todo, obj>>
  BY DEF SyncCache
<1>2. /\ Stored(n) \in Copies /\ Faithful(Stored(n)) /\ Current(Stored(n))
      /\ Stored(n).uid # None => place[Stored(n).uid] = n
  BY StoredCurrent DEF Inv
<1>3. \A u \in Present : place[u] = n => Stored(n).uid = u
  <2> SUFFICES ASSUME NEW u \in Present, place[u] = n PROVE Stored(n).uid = u
    OBVIOUS
  <2>1. OnePerNamespace BY DEF Inv
  <2>2. Stored(place[u]) = [uid |-> u, life |-> state[u],
                            fin |-> IF u \in fin THEN "yes" ELSE "no"]
    BY <2>1, StoredPresent
  <2> QED BY SMT, <2>2
<1>4. Types' /\ Present' = Present BY <1>1, <1>2 DEF Inv, Types, Present
<1>5. \A c \in Copies : (Faithful(c) => Faithful(c)') /\ (Current(c) => Current(c)')
  BY <1>1 DEF Faithful, Current
<1>6. CacheInv' BY <1>1, <1>2, <1>5 DEF Inv, Types, CacheInv
<1>7. SeenInv' BY <1>1, <1>3 DEF Inv, Types, SeenInv, Present
<1>8. WorkerInv'
  <2>1. pc # "idle" /\ kn.uid \in Present => cache'[place[kn.uid]].uid = kn.uid
    BY <1>1, <1>3 DEF Inv, Types, WorkerInv, Present
  <2> QED BY <1>1, <1>4, <1>5, <2>1 DEF Inv, Types, WorkerInv
<1> QED BY <1>1, <1>4, <1>6, <1>7, <1>8 DEF Inv, OnePerNamespace, OneActive, NoOrphans

--------------------------------------------------------------------------
(* The steps of the worker.                                                *)

LEMMA ReconcileStep == ASSUME Inv, NEW n \in Namespaces, Reconcile(n) PROVE Inv'
<1>1. /\ UNCHANGED <<place, state, fin, cache, cacheRV, obj>> /\ kn' = cache[n]
      /\ knRV' = cacheRV[n] /\ cache[n].uid # None
  BY DEF Reconcile
<1>2. \/ pc' = "cleanup" /\ todo' = Objects /\ cache[n].life = "terminating"
      \/ pc' = "authorize" /\ cache[n].life # "terminating"
  BY DEF Reconcile
<1>3. cache[n] \in Copies /\ Faithful(cache[n]) /\ place[cache[n].uid] = n
      /\ (cacheRV[n] = "current" => Current(cache[n]))
  BY <1>1 DEF Inv, Types, CacheInv
<1>4. \A u \in fin : place[u] = n => u = cache[n].uid BY DEF Inv, SeenInv
<1>5. Faithful(kn)' /\ (knRV' = "current" => Current(kn)')
  BY <1>1, <1>3 DEF Faithful, Current
<1>6. WorkerInv' BY <1>1, <1>2, <1>3, <1>4, <1>5 DEF WorkerInv, Copies
<1> QED BY <1>1, <1>3, <1>6, WorkerOnly DEF Inv, Types, NoOrphans

LEMMA AuthorizeStep == ASSUME Inv, authorizeSingleton PROVE Inv'
<1>1. UNCHANGED <<place, state, fin, cache, cacheRV, obj>> /\ pc = "authorize"
  BY DEF authorizeSingleton
<1>2. CASE Idle BY <1>1, <1>2, IdleWorker, WorkerOnly DEF Inv, Types, NoOrphans
<1>3. CASE Present = {kn.uid} /\ state[kn.uid] = "live" /\ Activate
  <2>1. UNCHANGED <<kn, knRV, todo>>
        /\ pc' = IF kn.fin = "yes" THEN "deploy" ELSE "addFinalizer"
    BY <1>3 DEF Activate
  <2>2. fin \subseteq {kn.uid} BY <1>3 DEF Inv, Types
  <2>3. kn.uid # None /\ Faithful(kn) /\ kn.life = "live"
        /\ (knRV = "current" => Current(kn))
    BY <1>1 DEF Inv, WorkerInv
  <2>4. kn.fin = "yes" => kn.uid \in fin BY <1>3, <2>3 DEF Faithful
  <2>5. Faithful(kn)' /\ (knRV' = "current" => Current(kn)')
    BY <1>1, <2>1, <2>3 DEF Faithful, Current
  <2>6. pc' # "idle" /\ kn.uid \in Present' => cache[place[kn.uid]].uid = kn.uid
    BY <1>1 DEF Inv, WorkerInv, Present
  <2>7. WorkerInv'
    BY <1>1, <2>1, <2>2, <2>3, <2>4, <2>5, <2>6 DEF WorkerInv
  <2> QED BY <1>1, <2>1, <2>7, WorkerOnly DEF Inv, Types, NoOrphans
<1> QED BY <1>2, <1>3 DEF authorizeSingleton

LEMMA AddStep == ASSUME Inv, AddFinalizer PROVE Inv'
<1>1. Idle /\ UNCHANGED <<place, state, cache, obj>> /\ pc = "addFinalizer" BY DEF AddFinalizer
<1>2. WorkerInv' /\ kn' \in Copies BY <1>1, IdleWorker
<1>3. CASE knRV # "current"
  <2>1. UNCHANGED <<fin, cacheRV>> BY <1>3 DEF AddFinalizer
  <2> QED BY <1>1, <1>2, <2>1, WorkerOnly DEF Inv, Types, NoOrphans
<1>4. CASE knRV = "current"
  <2>1. fin' = fin \cup {kn.uid} /\ cacheRV' = [cacheRV EXCEPT ![place[kn.uid]] = "stale"]
    BY <1>4 DEF AddFinalizer
  <2>2. kn.uid # None /\ state[kn.uid] = "live" /\ fin \subseteq {kn.uid}
    BY <1>1, <1>4 DEF Inv, WorkerInv, Current
  <2>3. kn.uid \in Present /\ cache[place[kn.uid]].uid = kn.uid
    BY <1>1, <2>2 DEF Inv, Types, Copies, Present, WorkerInv
  <2>4. Present' = Present BY <1>1 DEF Present
  <2>5. Types' BY <1>1, <1>2, <2>1, <2>3, <2>4 DEF Inv, Types
  <2>6. \A c \in Copies : /\ Faithful(c) => Faithful(c)'
                          /\ c.uid # kn.uid /\ Current(c) => Current(c)'
    BY <1>1, <2>1 DEF Faithful, Current
  <2>7. CacheInv'
    <3> SUFFICES ASSUME NEW n \in Namespaces
                 PROVE  /\ Faithful(cache[n])'
                        /\ cache[n].uid # None => place[cache[n].uid] = n
                        /\ cacheRV'[n] = "current" => Current(cache[n])'
      BY <1>1 DEF CacheInv
    <3>1. cache[n] \in Copies /\ Faithful(cache[n]) BY DEF Inv, Types, CacheInv
    <3>2. cacheRV'[n] = "current" => cacheRV[n] = "current" /\ place[kn.uid] # n
      BY <2>1, <2>3 DEF Inv, Types, Present
    <3>3. cache[n].uid = kn.uid => place[kn.uid] = n BY <2>2 DEF Inv, CacheInv
    <3> QED BY <1>1, <2>6, <3>1, <3>2, <3>3 DEF Inv, CacheInv
  <2>8. SeenInv' BY <1>1, <2>1, <2>3 DEF Inv, SeenInv
  <2>9. OneActive' /\ NoOrphans' BY <1>1, <2>1, <2>2 DEF Inv, OneActive, NoOrphans
  <2> QED BY <1>1, <1>2, <2>4, <2>5, <2>7, <2>8, <2>9 DEF Inv, OnePerNamespace
<1> QED BY <1>3, <1>4

LEMMA DeployStep == ASSUME Inv, NEW o \in Objects, Deploy(o) PROVE Inv'
<1>1. UNCHANGED <<place, state, fin, cache, cacheRV>> /\ pc = "deploy" BY DEF Deploy
<1>2. CASE Idle /\ UNCHANGED obj
  BY <1>1, <1>2, IdleWorker, WorkerOnly DEF Inv, Types, NoOrphans
<1>3. CASE obj' = [obj EXCEPT ![o] = kn.uid] /\ UNCHANGED <<pc, kn, knRV, todo>>
  <2>1. fin = {kn.uid} /\ kn.uid \in UIDs
    BY <1>1 DEF Inv, Types, WorkerInv, Present
  <2>2. obj' \in [Objects -> UIDs \cup {None}] BY <1>3, <2>1 DEF Inv, Types
  <2>3. NoOrphans' BY <1>1, <1>3, <2>1 DEF Inv, Types, NoOrphans
  <2>4. WorkerInv' BY <1>1, <1>3 DEF Inv, WorkerInv, Faithful, Current, Present
  <2> QED BY <1>1, <1>3, <2>2, <2>3, <2>4, WorkerOnly DEF Inv, Types
<1> QED BY <1>2, <1>3 DEF Deploy

LEMMA RereadStep == ASSUME Inv, Reread PROVE Inv'
<1> DEFINE c == cache[place[kn.uid]]
<1>1. UNCHANGED <<place, state, fin, cache, cacheRV, obj>> /\ pc = "deploy" BY DEF Reread
<1>2. CASE Idle BY <1>1, <1>2, IdleWorker, WorkerOnly DEF Inv, Types, NoOrphans
<1>3. CASE kn' = c /\ knRV' = cacheRV[place[kn.uid]] /\ UNCHANGED <<pc, todo>>
  <2>1. fin = {kn.uid} /\ kn.uid \in UIDs /\ kn.uid # None
    BY <1>1 DEF Inv, Types, WorkerInv, Present
  <2>2. c.uid = kn.uid BY <2>1 DEF Inv, SeenInv
  <2>3. place[kn.uid] \in Namespaces BY <2>1 DEF Inv, Types
  <2>4. c \in Copies /\ Faithful(c) /\ (cacheRV[place[kn.uid]] = "current" => Current(c))
    BY <2>3 DEF Inv, Types, CacheInv
  <2>5. Faithful(kn)' /\ (knRV' = "current" => Current(kn)')
    BY <1>1, <1>3, <2>4 DEF Faithful, Current
  <2>6. WorkerInv' BY <1>1, <1>3, <2>1, <2>2, <2>5 DEF WorkerInv
  <2> QED BY <1>1, <1>3, <2>4, <2>6, WorkerOnly DEF Inv, Types, NoOrphans
<1> QED BY <1>2, <1>3 DEF Reread

LEMMA FinishStep == ASSUME Inv, Finish PROVE Inv'
<1>1. Idle /\ UNCHANGED <<place, state, fin, cache, cacheRV, obj>> BY DEF Finish
<1> QED BY <1>1, IdleWorker, WorkerOnly DEF Inv, Types, NoOrphans

LEMMA CleanUpStep == ASSUME Inv, NEW o \in Objects, CleanUp(o) PROVE Inv'
<1>1. /\ UNCHANGED <<place, state, fin, cache, cacheRV, pc, kn, knRV>> /\ pc = "cleanup"
      /\ todo' = todo \ {o}
  BY DEF CleanUp
<1>2. kn.uid # None BY <1>1 DEF Inv, WorkerInv
\* What belongs to the CR passes the ownership check and is deleted.
<1>3. /\ obj' \in [Objects -> UIDs \cup {None}] /\ obj'[o] # kn.uid
      /\ \A p \in Objects : obj'[p] = obj[p] \/ obj'[p] = None
      /\ \A p \in Objects : p # o => obj'[p] = obj[p]
  <2>1. CASE ResourceOwnershipOK(o)
    <3>1. obj' = [obj EXCEPT ![o] = None] BY <2>1 DEF CleanUp
    <3> QED BY <1>2, <3>1 DEF Inv, Types
  <2>2. CASE ~ResourceOwnershipOK(o)
    <3>1. obj' = obj BY <2>2 DEF CleanUp
    <3>2. obj[o] # kn.uid BY <2>2 DEF ResourceOwnershipOK
    <3> QED BY <3>1, <3>2 DEF Inv, Types
  <2> QED BY <2>1, <2>2
<1>4. NoOrphans' BY <1>1, <1>3 DEF Inv, NoOrphans
<1>5. \A p \in Objects : obj'[p] = kn.uid => p \in todo'
  BY <1>1, <1>3 DEF Inv, WorkerInv
<1>6. WorkerInv' BY <1>1, <1>5 DEF Inv, WorkerInv, Faithful, Current, Present
<1> QED BY <1>1, <1>3, <1>4, <1>6, WorkerOnly DEF Inv, Types

LEMMA RemoveStep == ASSUME Inv, RemoveFinalizer PROVE Inv'
<1>1. Idle /\ UNCHANGED <<place, cache, obj>> /\ pc = "cleanup" /\ todo = {}
  BY DEF RemoveFinalizer
<1>2. WorkerInv' /\ kn' \in Copies BY <1>1, IdleWorker
<1>3. CASE knRV # "current"
  <2>1. UNCHANGED <<state, fin, cacheRV>> BY <1>3 DEF RemoveFinalizer
  <2> QED BY <1>1, <1>2, <2>1, WorkerOnly DEF Inv, Types, NoOrphans
<1>4. CASE knRV = "current"
  <2>1. fin' = fin \ {kn.uid} /\ cacheRV' = [cacheRV EXCEPT ![place[kn.uid]] = "stale"]
        /\ state' = [state EXCEPT ![kn.uid] = "gone"]
    BY <1>4 DEF RemoveFinalizer
  <2>2. kn.uid \in UIDs BY <1>1 DEF Inv, Types, Copies, WorkerInv
  <2>3. Present' \subseteq Present /\ fin' \subseteq Present' /\ state' \in [UIDs -> States]
    BY <2>1, <2>2 DEF Inv, Types, Present, States
  <2>5. Types' BY <1>1, <1>2, <2>1, <2>2, <2>3 DEF Inv, Types
  <2>6. \A c \in Copies : /\ Faithful(c) => Faithful(c)'
                          /\ c.uid # kn.uid /\ Current(c) => Current(c)'
    BY <2>1, <2>2 DEF Inv, Types, Copies, Faithful, Current
  <2>7. CacheInv'
    <3> SUFFICES ASSUME NEW n \in Namespaces
                 PROVE  /\ Faithful(cache[n])'
                        /\ cache[n].uid # None => place[cache[n].uid] = n
                        /\ cacheRV'[n] = "current" => Current(cache[n])'
      BY <1>1 DEF CacheInv
    <3>1. cache[n] \in Copies /\ Faithful(cache[n]) BY DEF Inv, Types, CacheInv
    <3>2. cacheRV'[n] = "current" => cacheRV[n] = "current" /\ place[kn.uid] # n
      BY <2>1, <2>2 DEF Inv, Types
    <3>3. cache[n].uid = kn.uid => place[kn.uid] = n
      BY <2>2, ConstantAssumption DEF Inv, CacheInv
    <3> QED BY <1>1, <2>6, <3>1, <3>2, <3>3 DEF Inv, CacheInv
  <2>8. SeenInv' /\ OneActive' BY <1>1, <2>1 DEF Inv, SeenInv, OneActive
  <2>9. NoOrphans' BY <1>1, <2>1 DEF Inv, NoOrphans, WorkerInv
  <2>10. OnePerNamespace' BY <1>1, <2>3 DEF Inv, OnePerNamespace
  <2> QED BY <1>2, <2>5, <2>7, <2>8, <2>9, <2>10 DEF Inv
<1> QED BY <1>3, <1>4

LEMMA RestartStep == ASSUME Inv, Restart PROVE Inv'
<1>1. Idle /\ UNCHANGED <<place, state, fin, obj>>
      /\ cache' = [n \in Namespaces |-> Stored(n)]
      /\ cacheRV' = [n \in Namespaces |-> "current"]
  BY DEF Restart
<1>2. WorkerInv' /\ kn' \in Copies BY <1>1, IdleWorker
<1>3. \A n \in Namespaces :
         /\ Stored(n) \in Copies /\ Faithful(Stored(n)) /\ Current(Stored(n))
         /\ Stored(n).uid # None => place[Stored(n).uid] = n
  BY StoredCurrent DEF Inv
<1>4. Types' /\ Present' = Present BY <1>1, <1>2, <1>3 DEF Inv, Types, Present
<1>5. \A c \in Copies : (Faithful(c) => Faithful(c)') /\ (Current(c) => Current(c)')
  BY <1>1 DEF Faithful, Current
<1>6. CacheInv' BY <1>1, <1>3, <1>5 DEF CacheInv
<1>7. SeenInv'
  <2> SUFFICES ASSUME NEW u \in fin PROVE cache'[place[u]].uid = u
    BY <1>1 DEF SeenInv
  <2>1. OnePerNamespace /\ u \in Present /\ place[u] \in Namespaces
    BY DEF Inv, Types, Present
  <2>2. Stored(place[u]) = [uid |-> u, life |-> state[u],
                            fin |-> IF u \in fin THEN "yes" ELSE "no"]
    BY <2>1, StoredPresent
  <2> QED BY SMT, <1>1, <2>1, <2>2
<1> QED BY <1>1, <1>2, <1>4, <1>6, <1>7 DEF Inv, OnePerNamespace, OneActive, NoOrphans

--------------------------------------------------------------------------
(* The theorems.                                                           *)

LEMMA InvInit == Init => Inv
<1> SUFFICES ASSUME Init PROVE Inv
  OBVIOUS
<1>1. Present = {} BY DEF Init, Present
<1>2. Types BY <1>1 DEF Init, Types, States, Copies, NoCR
<1>3. CacheInv /\ WorkerInv
  BY DEF Init, CacheInv, WorkerInv, Faithful, Current, NoCR
<1> QED BY <1>1, <1>2, <1>3
        DEF Init, Inv, OnePerNamespace, SeenInv, OneActive, NoOrphans

LEMMA InvStep == ASSUME Inv, [Next]_vars PROVE Inv'
<1>1. CASE UNCHANGED vars
  BY SMT, <1>1 DEF vars, Inv, Types, Present, OnePerNamespace, CacheInv, SeenInv, WorkerInv,
              OneActive, NoOrphans, Faithful, Current
<1>2. CASE Step
  BY <1>2, AuthorizeStep, AddStep, RereadStep, FinishStep, RemoveStep, DeployStep,
     CleanUpStep DEF Step
<1> QED BY <1>1, <1>2, HandleStep, PersistStep, DeleteStep, SyncStep, ReconcileStep,
           RestartStep DEF Next

\* The inductive invariant of the singleton protocol holds of every behaviour of
\* Reconcile, the admission webhook and the API server.
THEOREM InvAlways == Spec => []Inv
BY InvInit, InvStep, PTL DEF Spec

\* For any number of CRs, namespaces, objects and restarts: authorizeSingleton
\* and the finalizer never let two CRs be active.
THEOREM AtMostOneActive == Spec => []OneActive
<1>1. Inv => OneActive BY DEF Inv
<1> QED BY <1>1, InvAlways, PTL

\* Likewise: no cluster-scoped object outlives the CR it was deployed for.
THEOREM NothingOrphaned == Spec => []NoOrphans
<1>1. Inv => NoOrphans BY DEF Inv
<1> QED BY <1>1, InvAlways, PTL

\* Likewise: runFinalizerCleanup deletes objects of terminating CRs only.
THEOREM SuccessorsSafe == Spec => SuccessorUntouched
<1>1. ASSUME Inv, [Next]_vars, NEW o \in Objects, obj[o] # None, obj'[o] = None
      PROVE  state[obj[o]] = "terminating"
  <2>1. obj' # obj BY <1>1
  <2>2. CASE \E p \in Objects : Deploy(p)
    <3>1. PICK p \in Objects : Deploy(p) BY <2>2
    <3>2. obj' = [obj EXCEPT ![p] = kn.uid] /\ pc = "deploy" BY <2>1, <3>1 DEF Deploy
    <3>3. kn.uid # None BY <1>1, <3>2 DEF Inv, WorkerInv
    <3> QED BY <1>1, <3>2, <3>3 DEF Inv, Types
  <2>3. CASE \E p \in Objects : CleanUp(p)
    <3>1. PICK p \in Objects : CleanUp(p) BY <2>3
    <3>2. pc = "cleanup" /\ obj' # obj BY <2>1, <3>1 DEF CleanUp
    <3>3. obj' = [obj EXCEPT ![p] = None] /\ ResourceOwnershipOK(p) BY <3>1, <3>2 DEF CleanUp
    <3>4. p = o BY <1>1, <3>3 DEF Inv, Types
    <3>5. obj[o] \in fin /\ place[obj[o]] = place[kn.uid]
      BY <1>1, <3>3, <3>4 DEF Inv, NoOrphans, ResourceOwnershipOK
    <3>6. obj[o] = kn.uid /\ kn.life = "terminating" /\ kn.uid # None /\ Faithful(kn)
      BY <1>1, <3>2, <3>5 DEF Inv, WorkerInv
    <3> QED BY <1>1, <3>5, <3>6 DEF Inv, Types, Present, Faithful
  <2> QED
    BY <1>1, <2>1, <2>2, <2>3
       DEF Next, Step, vars, Handle, Persist, DeleteCR, SyncCache, Reconcile,
           authorizeSingleton, AddFinalizer, Reread, Finish, RemoveFinalizer, Restart
<1>2. Inv /\ [Next]_vars
        => [\A o \in Objects : obj[o] # None /\ obj'[o] = None
                                  => state[obj[o]] = "terminating"]_vars
  BY <1>1
<1> QED BY <1>2, InvAlways, PTL DEF Spec, SuccessorUntouched

\* Every variable of the singleton protocol keeps its type.
THEOREM TypeCorrect == Spec => []TypeOK
<1> DEFINE Rest == /\ pc \in {"idle", "authorize", "addFinalizer", "deploy", "cleanup"}
                   /\ knRV \in {"current", "stale"} /\ todo \subseteq Objects
                   /\ crashes \in 0 .. MaxCrashes
<1>1. Init => Rest
  BY SMT, ConstantAssumption DEF Init
<1>2. Inv /\ Rest /\ [Next]_vars => Rest'
  <2> SUFFICES ASSUME Inv, Rest, [Next]_vars PROVE Rest'
    OBVIOUS
  <2> USE ConstantAssumption
  <2>0. \A n \in Namespaces : cacheRV[n] \in {"current", "stale"}
    BY DEF Inv, Types
  <2>1. ASSUME NEW u \in UIDs, Handle(u) \/ Persist(u) \/ DeleteCR(u) PROVE Rest'
    BY <2>1 DEF Handle, Persist, DeleteCR, Touch
  <2>2. ASSUME NEW n \in Namespaces, SyncCache(n) \/ Reconcile(n) PROVE Rest'
    BY <2>0, <2>2 DEF SyncCache, Reconcile
  <2>3. CASE authorizeSingleton BY <2>3 DEF authorizeSingleton, Activate, Idle
  <2>4. CASE AddFinalizer \/ Finish \/ RemoveFinalizer
    BY <2>4 DEF AddFinalizer, Finish, RemoveFinalizer, Idle
  <2>5. CASE Reread
    <3>1. kn.uid # None /\ kn \in Copies /\ place \in [UIDs -> Namespaces]
      BY <2>5 DEF Reread, Inv, WorkerInv, Types
    <3>2. place[kn.uid] \in Namespaces
      BY <3>1 DEF Copies
    <3> QED BY <2>0, <2>5, <3>2 DEF Reread, Idle
  <2>6. ASSUME NEW o \in Objects, Deploy(o) \/ CleanUp(o) PROVE Rest'
    BY <2>6 DEF Deploy, CleanUp, Idle
  <2>7. CASE Restart BY SMT, <2>7 DEF Restart, Idle
  <2>8. CASE UNCHANGED vars BY <2>8 DEF vars
  <2> QED BY <2>1, <2>2, <2>3, <2>4, <2>5, <2>6, <2>7, <2>8 DEF Next, Step
<1>3. Inv /\ Rest => TypeOK
  BY DEF Inv, Types, TypeOK, States
<1> QED BY <1>1, <1>2, <1>3, InvAlways, PTL DEF Spec
=============================================================================
