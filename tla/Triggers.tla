------------------------------ MODULE Triggers ------------------------------
(***************************************************************************)
(* What makes the operator look again: SetupWithManager, the functions     *)
(* that map an event to the CR, the work queue and the requeue timers.     *)
(*                                                                         *)
(* Nearly everything a pass depends on is an object that the operator does  *)
(* not own.  An informer updates its cache and then announces the change   *)
(* to each registered watch; a watch runs its mapping function later, on   *)
(* the CR as it is then, and queues the CR's key or drops the event for     *)
(* good.  Whatever no watch covers has to wait for the timer that a pass   *)
(* leaves behind.                                                          *)
(*                                                                         *)
(* References of the CR to Secrets and ConfigMaps are called slots.  An    *)
(* object is its version, 0 when it is missing: what makes its content     *)
(* valid is left out, a missing object stands for an invalid one.          *)
(***************************************************************************)
EXTENDS Naturals

CONSTANTS Secrets, ConfigMaps,   \* names of objects that a CR may refer to
          Slots,                 \* references that are modelled
          Specs,                 \* specs an administrator may write
          Present,               \* sets of objects that may exist before the CR
          None, NoCR,            \* no reference; no CR in the cache
          MaxVersion,            \* bound: versions of an object
          MaxEvents              \* bound: edits, changes, failures and restarts

Objects == Secrets \cup ConfigMaps

\* The place of a reference in phaseValidate, which stops at the first that
\* fails.
Rank ==
  [auditKey |-> 1, auditState |-> 2, postgresql |-> 3, valkey |-> 4,
   policy |-> 5, llm |-> 6, fleetOAuth2 |-> 7, telemetry |-> 8, mcpGateway |-> 9,
   fleetToken |-> 10, monitoringCA |-> 11, internalCA |-> 12, ambientTrust |-> 13]

Validating == DOMAIN Rank

\* Tokens that phaseRunning only reports on.
Reported == {"ansibleToken", "alertManagerToken"}

Precreated == {"policy", "llm", "fleetOAuth2"}

\* References whose content the pass carries into workloads and conditions.
Carried ==
  {"postgresql", "valkey", "signing", "telemetry", "mcpGateway", "monitoringCA",
   "internalCA", "ambientTrust"} \cup Reported

InConfigMap == {"auditState", "policy", "ambientTrust"}

SpecType ==
  {c \in [ref : [Slots -> Objects \cup {None}], features : SUBSET {"network", "fleet", "gateway"}] :
     \A s \in Slots : c.ref[s] \in {None} \cup IF s \in InConfigMap THEN ConfigMaps ELSE Secrets}

CRType == [spec : SpecType, finalizers : SUBSET {"kubernaut"},
           blocked : Slots \cup {"none", "unknown"}]

ASSUME TriggersAssumption ==
  /\ Slots \subseteq Validating \cup Carried
  /\ Specs \subseteq SpecType /\ Present \subseteq SUBSET Objects
  /\ Secrets \cap ConfigMaps = {} /\ None \notin Objects
  /\ NoCR \notin CRType /\ "kubernaut" \notin Objects
  /\ MaxVersion \in Nat \ {0} /\ MaxEvents \in Nat

VARIABLES cr, crCache,      \* the CR; the manager's cached copy
          live, cache,      \* version of every object; the cached one
          unseen,           \* what has changed since the cache's copy
          notices,          \* announced changes whose watch has not run yet
          queue,            \* the CR's key: ready, delayed after an error or by RequeueAfter
          pc, kn, todo,     \* the pass, the CR it works with, slots to read
          applied,          \* version of each slot in workloads and conditions
          dropped,          \* history: objects whose event was lost since the last pass began
          events

world == <<live, cache>>
pass  == <<pc, kn, todo>>
vars  == <<cr, crCache, world, unseen, notices, queue, pass, applied, dropped, events>>

-----------------------------------------------------------------------------
(* References.                                                             *)

\* A slot that the CR uses: its feature is on and it names an object.
Used(c, s) ==
  /\ c.ref[s] # None
  /\ s \in {"telemetry", "ambientTrust"} => "network" \in c.features
  /\ s \in {"mcpGateway", "fleetToken", "fleetOAuth2"} => "fleet" \in c.features

Refers(c, S, o) == \E s \in S \cap Slots : Used(c, s) /\ c.ref[s] = o

telemetrySecretReferenced(c, o) == Refers(c, {"telemetry"}, o)

\* Only network telemetry makes the ambient CA worth watching.
ambientTrustSecretReferenced(c, o) == "network" \in c.features /\ Refers(c, {"internalCA"}, o)

monitoringTLSSecretReferenced(c, o) == Refers(c, {"monitoringCA"}, o)

fleetTrustSecretReferenced(c, o) == "fleet" \in c.features /\ Refers(c, {"mcpGateway"}, o)

precreatedConfigurationReferences(c) == {c.ref[s] : s \in {t \in Precreated \cap Slots : Used(c, t)}}

-----------------------------------------------------------------------------
(* Watches and their mapping functions.                                    *)

\* Mutant: a CA that several components share is not mapped.
telemetryLanesOnly(c, o) == telemetrySecretReferenced(c, o)

telemetrySecretToKubernaut(c, o) ==
  \/ telemetrySecretReferenced(c, o)
  \/ ambientTrustSecretReferenced(c, o)
  \/ monitoringTLSSecretReferenced(c, o)

fleetTrustSecretToKubernaut(c, o) == fleetTrustSecretReferenced(c, o)

\* Mapping and validation share one collector of references.
precreatedConfigurationToKubernaut(c, o) == o \in precreatedConfigurationReferences(c)

auditHashKeyRequests(c, o) == Refers(c, {"auditKey"}, o)

auditHashKeyStateToKubernaut(c, o) == Refers(c, {"auditState"}, o)

dataStorageSigningSecretToKubernaut(c, o) == Refers(c, {"signing"}, o)

byoDependencySecretToKubernaut(c, o) == Refers(c, {"postgresql", "valkey"}, o)

telemetryAmbientConfigMapToKubernaut(c, o) == "network" \in c.features /\ Refers(c, {"ambientTrust"}, o)

Maps(w, c, o) ==
  \/ w = "telemetry" /\ telemetrySecretToKubernaut(c, o)
  \/ w = "fleetTrust" /\ fleetTrustSecretToKubernaut(c, o)
  \/ w = "precreated" /\ precreatedConfigurationToKubernaut(c, o)
  \/ w = "auditHashKey" /\ auditHashKeyRequests(c, o)
  \/ w = "signing" /\ dataStorageSigningSecretToKubernaut(c, o)
  \/ w = "byo" /\ byoDependencySecretToKubernaut(c, o)
  \/ w = "ambient" /\ telemetryAmbientConfigMapToKubernaut(c, o)
  \/ w = "auditState" /\ auditHashKeyStateToKubernaut(c, o)

\* The watches of an object, without those that no spec makes use of.
Watches ==
  [o \in Objects |->
    {w \in IF o \in Secrets
           THEN {"telemetry", "fleetTrust", "precreated", "auditHashKey", "signing", "byo"}
           ELSE {"ambient", "precreated", "auditState"} :
       \E c \in Specs : Maps(w, c, o)}]

\* These list the CR from the cache, the others from the API server.
Cached == {"telemetry", "ambient"}

-----------------------------------------------------------------------------
(* Administrators, informers and watches.                                  *)

Event == events < MaxEvents /\ events' = events + 1

EditCR(c) ==
  /\ c # cr.spec
  /\ Event
  /\ cr' = [cr EXCEPT !.spec = c]
  /\ unseen' = unseen \cup {"kubernaut"}
  /\ UNCHANGED <<crCache, world, notices, queue, pass, applied, dropped>>

ChangeObject(o, v) ==
  /\ v # live[o]
  /\ Event
  /\ live' = [live EXCEPT ![o] = v]
  /\ unseen' = unseen \cup {o}
  /\ UNCHANGED <<cr, crCache, cache, notices, queue, pass, applied, dropped>>

\* For() has no predicate: every change of the CR, of its status too, is
\* announced.
SyncCR ==
  /\ "kubernaut" \in unseen
  /\ crCache' = cr
  /\ unseen' = unseen \ {"kubernaut"}
  /\ notices' = notices \cup {<<"kubernaut", "for">>}
  /\ UNCHANGED <<cr, world, queue, pass, applied, dropped, events>>

SyncObject(o) ==
  /\ o \in unseen
  /\ cache' = [cache EXCEPT ![o] = live[o]]
  /\ unseen' = unseen \ {o}
  /\ notices' = notices \cup {<<o, w>> : w \in Watches[o]}
  /\ UNCHANGED <<cr, crCache, live, queue, pass, applied, dropped, events>>

\* A CR that is in no cache is listed by no cached mapping function.
Listed(w, o) ==
  IF w \in Cached THEN crCache # NoCR /\ Maps(w, crCache.spec, o) ELSE Maps(w, cr.spec, o)

Enqueued == queue' = queue \cup {"ready"}

\* The watch of n's second part runs; a key that is queued twice is taken
\* once.
Handle(n) ==
  /\ n \in notices
  /\ notices' = notices \ {n}
  /\ IF n[2] \in {"for", "owns"} \/ Listed(n[2], n[1]) THEN Enqueued ELSE UNCHANGED queue
  /\ UNCHANGED <<cr, crCache, world, unseen, pass, applied, dropped, events>>

\* The list fails: the event is dropped, except that fleet trust falls back
\* to the singleton's name in the Secret's namespace.
HandleFails(n) ==
  /\ n \in notices /\ n[2] \notin {"for", "owns"} \cup Cached
  /\ Event
  /\ notices' = notices \ {n}
  /\ IF n[2] = "fleetTrust"
     THEN Enqueued /\ UNCHANGED dropped
     ELSE /\ dropped' = IF Listed(n[2], n[1]) THEN dropped \cup {n[1]} ELSE dropped
          /\ UNCHANGED queue
  /\ UNCHANGED <<cr, crCache, world, unseen, pass, applied>>

Requeue(d) ==
  /\ d \in queue \cap {"retry", "timer"}
  /\ queue' = (queue \ {d}) \cup {"ready"}
  /\ UNCHANGED <<cr, crCache, world, unseen, notices, pass, applied, dropped, events>>

-----------------------------------------------------------------------------
(* A pass.                                                                 *)

\* Mutant: a pass starts by withdrawing the verdict of the last one.
WithdrawVerdict ==
  cr' = [cr EXCEPT !.blocked = "unknown"] /\ unseen' = unseen \cup {"kubernaut"}

\* Nothing is published before there is something to say.
KeepVerdict == UNCHANGED <<cr, unseen>>

\* The worker takes the key; a delay that is still running stays.
Dequeue == pc = "idle" /\ "ready" \in queue /\ dropped' = {}

\* Reconcile, when the cache does not have the CR: no retry.
Ignore ==
  /\ Dequeue /\ crCache = NoCR
  /\ queue' = queue \ {"ready"}
  /\ UNCHANGED <<cr, crCache, world, unseen, notices, pass, applied, events>>

\* Reconcile, when the finalizer is missing.  Success asks for no requeue:
\* the update's own event starts the next pass.
AddFinalizer ==
  /\ Dequeue /\ crCache # NoCR /\ crCache.finalizers = {}
  /\ IF "kubernaut" \notin unseen
     THEN /\ cr' = [cr EXCEPT !.finalizers = {"kubernaut"}]
          /\ unseen' = unseen \cup {"kubernaut"}
          /\ queue' = queue \ {"ready"}
     ELSE queue' = (queue \ {"ready"}) \cup {"retry"} /\ UNCHANGED <<cr, unseen>>
  /\ UNCHANGED <<crCache, world, notices, pass, applied, events>>

Begin ==
  /\ Dequeue /\ crCache # NoCR /\ crCache.finalizers # {}
  /\ queue' = queue \ {"ready"}
  /\ KeepVerdict
  /\ pc' = "validate" /\ kn' = crCache
  /\ todo' = {s \in Validating \cap Slots : Used(crCache.spec, s)}
  /\ UNCHANGED <<crCache, world, notices, applied, events>>

Return == pc' = "idle" /\ kn' = NoCR /\ todo' = {}

\* patchStatus: a merge patch of what differs from the copy the pass read.
\* One that changes nothing is no event.
patchStatus(v) ==
  IF kn.blocked = v \/ cr.blocked = v THEN UNCHANGED <<cr, unseen>>
  ELSE cr' = [cr EXCEPT !.blocked = v] /\ unseen' = unseen \cup {"kubernaut"}

\* setConditionAndRequeue after the first reference that fails.
\* Missing pre-created references are reported together in the code; the first
\* one found stands for the list.
ReadReference(s) ==
  /\ pc = "validate" /\ s \in todo /\ \A t \in todo : Rank[s] <= Rank[t]
  /\ IF cache[kn.spec.ref[s]] = 0
     THEN patchStatus(s) /\ queue' = queue \cup {"timer"} /\ Return
     ELSE todo' = todo \ {s} /\ UNCHANGED <<cr, unseen, queue, pc, kn>>
  /\ UNCHANGED <<crCache, world, notices, applied, dropped, events>>

\* phaseValidate's last patch; reconcilePhases reads the CR again.
Validated ==
  /\ pc = "validate" /\ todo = {}
  /\ patchStatus("none")
  /\ pc' = "deploy" /\ kn' = crCache
  /\ UNCHANGED <<crCache, world, notices, queue, todo, applied, dropped, events>>

\* Mutant: a token that was accepted once is not looked at again.
ContentOnce(c) ==
  [s \in Carried \cap Slots |->
     IF ~Used(c, s) THEN 0
     ELSE IF s \in Reported /\ applied[s] # 0 THEN applied[s] ELSE cache[c.ref[s]]]

\* What the pass derives from the cached objects.
Content(c) == [s \in Carried \cap Slots |-> IF Used(c, s) THEN cache[c.ref[s]] ELSE 0]

Owned == {<<"owned", "owns">>}

\* deployRBAC ensures a ServiceAccount for every component, and
\* cleanupDisabledGateway deletes the one of a gateway that is off, at the end
\* of the same pass.
AccountEvents == IF "gateway" \in kn.spec.features THEN {} ELSE Owned

\* phaseDeploy and phaseRunning: a missing object that is carried into a
\* workload is an error, a missing token only a condition; changed workloads
\* come back as events of owned objects.  A pass that fails has created the
\* gateway's account if the pass before deleted it.
Deploy ==
  /\ pc = "deploy"
  /\ IF \E s \in (Carried \ (Reported \cup {"signing"})) \cap Slots :
          Used(kn.spec, s) /\ cache[kn.spec.ref[s]] = 0
     THEN /\ UNCHANGED applied
          /\ \E N \in {{}, AccountEvents} : notices' = notices \cup N
          /\ queue' = queue \cup {"retry"}
     ELSE /\ applied' = Content(kn.spec)
          /\ notices' = notices \cup AccountEvents \cup IF applied' # applied THEN Owned ELSE {}
          /\ queue' = queue \cup {"timer"}
  /\ Return
  /\ UNCHANGED <<cr, crCache, world, unseen, dropped, events>>

\* Any call of a pass fails, or the migration is not over yet: the key comes
\* back after a delay.
GiveUp ==
  /\ pc # "idle"
  /\ Event
  /\ queue' = queue \cup {"retry"}
  /\ Return
  /\ UNCHANGED <<cr, crCache, world, unseen, notices, applied, dropped>>

\* The operator stops and starts: queue, delays and pass are gone, the caches
\* are filled afresh and announce the CR.
Restart ==
  /\ Event
  /\ crCache' = cr /\ cache' = live /\ unseen' = {}
  /\ notices' = {<<"kubernaut", "for">>}
  /\ queue' = {} /\ dropped' = {}
  /\ Return
  /\ UNCHANGED <<cr, live, applied>>

-----------------------------------------------------------------------------
\* A CR that was just created, before the informers know of it.
Init ==
  /\ cr \in [spec : Specs, finalizers : {{}}, blocked : {"unknown"}]
  /\ crCache = NoCR
  /\ \E P \in Present : live = [o \in Objects |-> IF o \in P THEN 1 ELSE 0]
  /\ cache = live
  /\ unseen = {"kubernaut"} /\ notices = {} /\ queue = {}
  /\ pc = "idle" /\ kn = NoCR /\ todo = {}
  /\ applied = [s \in Carried \cap Slots |-> 0]
  /\ dropped = {} /\ events = 0

Inform == SyncCR \/ \E o \in Objects : SyncObject(o)
Dispatch == \E n \in notices : Handle(n)
Delays == \E d \in queue : Requeue(d)
Worker ==
  \/ Ignore \/ AddFinalizer \/ Begin \/ Validated \/ Deploy
  \/ \E s \in todo : ReadReference(s)

Next ==
  \/ \E c \in Specs : EditCR(c)
  \/ \E o \in Objects, v \in 0..MaxVersion : ChangeObject(o, v)
  \/ Inform \/ Dispatch \/ Delays \/ Worker
  \/ \E n \in notices : HandleFails(n)
  \/ GiveUp \/ Restart

Spec == Init /\ [][Next]_vars

\* Informers, watches, delayed keys and the worker each keep going.
FairSpec ==
  Spec /\ WF_vars(Inform) /\ WF_vars(Dispatch) /\ WF_vars(Delays) /\ WF_vars(Worker)

-----------------------------------------------------------------------------
TypeOK ==
  /\ cr \in CRType /\ crCache \in CRType \cup {NoCR} /\ kn \in CRType \cup {NoCR}
  /\ live \in [Objects -> 0..MaxVersion] /\ cache \in [Objects -> 0..MaxVersion]
  /\ unseen \subseteq Objects \cup {"kubernaut"} /\ queue \subseteq {"ready", "retry", "timer"}
  /\ pc \in {"idle", "validate", "deploy"} /\ (pc # "idle" => kn # NoCR)
  /\ todo \in SUBSET (Validating \cap Slots)
  /\ applied \in [Carried \cap Slots -> 0..MaxVersion]

\* Nothing is on its way: what the operator knows is all it will be told.
Rest == unseen = {} /\ notices = {} /\ queue \subseteq {"timer"} /\ pc = "idle"

\* References that nobody watches: tokens, and the internal CA of a CR
\* without network telemetry.
Unwatched(c, s) ==
  s \in {"fleetToken"} \cup Reported \/ (s = "internalCA" /\ "network" \notin c.features)

Covered(s) == ~Unwatched(cr.spec, s) /\ cr.spec.ref[s] \notin dropped

Missing(s) == live[cr.spec.ref[s]] = 0

\* No wake-up is lost.  When the operator is at rest, before any timer, and
\* a reference is one that SetupWithManager watches and whose last event was
\* not dropped: if it blocks the CR then it is missing; if it is missing then
\* it blocks the CR, or one before it does; and if nothing blocks the CR, the
\* workloads carry the object's current version.
NoLostWakeup ==
  Rest => \A s \in Slots : Used(cr.spec, s) /\ Covered(s) =>
    /\ cr.blocked = s => Missing(s)
    /\ s \in Validating /\ Missing(s) =>
         \E t \in Validating : cr.blocked = t /\ Rank[t] <= Rank[s]
    /\ cr.blocked = "none" /\ s \in Carried => applied[s] = live[cr.spec.ref[s]]

\* The verdict and the workloads that the CR and the objects call for now.
Accurate ==
  LET Bad == {s \in Validating \cap Slots : Used(cr.spec, s) /\ Missing(s)} IN
  IF Bad = {} THEN /\ cr.blocked = "none"
                   /\ \A s \in Carried \cap Slots :
                        applied[s] = IF Used(cr.spec, s) THEN live[cr.spec.ref[s]] ELSE 0
  ELSE cr.blocked \in Bad /\ \A s \in Bad : Rank[cr.blocked] <= Rank[s]

\* Whatever is watched or not, and whichever events were lost, the operator
\* ends up with the verdict and the workloads that are called for: the first
\* pass follows from the finalizer's own event, the rest from the timers.
EventuallyAccurate == <>[]Accurate

\* The operator's own writes do not keep waking it up: in the end only
\* timers start passes.  This is said of a CR whose gateway is on: with the
\* gateway off each pass creates and deletes a ServiceAccount, which
\* SetupWithManager watches (Owns), and so causes the next one.
EventuallyCalm == <>[]("gateway" \in cr.spec.features => notices = {})
=============================================================================
