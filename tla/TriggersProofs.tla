--------------------------- MODULE TriggersProofs ---------------------------
(***************************************************************************)
(* No wake-up is lost, for any number of objects, specs and events.        *)
(*                                                                         *)
(* NoLostWakeup speaks of the operator at rest only.  The invariant says   *)
(* what holds on the way there: unless a pass is bound to begin, every      *)
(* reference is either accounted for by the verdict, the workloads or the  *)
(* pass that is running, or its event is still on its way to the queue.    *)
(***************************************************************************)
EXTENDS Triggers, TLAPS

\* A step is for Zenon, unless it names another prover.
USE Zenon

CRs == [spec : Specs, finalizers : SUBSET {"kubernaut"}, blocked : Slots \cup {"none", "unknown"}]

Types ==
  /\ cr \in CRs /\ crCache \in CRs \cup {NoCR} /\ kn \in CRs \cup {NoCR}
  /\ live \in [Objects -> Nat] /\ cache \in [Objects -> Nat]
  /\ pc \in {"idle", "validate", "deploy"}
  /\ todo \subseteq Validating \cap Slots
  /\ applied \in [Carried \cap Slots -> Nat]

\* Caches differ from the cluster only where a change has not been seen, and
\* a pass works on the CR that it took from the cache.
Copies ==
  /\ "kubernaut" \notin unseen => crCache = cr
  /\ \A o \in Objects : o \notin unseen => cache[o] = live[o]
  /\ pc # "idle" => crCache # NoCR /\ kn # NoCR
  /\ pc = "validate" => \A s \in todo : Used(kn.spec, s)

\* A pass is bound to begin.
Awake ==
  \/ "kubernaut" \in unseen
  \/ <<"kubernaut", "for">> \in notices
  \/ "ready" \in queue
  \/ "retry" \in queue

Watched(s) == Used(cr.spec, s) /\ ~Unwatched(cr.spec, s)

Known(s) == cache[cr.spec.ref[s]]

AllWatches == {"telemetry", "fleetTrust", "precreated", "auditHashKey", "signing", "byo",
               "ambient", "auditState"}

\* The event of the object of slot s has not been mapped yet, or was lost.
InTransit(s) ==
  \/ cr.spec.ref[s] \in dropped
  \/ \E w \in AllWatches :
       <<cr.spec.ref[s], w>> \in notices /\ Maps(w, cr.spec, cr.spec.ref[s])

\* What the property asks of a slot, in terms of the cache.
Good(s) ==
  /\ cr.blocked = s => Known(s) = 0
  /\ s \in Validating /\ Known(s) = 0 => \E t \in Validating : cr.blocked = t /\ Rank[t] <= Rank[s]
  /\ cr.blocked = "none" /\ s \in Carried => applied[s] = Known(s)

Idle == pc = "idle" /\ ~Awake => \A s \in Slots : Watched(s) => InTransit(s) \/ Good(s)

Passing ==
  pc # "idle" /\ ~Awake =>
    /\ kn = cr
    /\ pc = "deploy" => cr.blocked = "none" /\ todo = {}
    /\ \A s \in Slots \cap Validating : Watched(s) /\ s \notin todo => InTransit(s) \/ Known(s) # 0

Inv == Types /\ Copies /\ Idle /\ Passing

\* Every reference that is not one of the exceptions is mapped by a watch of
\* its object's kind: the mapping functions cover what validation reads.
LEMMA Mapped ==
  ASSUME NEW c \in Specs, NEW s \in Slots, Used(c, s)
  PROVE  /\ c.ref[s] \in Objects
         /\ ~Unwatched(c, s) => \E w \in Watches[c.ref[s]] \cap AllWatches : Maps(w, c, c.ref[s])
<1> DEFINE o == c.ref[s]
<1>1. c \in SpecType
  BY TriggersAssumption
<1>2. o \in IF s \in InConfigMap THEN ConfigMaps ELSE Secrets
  BY <1>1 DEF SpecType, Used
<1>3. o \in Objects
  BY <1>2 DEF Objects
<1>4. s \in {"auditKey", "auditState", "postgresql", "valkey", "policy", "llm", "fleetOAuth2",
             "telemetry", "mcpGateway", "fleetToken", "monitoringCA", "internalCA",
             "ambientTrust", "signing"} \cup Reported
  BY TriggersAssumption DEF Validating, Rank, Carried
<1>5. ASSUME ~Unwatched(c, s)
      PROVE  \E w \in IF o \in Secrets
                      THEN {"telemetry", "fleetTrust", "precreated", "auditHashKey", "signing", "byo"}
                      ELSE {"ambient", "precreated", "auditState"} : Maps(w, c, o)
  <2>1. \A S : s \in S => Refers(c, S, o)
    BY DEF Refers
  <2>2. CASE s = "auditKey"
    <3>1. Maps("auditHashKey", c, o)
      BY <2>1, <2>2 DEF Maps, auditHashKeyRequests
    <3> QED BY <3>1, <1>2, <2>2 DEF InConfigMap
  <2>3. CASE s = "auditState"
    <3>1. Maps("auditState", c, o)
      BY <2>1, <2>3 DEF Maps, auditHashKeyStateToKubernaut
    <3> QED BY <3>1, <1>2, <2>3, TriggersAssumption DEF InConfigMap
  <2>4. CASE s \in {"postgresql", "valkey"}
    <3>1. Maps("byo", c, o)
      BY <2>1, <2>4 DEF Maps, byoDependencySecretToKubernaut
    <3> QED BY <3>1, <1>2, <2>4 DEF InConfigMap
  <2>5. CASE s \in Precreated
    <3>1. o \in precreatedConfigurationReferences(c)
      BY <2>5 DEF precreatedConfigurationReferences
    <3>2. Maps("precreated", c, o)
      BY <3>1 DEF Maps, precreatedConfigurationToKubernaut
    <3> QED BY <3>2
  <2>6. CASE s \in {"telemetry", "monitoringCA", "internalCA"}
    <3>1. telemetrySecretToKubernaut(c, o)
      BY <2>1, <2>6, <1>5 DEF telemetrySecretToKubernaut, telemetrySecretReferenced,
         ambientTrustSecretReferenced, monitoringTLSSecretReferenced, Unwatched
    <3>2. Maps("telemetry", c, o)
      BY <3>1 DEF Maps
    <3> QED BY <3>2, <1>2, <2>6 DEF InConfigMap
  <2>7. CASE s = "mcpGateway"
    <3>1. Maps("fleetTrust", c, o)
      BY <2>1, <2>7 DEF Maps, fleetTrustSecretToKubernaut, fleetTrustSecretReferenced, Used
    <3> QED BY <3>1, <1>2, <2>7 DEF InConfigMap
  <2>8. CASE s = "ambientTrust"
    <3>1. Maps("ambient", c, o)
      BY <2>1, <2>8 DEF Maps, telemetryAmbientConfigMapToKubernaut, Used
    <3> QED BY <3>1, <1>2, <2>8, TriggersAssumption DEF InConfigMap
  <2>9. CASE s = "signing"
    <3>1. Maps("signing", c, o)
      BY <2>1, <2>9 DEF Maps, dataStorageSigningSecretToKubernaut
    <3> QED BY <3>1, <1>2, <2>9 DEF InConfigMap
  <2> QED BY <1>4, <1>5, <2>2, <2>3, <2>4, <2>5, <2>6, <2>7, <2>8, <2>9 DEF Precreated, Unwatched
<1> QED BY <1>3, <1>5 DEF Watches, AllWatches
\* What a step that leaves the CR, the cache and the workloads alone, and
\* takes no notice away, leaves as it was.
LEMMA Kept ==
  ASSUME UNCHANGED <<cr, cache, applied>>, notices \subseteq notices', dropped \subseteq dropped',
         NEW s
  PROVE  /\ Watched(s)' <=> Watched(s)
         /\ InTransit(s) => InTransit(s)'
         /\ Good(s)' <=> Good(s)
         /\ Known(s)' = Known(s)
<1>1. Watched(s)' <=> Watched(s)
  BY DEF Watched, Used, Unwatched
<1>2. InTransit(s) => InTransit(s)'
  <2>1. \A w, c, o : Maps(w, c, o)' <=> Maps(w, c, o)
    BY SMT DEF Maps, telemetrySecretToKubernaut, fleetTrustSecretToKubernaut,
       precreatedConfigurationToKubernaut, auditHashKeyRequests, dataStorageSigningSecretToKubernaut,
       byoDependencySecretToKubernaut, telemetryAmbientConfigMapToKubernaut,
       auditHashKeyStateToKubernaut
  <2> QED BY <2>1 DEF InTransit
<1>3. Known(s)' = Known(s)
  BY DEF Known
<1>4. Good(s)' <=> Good(s)
  BY <1>3 DEF Good
<1> QED BY <1>1, <1>2, <1>3, <1>4

LEMMA InitInv == Init => Inv
<1> SUFFICES ASSUME Init PROVE Inv
  OBVIOUS
<1>1. Types
  <2>1. cr \in CRs
    BY DEF Init, CRs
  <2>2. live \in [Objects -> Nat]
    BY SMT DEF Init
  <2> QED BY <2>1, <2>2 DEF Init, Types
<1>2. Copies
  BY DEF Init, Copies
<1>3. Idle /\ Passing
  BY DEF Init, Idle, Passing, Awake
<1> QED BY <1>1, <1>2, <1>3 DEF Inv

\* A step that ends with a pass bound to begin has only types and copies to
\* preserve.
LEMMA AwakeSuffices ==
  ASSUME Types', Copies', Awake'
  PROVE  Inv'
BY DEF Inv, Idle, Passing

LEMMA EditCRKeeps ==
  ASSUME Inv, NEW c \in Specs, EditCR(c)
  PROVE  Inv'
<1>1. Types'
  BY DEF Inv, Types, EditCR, world, pass, CRs
<1>2. Copies'
  BY DEF Inv, Copies, EditCR, world, pass, Used
<1>3. Awake'
  BY DEF EditCR, Awake
<1> QED BY <1>1, <1>2, <1>3, AwakeSuffices

LEMMA ChangeObjectKeeps ==
  ASSUME Inv, NEW o \in Objects, NEW v \in 0..MaxVersion, ChangeObject(o, v)
  PROVE  Inv'
<1>1. Types'
  BY SMT DEF Inv, Types, ChangeObject, world, pass
<1>2. Copies'
  BY DEF Inv, Types, Copies, ChangeObject, world, pass, Used
<1>4. Awake => Awake'
  BY DEF ChangeObject, Awake
<1>5. \A s : /\ Watched(s)' <=> Watched(s)
             /\ InTransit(s) => InTransit(s)'
             /\ Good(s)' <=> Good(s)
             /\ Known(s)' = Known(s)
  BY Kept DEF ChangeObject
<1>6. Idle'
  BY <1>4, <1>5 DEF Inv, Idle, ChangeObject, pass
<1>7. Passing'
  BY <1>4, <1>5 DEF Inv, Passing, ChangeObject, pass
<1> QED BY <1>1, <1>2, <1>6, <1>7 DEF Inv

LEMMA SyncCRKeeps ==
  ASSUME Inv, SyncCR
  PROVE  Inv'
<1>1. Types'
  BY DEF Inv, Types, SyncCR, world, pass
<1>2. cr # NoCR
  BY TriggersAssumption DEF Inv, Types, CRs, CRType
<1>3. Copies'
  BY <1>2, TriggersAssumption DEF Inv, Copies, SyncCR, world, pass, Used
<1>4. Awake'
  BY DEF SyncCR, Awake
<1> QED BY <1>1, <1>3, <1>4, AwakeSuffices

\* The informer announces the new version to every watch, and one of them
\* maps it.
LEMMA SyncObjectKeeps ==
  ASSUME Inv, NEW o \in Objects, SyncObject(o)
  PROVE  Inv'
<1>1. Types'
  BY DEF Inv, Types, SyncObject, world, pass
<1>2. Copies'
  BY TriggersAssumption DEF Inv, Types, Copies, SyncObject, world, pass, Used
<1>3. Awake => Awake'
  BY TriggersAssumption DEF SyncObject, Awake
<1>4. cr' = cr /\ applied' = applied /\ dropped' = dropped /\ notices \subseteq notices'
  BY DEF SyncObject
<1>5. \A s : Watched(s)' <=> Watched(s)
  BY <1>4 DEF Watched, Used, Unwatched
<1>6. ASSUME NEW s \in Slots, Watched(s)
      PROVE  InTransit(s)' \/ (Known(s)' = Known(s) /\ (InTransit(s) => InTransit(s)'))
  <2>1. CASE cr.spec.ref[s] = o
    <3>1. PICK w \in Watches[o] \cap AllWatches : Maps(w, cr.spec, o)
      BY <1>6, <2>1, Mapped DEF Watched, Inv, Types, CRs
    <3>2. <<o, w>> \in notices'
      BY <3>1 DEF SyncObject
    <3>3. \A x, c, y : Maps(x, c, y)' <=> Maps(x, c, y)
      BY SMT DEF Maps, telemetrySecretToKubernaut, fleetTrustSecretToKubernaut,
         precreatedConfigurationToKubernaut, auditHashKeyRequests, dataStorageSigningSecretToKubernaut,
         byoDependencySecretToKubernaut, telemetryAmbientConfigMapToKubernaut,
         auditHashKeyStateToKubernaut
    <3> QED BY <1>4, <2>1, <3>1, <3>2, <3>3 DEF InTransit
  <2>2. CASE cr.spec.ref[s] # o
    <3>1. Known(s)' = Known(s)
      BY SMT, <1>4, <2>2 DEF Known, SyncObject, Inv, Types
    <3>2. InTransit(s) => InTransit(s)'
      BY <1>4 DEF InTransit, Maps, telemetrySecretToKubernaut, fleetTrustSecretToKubernaut,
         precreatedConfigurationToKubernaut, auditHashKeyRequests, dataStorageSigningSecretToKubernaut,
         byoDependencySecretToKubernaut, telemetryAmbientConfigMapToKubernaut,
         auditHashKeyStateToKubernaut
    <3> QED BY <3>1, <3>2
  <2> QED BY <2>1, <2>2
<1>7. \A s : Known(s)' = Known(s) => (Good(s)' <=> Good(s))
  BY <1>4 DEF Good
<1>8. Idle'
  BY <1>3, <1>5, <1>6, <1>7 DEF Inv, Idle, SyncObject, pass
<1>9. Passing'
  BY <1>3, <1>4, <1>5, <1>6 DEF Inv, Passing, SyncObject, pass
<1> QED BY <1>1, <1>2, <1>8, <1>9 DEF Inv

\* A watch that maps the event queues the key; one that does not was not the
\* one that the reference is waiting for.
LEMMA HandleKeeps ==
  ASSUME Inv, NEW n \in notices, Handle(n)
  PROVE  Inv'
<1>1. Types'
  BY DEF Inv, Types, Handle, world, pass
<1>2. Copies'
  BY DEF Inv, Copies, Handle, world, pass, Used
<1>3. CASE n[2] \in {"for", "owns"} \/ Listed(n[2], n[1])
  <2>1. Awake'
    BY <1>3 DEF Handle, Enqueued, Awake
  <2> QED BY <1>1, <1>2, <2>1, AwakeSuffices
<1>4. CASE ~(n[2] \in {"for", "owns"} \/ Listed(n[2], n[1]))
  <2>1. Awake => Awake'
    BY SMT, <1>4 DEF Handle, Awake
  <2>2. cr' = cr /\ cache' = cache /\ applied' = applied /\ dropped' = dropped
    BY DEF Handle, world
  <2>3. \A s : /\ Watched(s)' <=> Watched(s)
               /\ Known(s)' = Known(s)
               /\ Good(s)' <=> Good(s)
    BY <2>2 DEF Watched, Used, Unwatched, Known, Good
  <2>4. ASSUME NEW s \in Slots, ~Awake, InTransit(s)
        PROVE  InTransit(s)'
    <3>1. CASE cr.spec.ref[s] \in dropped
      BY <2>2, <3>1 DEF InTransit
    <3>2. ASSUME NEW w \in AllWatches, <<cr.spec.ref[s], w>> \in notices,
                 Maps(w, cr.spec, cr.spec.ref[s])
          PROVE  InTransit(s)'
      <4>1. crCache = cr /\ crCache # NoCR
        BY <2>4, TriggersAssumption DEF Awake, Inv, Copies, Types, CRs, CRType
      <4>2. n # <<cr.spec.ref[s], w>>
        BY SMT, <1>4, <3>2, <4>1 DEF Listed
      <4>3. <<cr.spec.ref[s], w>> \in notices'
        BY <3>2, <4>2 DEF Handle
      <4> QED BY <2>2, <3>2, <4>3 DEF InTransit, Maps, telemetrySecretToKubernaut,
                 fleetTrustSecretToKubernaut, precreatedConfigurationToKubernaut,
                 auditHashKeyRequests, dataStorageSigningSecretToKubernaut,
                 byoDependencySecretToKubernaut, telemetryAmbientConfigMapToKubernaut,
                 auditHashKeyStateToKubernaut
    <3> QED BY <2>4, <3>1, <3>2 DEF InTransit
  <2>5. Idle'
    BY <2>1, <2>3, <2>4 DEF Inv, Idle, Handle, pass
  <2>6. Passing'
    BY <2>1, <2>2, <2>3, <2>4 DEF Inv, Passing, Handle, pass
  <2> QED BY <1>1, <1>2, <2>5, <2>6 DEF Inv
<1> QED BY <1>3, <1>4

\* A failed list loses the event, and the object is on record as lost.
LEMMA HandleFailsKeeps ==
  ASSUME Inv, NEW n \in notices, HandleFails(n)
  PROVE  Inv'
<1>1. Types'
  BY DEF Inv, Types, HandleFails, world, pass
<1>2. Copies'
  BY DEF Inv, Copies, HandleFails, world, pass, Used
<1>3. CASE n[2] = "fleetTrust"
  <2>1. Awake'
    BY <1>3 DEF HandleFails, Enqueued, Awake
  <2> QED BY <1>1, <1>2, <2>1, AwakeSuffices
<1>4. CASE n[2] # "fleetTrust"
  <2>1. Awake => Awake'
    BY SMT, <1>4 DEF HandleFails, Awake
  <2>2. /\ cr' = cr /\ cache' = cache /\ applied' = applied
        /\ dropped' = IF Listed(n[2], n[1]) THEN dropped \cup {n[1]} ELSE dropped
    BY <1>4 DEF HandleFails, world
  <2>3. \A s : /\ Watched(s)' <=> Watched(s)
               /\ Known(s)' = Known(s)
               /\ Good(s)' <=> Good(s)
    BY <2>2 DEF Watched, Used, Unwatched, Known, Good
  <2>4. ASSUME NEW s \in Slots, InTransit(s)
        PROVE  InTransit(s)'
    <3>1. CASE cr.spec.ref[s] \in dropped
      BY <2>2, <3>1 DEF InTransit
    <3>2. ASSUME NEW w \in AllWatches, <<cr.spec.ref[s], w>> \in notices,
                 Maps(w, cr.spec, cr.spec.ref[s])
          PROVE  InTransit(s)'
      <4>1. CASE n = <<cr.spec.ref[s], w>>
        <5>1. n[1] = cr.spec.ref[s] /\ n[2] = w
          BY <4>1
        <5>2. Listed(n[2], n[1])
          BY <5>1, <3>2 DEF Listed, HandleFails
        <5> QED BY <2>2, <5>1, <5>2 DEF InTransit
      <4>2. CASE n # <<cr.spec.ref[s], w>>
        <5>1. <<cr.spec.ref[s], w>> \in notices'
          BY <3>2, <4>2 DEF HandleFails
        <5> QED BY <2>2, <3>2, <5>1 DEF InTransit, Maps, telemetrySecretToKubernaut,
                   fleetTrustSecretToKubernaut, precreatedConfigurationToKubernaut,
                   auditHashKeyRequests, dataStorageSigningSecretToKubernaut,
                   byoDependencySecretToKubernaut, telemetryAmbientConfigMapToKubernaut,
                   auditHashKeyStateToKubernaut
      <4> QED BY <4>1, <4>2
    <3> QED BY <2>4, <3>1, <3>2 DEF InTransit
  <2>5. Idle'
    BY <2>1, <2>3, <2>4 DEF Inv, Idle, HandleFails, pass
  <2>6. Passing'
    BY <2>1, <2>2, <2>3, <2>4 DEF Inv, Passing, HandleFails, pass
  <2> QED BY <1>1, <1>2, <2>5, <2>6 DEF Inv
<1> QED BY <1>3, <1>4

LEMMA RequeueKeeps ==
  ASSUME Inv, NEW d \in queue, Requeue(d)
  PROVE  Inv'
<1>1. Types'
  BY DEF Inv, Types, Requeue, world, pass
<1>2. Copies'
  BY DEF Inv, Copies, Requeue, world, pass, Used
<1>3. Awake'
  BY DEF Requeue, Awake
<1> QED BY <1>1, <1>2, <1>3, AwakeSuffices

\* A pass that finds no CR, or adds the finalizer, relies on the CR's event.
LEMMA IgnoreKeeps ==
  ASSUME Inv, Ignore
  PROVE  Inv'
<1>1. Types'
  BY DEF Inv, Types, Ignore, world, pass
<1>2. Copies'
  BY DEF Inv, Copies, Ignore, Dequeue, world, pass, Used
<1>3. Awake'
  BY TriggersAssumption DEF Ignore, Awake, Inv, Copies, Types, CRs, CRType
<1> QED BY <1>1, <1>2, <1>3, AwakeSuffices

LEMMA AddFinalizerKeeps ==
  ASSUME Inv, AddFinalizer
  PROVE  Inv'
<1>1. Types'
  BY DEF Inv, Types, AddFinalizer, world, pass, CRs
<1>2. Copies'
  BY DEF Inv, Copies, AddFinalizer, Dequeue, world, pass, Used
<1>3. Awake'
  BY DEF AddFinalizer, Awake
<1> QED BY <1>1, <1>2, <1>3, AwakeSuffices

\* A pass that begins has everything to read.
LEMMA BeginKeeps ==
  ASSUME Inv, Begin
  PROVE  Inv'
<1>1. Types'
  BY DEF Inv, Types, Begin, KeepVerdict, world
<1>2. Copies'
  BY DEF Inv, Copies, Begin, KeepVerdict, world, Used
<1>3. Idle'
  BY DEF Idle, Begin
<1>4. Passing'
  <2> SUFFICES ASSUME ~Awake' PROVE Passing'
    BY DEF Passing
  <2>1. kn' = cr' /\ cr' = cr
    BY DEF Begin, KeepVerdict, Awake, Inv, Copies
  <2>2. ASSUME NEW s \in Slots \cap Validating, Watched(s)'
        PROVE  s \in todo'
    BY <2>1, <2>2 DEF Begin, Watched, Used
  <2> QED BY <2>1, <2>2 DEF Passing, Begin
<1> QED BY <1>1, <1>2, <1>3, <1>4 DEF Inv

\* The status changes only together with the CR's event.
LEMMA PatchStatus ==
  ASSUME Inv, pc # "idle", NEW v \in Slots \cup {"none"}, patchStatus(v)
  PROVE  /\ cr' \in CRs /\ cr'.spec = cr.spec
         /\ "kubernaut" \notin unseen' => cr' = cr /\ "kubernaut" \notin unseen
         /\ unseen \subseteq unseen'
         /\ ~Awake /\ "kubernaut" \notin unseen' => cr.blocked = v
BY DEF patchStatus, Inv, Types, CRs, Passing

LEMMA ReadReferenceKeeps ==
  ASSUME Inv, NEW s \in todo, ReadReference(s)
  PROVE  Inv'
<1> DEFINE o == kn.spec.ref[s]
<1>1. s \in Validating \cap Slots /\ kn \in CRs /\ Used(kn.spec, s)
  BY DEF Inv, Types, Copies, ReadReference
<1>2. CASE cache[o] = 0
  <2>1. patchStatus(s)
    BY <1>2 DEF ReadReference
  <2>2. /\ cr' \in CRs /\ cr'.spec = cr.spec
        /\ "kubernaut" \notin unseen' => cr' = cr /\ "kubernaut" \notin unseen
        /\ unseen \subseteq unseen'
        /\ ~Awake /\ "kubernaut" \notin unseen' => cr.blocked = s
    BY <1>1, <2>1, PatchStatus DEF ReadReference
  <2>3. Types'
    BY <1>2, <2>2 DEF Inv, Types, ReadReference, Return, world
  <2>4. Copies'
    BY <1>2, <2>2 DEF Inv, Copies, ReadReference, Return, world
  <2>5. Passing'
    BY <1>2 DEF Passing, ReadReference, Return
  <2>6. Idle'
    <3> SUFFICES ASSUME ~Awake', NEW t \in Slots, Watched(t)'
                 PROVE  InTransit(t)' \/ Good(t)'
      BY DEF Idle
    <3>1. ~Awake /\ cr' = cr /\ cr.blocked = s
      BY <1>2, <2>2 DEF Awake, ReadReference
    <3>2. kn = cr /\ pc = "validate"
      BY <3>1 DEF Inv, Passing, ReadReference
    <3>3. /\ Watched(t)' <=> Watched(t)
          /\ InTransit(t) => InTransit(t)'
          /\ Good(t)' <=> Good(t)
      BY <1>2, <3>1, Kept DEF ReadReference, world
    <3>4. s # "none"
      BY <1>1 DEF Validating, Rank
    <3>5. ASSUME ~InTransit(t), t \in Validating, Known(t) = 0
          PROVE  Rank[s] <= Rank[t]
      <4>1. t \in todo
        BY <3>1, <3>2, <3>3, <3>5 DEF Inv, Passing
      <4> QED BY <4>1 DEF ReadReference
    <3>6. cr.blocked = t => Known(t) = 0
      BY <1>2, <3>1, <3>2 DEF Known
    <3>7. InTransit(t) \/ Good(t)
      BY <1>1, <3>1, <3>4, <3>5, <3>6 DEF Good
    <3> QED BY <3>3, <3>7
  <2> QED BY <2>3, <2>4, <2>5, <2>6 DEF Inv
<1>3. CASE cache[o] # 0
  <2>1. UNCHANGED <<cr, unseen, queue, pc, kn, crCache, live, cache, notices, applied, dropped>>
        /\ todo' = todo \ {s} /\ pc = "validate"
    BY <1>3 DEF ReadReference, world
  <2>2. Types'
    BY <2>1 DEF Inv, Types
  <2>3. Copies'
    BY <2>1 DEF Inv, Copies, Used
  <2>4. Idle'
    BY <2>1 DEF Idle
  <2>5. Passing'
    <3> SUFFICES ASSUME ~Awake' PROVE Passing'
      BY DEF Passing
    <3>1. ~Awake /\ kn = cr
      BY <2>1 DEF Awake, Inv, Passing
    <3>2. \A t : /\ Watched(t)' <=> Watched(t)
                 /\ InTransit(t) => InTransit(t)'
                 /\ Known(t)' = Known(t)
      BY <2>1, Kept
    <3>3. Known(s) # 0
      BY <1>3, <3>1 DEF Known
    <3> QED BY <2>1, <3>1, <3>2, <3>3 DEF Inv, Passing
  <2> QED BY <2>2, <2>3, <2>4, <2>5 DEF Inv
<1> QED BY <1>2, <1>3

LEMMA ValidatedKeeps ==
  ASSUME Inv, Validated
  PROVE  Inv'
<1>1. /\ cr' \in CRs /\ cr'.spec = cr.spec
      /\ "kubernaut" \notin unseen' => cr' = cr /\ "kubernaut" \notin unseen
      /\ unseen \subseteq unseen'
      /\ ~Awake /\ "kubernaut" \notin unseen' => cr.blocked = "none"
  BY PatchStatus DEF Validated
<1>2. Types'
  BY <1>1 DEF Inv, Types, Validated, world
<1>3. Copies'
  BY <1>1 DEF Inv, Copies, Validated, world
<1>4. Idle'
  BY DEF Idle, Validated
<1>5. Passing'
  <2> SUFFICES ASSUME ~Awake' PROVE Passing'
    BY DEF Passing
  <2>1. ~Awake /\ cr' = cr /\ cr.blocked = "none"
    BY <1>1 DEF Awake, Validated
  <2>2. kn' = cr'
    BY <2>1 DEF Validated, Awake, Inv, Copies
  <2>3. \A t : /\ Watched(t)' <=> Watched(t)
               /\ InTransit(t) => InTransit(t)'
               /\ Known(t)' = Known(t)
    BY <2>1, Kept DEF Validated, world
  <2> QED BY <2>1, <2>2, <2>3 DEF Inv, Passing, Validated
<1> QED BY <1>2, <1>3, <1>4, <1>5 DEF Inv

\* A pass that gets through carries what it has read.
LEMMA DeployKeeps ==
  ASSUME Inv, Deploy
  PROVE  Inv'
<1>1. UNCHANGED <<cr, crCache, live, cache, unseen, dropped>> /\ pc = "deploy"
      /\ pc' = "idle" /\ kn' = NoCR /\ todo' = {}
  BY DEF Deploy, Return, world
<1>2. applied' = applied \/ applied' = Content(kn.spec)
  BY DEF Deploy
<1>3. Content(kn.spec) \in [Carried \cap Slots -> Nat]
  <2>1. kn \in CRs /\ kn.spec \in Specs
    BY <1>1 DEF Inv, Types, Copies, CRs
  <2>2. \A s \in Slots : Used(kn.spec, s) => kn.spec.ref[s] \in Objects
    BY <2>1, Mapped
  <2> QED BY <2>2 DEF Content, Inv, Types
<1>4. Types'
  BY <1>1, <1>2, <1>3 DEF Inv, Types
<1>5. Copies'
  BY <1>1 DEF Inv, Copies
<1>6. Passing'
  BY <1>1 DEF Passing
<1>7. Idle'
  <2> SUFFICES ASSUME ~Awake', NEW t \in Slots, Watched(t)'
               PROVE  InTransit(t)' \/ Good(t)'
    BY DEF Idle
  <2>1. ~Awake /\ applied' = Content(kn.spec) /\ notices \subseteq notices'
    BY <1>1 DEF Awake, Deploy
  <2>2. kn = cr /\ cr.blocked = "none" /\ todo = {}
    BY <1>1, <2>1 DEF Inv, Passing
  <2>3. Watched(t) /\ Known(t)' = Known(t)
    BY <1>1 DEF Watched, Used, Unwatched, Known
  <2>4. InTransit(t) => InTransit(t)'
    BY <1>1, <2>1 DEF InTransit, Maps, telemetrySecretToKubernaut,
       fleetTrustSecretToKubernaut, precreatedConfigurationToKubernaut,
       auditHashKeyRequests, dataStorageSigningSecretToKubernaut,
       byoDependencySecretToKubernaut, telemetryAmbientConfigMapToKubernaut,
       auditHashKeyStateToKubernaut
  <2>5. t # "none"
    BY TriggersAssumption DEF Validating, Rank, Carried, Reported
  <2>6. t \in Validating => InTransit(t) \/ Known(t) # 0
    BY <1>1, <2>1, <2>2, <2>3 DEF Inv, Passing
  <2>7. t \in Carried => applied'[t] = Known(t)
    BY <2>1, <2>2, <2>3 DEF Content, Watched, Known
  <2> QED BY <1>1, <2>2, <2>3, <2>4, <2>5, <2>6, <2>7 DEF Good
<1> QED BY <1>4, <1>5, <1>6, <1>7 DEF Inv

LEMMA GiveUpKeeps ==
  ASSUME Inv, GiveUp
  PROVE  Inv'
<1>1. Types'
  BY DEF Inv, Types, GiveUp, Return, world
<1>2. Copies'
  BY DEF Inv, Copies, GiveUp, Return, world
<1>3. Awake'
  BY DEF GiveUp, Awake
<1> QED BY <1>1, <1>2, <1>3, AwakeSuffices

LEMMA RestartKeeps ==
  ASSUME Inv, Restart
  PROVE  Inv'
<1>1. Types'
  BY DEF Inv, Types, Restart, Return
<1>2. Copies'
  BY DEF Copies, Restart, Return
<1>3. Awake'
  BY DEF Restart, Awake
<1> QED BY <1>1, <1>2, <1>3, AwakeSuffices

LEMMA NextInv == Inv /\ [Next]_vars => Inv'
<1> SUFFICES ASSUME Inv, [Next]_vars PROVE Inv'
  OBVIOUS
<1>1. CASE \E c \in Specs : EditCR(c)
  BY <1>1, EditCRKeeps
<1>2. CASE \E o \in Objects, v \in 0..MaxVersion : ChangeObject(o, v)
  BY <1>2, ChangeObjectKeeps
<1>3. CASE Inform
  BY <1>3, SyncCRKeeps, SyncObjectKeeps DEF Inform
<1>4. CASE Dispatch
  BY <1>4, HandleKeeps DEF Dispatch
<1>5. CASE Delays
  BY <1>5, RequeueKeeps DEF Delays
<1>6. CASE Worker
  BY <1>6, IgnoreKeeps, AddFinalizerKeeps, BeginKeeps, ReadReferenceKeeps, ValidatedKeeps,
     DeployKeeps DEF Worker
<1>7. CASE \E n \in notices : HandleFails(n)
  BY <1>7, HandleFailsKeeps
<1>8. CASE GiveUp \/ Restart
  BY <1>8, GiveUpKeeps, RestartKeeps
<1>9. CASE UNCHANGED vars
  <2>1. UNCHANGED <<cr, crCache, live, cache, unseen, notices, queue, pc, kn, todo, applied, dropped>>
    BY <1>9 DEF vars, world, pass
  <2>2. Types' /\ Copies' /\ (Awake' <=> Awake)
    BY <2>1 DEF Inv, Types, Copies, Awake, Used
  <2>3. \A s : /\ Watched(s)' <=> Watched(s)
               /\ InTransit(s) => InTransit(s)'
               /\ Good(s)' <=> Good(s)
               /\ Known(s)' = Known(s)
    BY <2>1, Kept
  <2>4. Idle' /\ Passing'
    BY <2>1, <2>2, <2>3 DEF Inv, Idle, Passing
  <2> QED BY <2>2, <2>4 DEF Inv
<1> QED BY <1>1, <1>2, <1>3, <1>4, <1>5, <1>6, <1>7, <1>8, <1>9 DEF Next

\* SetupWithManager's watches and mapping functions, the work queue and the
\* pass lose no wake-up, whatever the interleaving of edits, informers,
\* watches, failures and restarts: at rest, every watched reference whose
\* event was not dropped is reflected in the verdict and in the workloads.
THEOREM WakeUps == Spec => []NoLostWakeup
<1>1. Inv => NoLostWakeup
  <2> SUFFICES ASSUME Inv, Rest, NEW s \in Slots, Used(cr.spec, s), Covered(s)
               PROVE  /\ cr.blocked = s => Missing(s)
                      /\ s \in Validating /\ Missing(s) =>
                           \E t \in Validating : cr.blocked = t /\ Rank[t] <= Rank[s]
                      /\ cr.blocked = "none" /\ s \in Carried => applied[s] = live[cr.spec.ref[s]]
    BY DEF NoLostWakeup
  <2>1. ~Awake /\ pc = "idle"
    BY DEF Rest, Awake
  <2>2. ~InTransit(s)
    BY DEF Rest, Covered, InTransit
  <2>3. Watched(s)
    BY DEF Watched, Covered
  <2>4. Good(s)
    BY <2>1, <2>2, <2>3 DEF Inv, Idle
  <2>5. Known(s) = live[cr.spec.ref[s]]
    <3>1. cr.spec.ref[s] \in Objects
      BY Mapped DEF Inv, Types, CRs
    <3> QED BY <3>1 DEF Rest, Inv, Copies, Known
  <2> QED BY <2>4, <2>5 DEF Good, Missing
<1> QED BY <1>1, InitInv, NextInv, PTL DEF Spec
=============================================================================
