----------------------------- MODULE ObjectProofs -----------------------------
(***************************************************************************)
(* What the operator owns and what it runs once: proofs about              *)
(* ResourceEngine, for every set of metadata that others may write and     *)
(* however often they do, and about MigrationJob, for every set of inputs  *)
(* and every bound, when the image of the Job follows the operator's       *)
(* version.  The two specifications share no variable and no proof step;   *)
(* SpecEngine is the one of ResourceEngine, Spec the one of MigrationJob.  *)
(***************************************************************************)
EXTENDS ResourceEngine, MigrationJob, TLAPS

\* A step is for Zenon, unless it names another prover.
USE Zenon

\* What was read is authorized when a write follows, and a version that is
\* current is the live object.
Inv ==
    /\ kind \in Kinds /\ writes \in Nat
    /\ live \in Objects \cup {Absent} /\ cache \in Objects \cup {Absent}
    /\ want \in Targets /\ target \in Targets
    /\ cacheRV = "current" => cache = live
    /\ op \in {"update", "delete"} =>
          /\ existing \in Objects
          /\ Authorized(kind, existing.meta)
          /\ existingRV = "current" => existing = live

\* The ownership checks of the code (ResourceOwnershipError, policy.OwnershipError)
\* let pass only what the contract of issue 514 calls eligible.
LEMMA AuthorizedIsEligible ==
    ASSUME NEW k \in Kinds, NEW m \in Metas, Authorized(k, m)
    PROVE  Eligible(k, m)
BY DEF Kinds, Metas, Authorized, Eligible, ownershipMarkerConflict,
       resourceOwnerConflict, controllerOwned, sharedCRDOwned

\* Conversely, the checks refuse nothing the contract allows.
LEMMA EligibleIsAuthorized ==
    ASSUME NEW k \in Kinds, NEW m \in Metas, Eligible(k, m)
    PROVE  Authorized(k, m)
BY DEF Kinds, Metas, Authorized, Eligible, ownershipMarkerConflict,
       resourceOwnerConflict, controllerOwned, sharedCRDOwned

\* Rendering and repairing yield objects.
LEMMA UpdatedType ==
    ASSUME NEW k \in Kinds, NEW x \in Objects, NEW t \in Targets
    PROVE  Updated(k, x, t) \in Objects /\ Rendered(k, t) \in Objects
<1>1. Stamped(k) \in Metas BY DEF Stamped, Metas, Kinds, controllerOwned
<1>2. Rendered(k, t) \in Objects BY <1>1 DEF Rendered, Objects
<1>3. [x EXCEPT !.meta = Stamped(k)] \in Objects BY <1>1 DEF Objects
<1>4. sharedCRDMerged(x, t) \in Objects
  BY DEF sharedCRDMerged, Rendered, Stamped, Objects, Metas, controllerOwned
<1> QED BY <1>2, <1>3, <1>4 DEF Updated

LEMMA AbsentIsNoObject == Absent \notin Objects
BY DEF Absent, Objects

\* The invariant is inductive.
THEOREM EngineInvariant == SpecEngine => []Inv
<1>1. InitEngine => Inv
  BY SMT, ConstantAssumption DEF InitEngine, Inv, Targets
<1>2. Inv /\ [NextEngine]_engineVars => Inv'
  <2> SUFFICES ASSUME Inv, [NextEngine]_engineVars PROVE Inv'
    OBVIOUS
  <2> USE DEF Inv
  <2>1. ASSUME NEW x, NEW rv, x \in Objects \cup {Absent}, rv = "current" => x = live,
               Got(x, rv)
        PROVE  Inv'
    <3>0. UNCHANGED <<kind, want, live, cache, cacheRV, writes>> BY <2>1 DEF Got
    <3>1. CASE x = Absent
      <4>1. op' = "create" /\ target' = want BY <2>1, <3>1 DEF Got
      <4> QED BY <3>0, <4>1
    <3>2. CASE x # Absent
      <4>1. Judge(x, rv, want) BY <2>1, <3>2 DEF Got
      <4>3. CASE Idle BY SMT, <3>0, <4>3, ConstantAssumption DEF Idle, Targets
      <4>4. CASE /\ Authorized(kind, x.meta)
                 /\ op' = "update" /\ target' = want /\ existing' = x /\ existingRV' = rv
        BY <2>1, <3>0, <4>4, <3>2
      <4> QED BY <4>1, <4>3, <4>4 DEF Judge
    <3> QED BY <3>1, <3>2
  <2>13. CASE EnsureGet BY <2>1, <2>13 DEF EnsureGet
  <2>14. CASE deployWorkflowNamespace \/ ensureSharedCRD
    BY <2>1, <2>14 DEF deployWorkflowNamespace, ensureSharedCRD
  <2>2. CASE Create
    <3>1. CASE live = Absent
      <4>1. Rendered(kind, target) \in Objects BY SMT, UpdatedType DEF Rendered, Objects, Stamped, Metas, Kinds
      <4> QED BY SMT, <2>2, <3>1, <4>1, ConstantAssumption DEF Create, Write, Idle, Targets
    <3>2. CASE live # Absent BY <2>2, <3>2 DEF Create
    <3> QED BY <3>1, <3>2
  <2>3. CASE ReadExisting
    <3>1. CASE live = Absent
      BY SMT, <2>3, <3>1, ConstantAssumption DEF ReadExisting, Idle, Targets
    <3>2. CASE live # Absent
      <4>1. Judge(live, "current", target) BY <2>3, <3>2 DEF ReadExisting
      <4>2. UNCHANGED <<kind, want, live, cache, cacheRV, writes>> BY <2>3 DEF ReadExisting
      <4>3. CASE Idle BY SMT, <4>2, <4>3, ConstantAssumption DEF Idle, Targets
      <4>4. CASE /\ Authorized(kind, live.meta)
                 /\ op' = "update" /\ target' = target /\ existing' = live /\ existingRV' = "current"
        BY <4>2, <4>4, <3>2
      <4> QED BY <4>1, <4>3, <4>4 DEF Judge
    <3> QED BY <3>1, <3>2
  <2>4. CASE Update
    <3>1. Updated(kind, existing, target) \in Objects BY <2>4, UpdatedType DEF Update
    <3> QED BY SMT, <2>4, <3>1, ConstantAssumption DEF Update, Write, Idle, Targets
  <2>5. CASE DeleteGet
    BY <2>5 DEF DeleteGet
  <2>6. CASE Delete
    BY SMT, <2>6, ConstantAssumption DEF Delete, Write, Idle, Targets
  <2>7. CASE EditCR
    BY SMT, <2>7 DEF EditCR
  <2>8. CASE OthersWrite
    <3>1. PICK m \in Written \cup {live.meta}, d \in {live.data, 0} :
             Write([present |-> "yes", meta |-> m, hash |-> live.hash, data |-> d])
      BY <2>8 DEF OthersWrite
    <3>2. live.meta \in Metas /\ live.hash \in Targets /\ live.data \in Targets
      BY SMT, ConstantAssumption DEF Objects, Absent, NoMeta, Metas, Targets
    <3>3. [present |-> "yes", meta |-> m, hash |-> live.hash, data |-> d] \in Objects
      BY SMT, <3>2, ConstantAssumption DEF Objects, Targets
    <3> QED BY SMT, <2>8, <3>1, <3>3 DEF OthersWrite, Write
  <2>9. CASE OthersDelete
    BY SMT, <2>9 DEF OthersDelete, Write
  <2>10. CASE SyncCache
    BY <2>10 DEF SyncCache
  <2>11. CASE RestartOperator
    BY SMT, <2>11, ConstantAssumption DEF RestartOperator, Idle, Targets
  <2>12. CASE UNCHANGED engineVars
    BY <2>12 DEF engineVars
  <2> QED BY <2>13, <2>14, <2>2, <2>3, <2>4, <2>5, <2>6, <2>7, <2>8, <2>9, <2>10, <2>11,
            <2>12 DEF NextEngine, Reconciler
<1> QED BY <1>1, <1>2, PTL DEF SpecEngine

\* ensureResourceChanged, createIfNotFound, updateNetworkPolicy,
\* deployWorkflowNamespace, ensureSharedCRD, deleteIfExists and the policy prune
\* never change or delete an object that is not eligible at the moment of the
\* write, whoever wrote it since it was read.
THEOREM ContractAtEveryWrite == SpecEngine => OthersObjectsUntouched
<1> DEFINE Untouched == writes' = writes /\ live # Absent /\ ~Eligible(kind, live.meta)
                          => live' = live
<1>1. Inv /\ [NextEngine]_engineVars => [Untouched]_engineVars
  <2> SUFFICES ASSUME Inv, [NextEngine]_engineVars, writes' = writes, live # Absent, live' # live
               PROVE  Eligible(kind, live.meta)
    OBVIOUS
  <2>1. CASE Update
    <3>1. existing = live /\ Authorized(kind, live.meta) /\ live \in Objects
      BY <2>1 DEF Inv, Update
    <3> QED BY <3>1, AuthorizedIsEligible DEF Inv, Objects
  <2>2. CASE Delete
    <3>1. existing = live /\ Authorized(kind, live.meta) /\ live \in Objects
      BY <2>2 DEF Inv, Delete
    <3> QED BY <3>1, AuthorizedIsEligible DEF Inv, Objects
  <2>3. CASE EnsureGet \/ deployWorkflowNamespace \/ ensureSharedCRD \/ Create
             \/ ReadExisting \/ DeleteGet \/ SyncCache \/ RestartOperator \/ EditCR
             \/ UNCHANGED engineVars
    BY <2>3 DEF EnsureGet, deployWorkflowNamespace, ensureSharedCRD, Got, Create, ReadExisting,
                DeleteGet, SyncCache, RestartOperator, EditCR, engineVars
  <2>4. CASE OthersWrite \/ OthersDelete
    BY SMT, <2>4 DEF Inv, OthersWrite, OthersDelete
  <2> QED BY <2>1, <2>2, <2>3, <2>4 DEF NextEngine, Reconciler
<1> QED BY <1>1, EngineInvariant, PTL DEF SpecEngine, OthersObjectsUntouched

\* Every variable of the engine keeps its type, whatever is in the cluster.
THEOREM EngineTypeCorrect == SpecEngine => []TypeOKEngine
<1> DEFINE Rest == /\ cacheRV \in Versions /\ existingRV \in Versions
                   /\ op \in {"idle", "create", "reread", "update", "delete"}
                   /\ existing \in Objects \cup {Absent}
                   /\ writes \in 0 .. MaxWrites /\ restarts \in 0 .. MaxRestarts
<1>1. InitEngine => Rest
  BY SMT, ConstantAssumption DEF InitEngine, Versions
<1>2. Inv /\ Rest /\ [NextEngine]_engineVars => Rest'
  <2> SUFFICES ASSUME Inv, Rest, [NextEngine]_engineVars PROVE Rest'
    OBVIOUS
  <2> USE ConstantAssumption DEF Versions
  <2>1. CASE EnsureGet \/ deployWorkflowNamespace \/ ensureSharedCRD
    BY <2>1 DEF EnsureGet, deployWorkflowNamespace, ensureSharedCRD, Got, Judge, Idle, Inv
  <2>2. CASE Create BY <2>2 DEF Create, Write, Idle
  <2>3. CASE ReadExisting BY <2>3 DEF ReadExisting, Judge, Idle, Inv
  <2>4. CASE Update BY <2>4 DEF Update, Write, Idle
  <2>5. CASE DeleteGet BY <2>5 DEF DeleteGet, Inv
  <2>6. CASE Delete BY <2>6 DEF Delete, Write, Idle
  <2>7. CASE EditCR BY SMT, <2>7 DEF EditCR
  <2>8. CASE OthersWrite BY SMT, <2>8 DEF OthersWrite, Write
  <2>9. CASE OthersDelete BY SMT, <2>9 DEF OthersDelete, Write
  <2>10. CASE SyncCache BY <2>10 DEF SyncCache
  <2>11. CASE RestartOperator BY SMT, <2>11 DEF RestartOperator, Idle
  <2>12. CASE UNCHANGED engineVars BY <2>12 DEF engineVars
  <2> QED BY <2>1, <2>2, <2>3, <2>4, <2>5, <2>6, <2>7, <2>8, <2>9, <2>10, <2>11, <2>12
         DEF NextEngine, Reconciler
<1>3. Inv /\ Rest => TypeOKEngine
  BY DEF Inv, TypeOKEngine
<1> QED BY <1>1, <1>2, <1>3, EngineInvariant, PTL DEF SpecEngine

-----------------------------------------------------------------------------
(* The migration Job.                                                      *)

\* A hash names the operator version whose SQL its Job applies.
Done(h) == MigratedFor(h, h.image)

\* The inputs of a Job are never newer than what its pods will read.
Inputs ==
    /\ secretCache <= secretRev /\ rev <= secretRev /\ sqlVersion <= version
    /\ pc # "idle" => sqlVersion = version
    /\ job.phase # "absent" =>
         job.hash \in Hashes /\ job.hash.rev <= secretRev /\ job.hash.image <= sqlVersion
    /\ job.ranRev # 0 => job.ranRev >= job.hash.rev /\ job.ranSql >= job.hash.image

\* Every copy of a completed Job or of a recorded hash is about a migration
\* that really happened, however old the copy is.
Records ==
    /\ job.phase = "complete" => Done(job.hash)
    /\ jobCache.phase = "complete" => Done(jobCache.hash)
    /\ seen.phase = "complete" => Done(seen.hash)
    /\ lastHash \in Hashes => Done(lastHash)
    /\ lastHashCache \in Hashes => Done(lastHashCache)
    /\ knHash \in Hashes => Done(knHash)

IInv == TypeOK /\ Inputs /\ Records /\ SchemaBeforeServices

LEMMA NoJobType == NoJob \in Jobs
  BY DEF NoJob, Jobs

LEMMA DesiredHash ==
    ASSUME TypeOK, ~ImagePinned
    PROVE  desiredHash \in Hashes /\ desiredHash.image = version
  BY SMT DEF TypeOK, desiredHash, SpecHash, ResolveImage, Specs, Hashes

\* What has been migrated stays migrated.
LEMMA DoneIsStable ==
    ASSUME migrated \subseteq migrated', NEW h, NEW v, MigratedFor(h, v)
    PROVE  MigratedFor(h, v)'
  BY DEF MigratedFor

LEMMA MigratedGrows == [Next]_vars => migrated \subseteq migrated'
  BY DEF Next, vars, clusterVars, cacheVars, localVars, phaseMigrate, Admin, Edit,
     ensureMigrationPrereqs, readJob, createJob, recordCompleteJob,
     deleteStaleCompleteJob, deleteStaleFailedJob, retainFailedJob, alreadyMigrated,
     waitForJob, deleteObservedResource, Pass, Requeue, StartPod, JobComplete,
     JobFailed, SyncSecret, SyncJob, SyncStatus, Restart, EditSpec, EditSecret,
     DeleteJob

LEMMA InitIInv == Init => IInv
<1> SUFFICES ASSUME Init PROVE IInv
  OBVIOUS
<1>1. TypeOK
  BY SMT, MigrationAssumption, NoJobType DEF Init, TypeOK, NoJob
<1>2. Inputs
  BY SMT, MigrationAssumption DEF Init, Inputs, NoJob
<1>3. Records /\ SchemaBeforeServices
  BY MigrationAssumption DEF Init, Records, SchemaBeforeServices, NoJob
<1> QED
  BY <1>1, <1>2, <1>3 DEF IInv

\* A step keeps the variables' types.
LEMMA TypeStep == ASSUME ~ImagePinned, IInv, [Next]_vars PROVE TypeOK'
<1>a. desiredHash \in Hashes
  BY DesiredHash DEF IInv
<1> USE MigrationAssumption, NoJobType DEF TypeOK, IInv
<1>1. CASE ensureMigrationPrereqs
  BY SMT, <1>1 DEF ensureMigrationPrereqs, cacheVars
<1>2. CASE readJob
  BY <1>2 DEF readJob, clusterVars, cacheVars
<1>3. CASE createJob
  BY SMT, <1>3, <1>a DEF createJob, NewJob, Jobs, cacheVars
<1>4. CASE recordCompleteJob \/ alreadyMigrated
  <2>1. Pass /\ lastHash' \in Hashes \cup {NoHash}
    BY <1>4, <1>a DEF recordCompleteJob, alreadyMigrated
  <2>2. passed' \subseteq [hash : Hashes, version : Nat]
    BY SMT, <2>1, <1>a DEF Pass
  <2> QED
    BY <2>1, <2>2 DEF Pass, Return, cacheVars
<1>5. CASE deleteStaleCompleteJob \/ deleteStaleFailedJob
  <2>1. deleteObservedResource
    BY <1>5 DEF deleteStaleCompleteJob, deleteStaleFailedJob
  <2> QED
    BY <2>1 DEF deleteObservedResource, Return, cacheVars
<1>6. CASE retainFailedJob \/ waitForJob
  <2>1. Requeue
    BY <1>6 DEF retainFailedJob, waitForJob
  <2> QED
    BY <2>1 DEF Requeue, Return, clusterVars, cacheVars
<1>7. CASE StartPod
  <2>1. job' \in Jobs
    BY <1>7 DEF StartPod, Jobs
  <2> QED
    BY <1>7, <2>1 DEF StartPod, cacheVars, localVars
<1>8. CASE JobComplete
  <2>1. job.hash \in Hashes
    BY <1>8 DEF JobComplete, Inputs
  <2>2. migrated' \subseteq [hash : Hashes, rev : Nat, sql : Nat]
    BY SMT, <1>8, <2>1 DEF JobComplete, Jobs
  <2> QED
    BY SMT, <1>8, <2>2 DEF JobComplete, Jobs, cacheVars, localVars
<1>9. CASE JobFailed
  BY SMT, <1>9 DEF JobFailed, Jobs, cacheVars, localVars
<1>10. CASE SyncSecret \/ SyncJob \/ SyncStatus
  BY <1>10 DEF SyncSecret, SyncJob, SyncStatus, clusterVars, localVars
<1>11. CASE Restart
  BY SMT, <1>11 DEF Restart, Return, clusterVars
<1>12. ASSUME NEW s \in Specs, EditSpec(s) PROVE TypeOK'
  BY <1>12 DEF EditSpec, Edit, cacheVars, localVars
<1>13. ASSUME NEW good \in BOOLEAN, EditSecret(good) PROVE TypeOK'
  BY SMT, <1>13 DEF EditSecret, Edit, cacheVars, localVars
<1>14. CASE DeleteJob
  BY <1>14 DEF DeleteJob, Edit, cacheVars, localVars
<1>15. CASE UNCHANGED vars
  BY <1>15 DEF vars, clusterVars, cacheVars, localVars
<1> QED
  BY <1>1, <1>2, <1>3, <1>4, <1>5, <1>6, <1>7, <1>8, <1>9, <1>10, <1>11, <1>12,
     <1>13, <1>14, <1>15 DEF Next, phaseMigrate, Admin

\* A step keeps the bounds on a Job's inputs.
LEMMA InputsStep == ASSUME ~ImagePinned, IInv, [Next]_vars PROVE Inputs'
<1>a. desiredHash \in Hashes /\ desiredHash.image = version
  BY DesiredHash DEF IInv
<1> USE MigrationAssumption DEF TypeOK, IInv, Inputs, Jobs, Hashes
<1>1. CASE ensureMigrationPrereqs
  BY SMT, <1>1 DEF ensureMigrationPrereqs, cacheVars
<1>2. CASE readJob
  BY <1>2 DEF readJob, clusterVars, cacheVars
<1>3. CASE createJob
  <2>1. desiredHash.rev = rev
    BY DEF desiredHash, SpecHash
  <2> QED
    BY SMT, <1>3, <1>a, <2>1 DEF createJob, NewJob, cacheVars
<1>4. CASE recordCompleteJob \/ alreadyMigrated
  BY SMT, <1>4 DEF recordCompleteJob, alreadyMigrated, Pass, Return, cacheVars
<1>5. CASE deleteStaleCompleteJob \/ deleteStaleFailedJob
  BY SMT, <1>5 DEF deleteStaleCompleteJob, deleteStaleFailedJob, deleteObservedResource,
              Return, NoJob, cacheVars
<1>6. CASE retainFailedJob \/ waitForJob
  BY SMT, <1>6 DEF retainFailedJob, waitForJob, Requeue, Return, clusterVars, cacheVars
<1>7. CASE StartPod
  BY <1>7 DEF StartPod, cacheVars, localVars
<1>8. CASE JobComplete
  BY <1>8 DEF JobComplete, cacheVars, localVars
<1>9. CASE JobFailed
  BY <1>9 DEF JobFailed, cacheVars, localVars
<1>10. CASE SyncSecret \/ SyncJob \/ SyncStatus
  BY SMT, <1>10 DEF SyncSecret, SyncJob, SyncStatus, clusterVars, localVars
<1>11. CASE Restart
  BY SMT, <1>11 DEF Restart, Return, clusterVars
<1>12. ASSUME NEW s \in Specs, EditSpec(s) PROVE Inputs'
  BY <1>12 DEF EditSpec, Edit, cacheVars, localVars
<1>13. ASSUME NEW good \in BOOLEAN, EditSecret(good) PROVE Inputs'
  BY SMT, <1>13 DEF EditSecret, Edit, cacheVars, localVars
<1>14. CASE DeleteJob
  BY <1>14 DEF DeleteJob, Edit, NoJob, cacheVars, localVars
<1>15. CASE UNCHANGED vars
  BY <1>15 DEF vars, clusterVars, cacheVars, localVars
<1> QED
  BY <1>1, <1>2, <1>3, <1>4, <1>5, <1>6, <1>7, <1>8, <1>9, <1>10, <1>11, <1>12,
     <1>13, <1>14, <1>15 DEF Next, phaseMigrate, Admin

\* A step keeps the records truthful and lets nothing unmigrated through.
LEMMA RecordsStep ==
    ASSUME ~ImagePinned, IInv, [Next]_vars PROVE (Records /\ SchemaBeforeServices)'
<1> DEFINE Goal == (Records /\ SchemaBeforeServices)'
<1>a. migrated \subseteq migrated'
  BY MigratedGrows
<1>b. \A h : Done(h) => Done(h)'
  BY <1>a, DoneIsStable DEF Done
<1>c. \A h, v : MigratedFor(h, v) => MigratedFor(h, v)'
  BY <1>a, DoneIsStable
<1> USE MigrationAssumption, <1>b, <1>c DEF IInv, Records, SchemaBeforeServices
<1>1. CASE ensureMigrationPrereqs
  BY <1>1 DEF ensureMigrationPrereqs, cacheVars
<1>2. CASE readJob
  BY <1>2 DEF readJob, clusterVars, cacheVars
<1>3. CASE createJob
  BY SMT, <1>3 DEF createJob, NewJob, cacheVars
<1>4. CASE recordCompleteJob \/ alreadyMigrated
  <2>1. Done(desiredHash)
    BY <1>4, DesiredHash DEF recordCompleteJob, alreadyMigrated
  <2>2. MigratedFor(desiredHash, version)
    BY <2>1, DesiredHash DEF Done
  <2>3. Records'
    BY SMT, <1>4, <2>1 DEF recordCompleteJob, alreadyMigrated, Pass, Return, NoJob, cacheVars,
                      TypeOK, Hashes
  <2>4. SchemaBeforeServices'
    BY SMT, <1>4, <2>2 DEF recordCompleteJob, alreadyMigrated, Pass
  <2> QED
    BY <2>3, <2>4
<1>5. CASE deleteStaleCompleteJob \/ deleteStaleFailedJob
  BY SMT, <1>5 DEF deleteStaleCompleteJob, deleteStaleFailedJob, deleteObservedResource,
              Return, NoJob, cacheVars
<1>6. CASE retainFailedJob \/ waitForJob
  BY SMT, <1>6 DEF retainFailedJob, waitForJob, Requeue, Return, NoJob, clusterVars, cacheVars
<1>7. CASE StartPod
  BY <1>7 DEF StartPod, TypeOK, Jobs, cacheVars, localVars
<1>8. CASE JobComplete
  <2> DEFINE m == [hash |-> job.hash, rev |-> job.ranRev, sql |-> job.ranSql]
  <2>1. m \in migrated' /\ job'.hash = job.hash
    BY <1>8 DEF JobComplete, TypeOK, Jobs
  <2>2. job.ranRev # 0
    BY SMT, <1>8 DEF JobComplete, TypeOK
  <2>3. m.hash = job.hash /\ m.rev >= job.hash.rev /\ m.sql >= job.hash.image
    BY <2>2 DEF Inputs
  <2>4. Done(job.hash)'
    BY <2>1, <2>3 DEF Done, MigratedFor
  <2> QED
    BY <1>8, <2>4 DEF JobComplete, TypeOK, Jobs, cacheVars, localVars
<1>9. CASE JobFailed
  BY <1>9 DEF JobFailed, TypeOK, Jobs, cacheVars, localVars
<1>10. CASE SyncSecret \/ SyncJob \/ SyncStatus
  BY <1>10 DEF SyncSecret, SyncJob, SyncStatus, clusterVars, localVars
<1>11. CASE Restart
  BY <1>11 DEF Restart, Return, NoJob, clusterVars
<1>12. ASSUME NEW s \in Specs, EditSpec(s) PROVE Goal
  BY <1>12 DEF EditSpec, Edit, cacheVars, localVars
<1>13. ASSUME NEW good \in BOOLEAN, EditSecret(good) PROVE Goal
  BY <1>13 DEF EditSecret, Edit, cacheVars, localVars
<1>14. CASE DeleteJob
  BY <1>14 DEF DeleteJob, Edit, NoJob, cacheVars, localVars
<1>15. CASE UNCHANGED vars
  BY <1>15 DEF vars, clusterVars, cacheVars, localVars
<1> QED
  BY <1>1, <1>2, <1>3, <1>4, <1>5, <1>6, <1>7, <1>8, <1>9, <1>10, <1>11, <1>12,
     <1>13, <1>14, <1>15 DEF Next, phaseMigrate, Admin

\* The inductive invariant holds of every reachable state.
THEOREM InductiveInvariant == ASSUME ~ImagePinned PROVE Spec => []IInv
<1>1. IInv /\ [Next]_vars => IInv'
  BY TypeStep, InputsStep, RecordsStep DEF IInv
<1> QED
  BY InitIInv, <1>1, PTL DEF Spec

\* Every variable of the migration phase keeps its type.
THEOREM TypeCorrect == ASSUME ~ImagePinned PROVE Spec => []TypeOK
<1>1. IInv => TypeOK
  BY DEF IInv
<1>2. QED BY <1>1, InductiveInvariant, PTL

\* phaseMigrate lets no reconcile through before its database is migrated.
THEOREM SchemaFirst == ASSUME ~ImagePinned PROVE Spec => []SchemaBeforeServices
<1>1. IInv => SchemaBeforeServices
  BY DEF IInv
<1> QED
  BY InductiveInvariant, <1>1, PTL

\* The preconditions of deleteObservedResource protect a running Job.
THEOREM RunningJobSafe == Spec => RunningJobIsNotDeleted
<1>1. ASSUME phaseMigrate, job.phase = "running" PROVE job'.uid = job.uid
  BY <1>1 DEF phaseMigrate, ensureMigrationPrereqs, readJob, createJob,
     recordCompleteJob, deleteStaleCompleteJob, deleteStaleFailedJob, retainFailedJob,
     alreadyMigrated, waitForJob, deleteObservedResource, Pass, Requeue, clusterVars
<1>2. [Next]_vars
        => [phaseMigrate /\ job.phase = "running" => job'.uid = job.uid]_vars
  BY <1>1
<1> QED
  BY <1>2, PTL DEF Spec, RunningJobIsNotDeleted
=============================================================================
