---------------------------- MODULE MigrationJob ----------------------------
(***************************************************************************)
(* The database migration phase (phaseMigrate, ensureMigrationJob).        *)
(*                                                                         *)
(* The operator writes the embedded SQL to a ConfigMap and runs it with a  *)
(* Job of a fixed name.  The Job's spec-hash annotation covers the Job's   *)
(* spec and a revision of the PostgreSQL Secret and connection inputs; the *)
(* hash of the last completed Job is kept in the CR's status.  Secret, Job *)
(* and CR are read through caches that lag independently.  A pod of the    *)
(* Job reads the Secret and the ConfigMap when it starts, not when the Job *)
(* is created.                                                             *)
(*                                                                         *)
(* Abstractions: a hash is the tuple of what it covers.  The Job is always *)
(* the operator's (ResourceEngine models conflicts) and terminal Jobs do   *)
(* not change, so UID and phase stand for UID and resourceVersion.         *)
(***************************************************************************)
EXTENDS Integers, FiniteSets

CONSTANTS
    Conns,          \* host, port and sslMode: part of DSN and of the revision
    Others,         \* inputs of the Job's spec only, e.g. the pull policy
    NoHash,         \* an empty LastMigrationHash
    ImagePinned,    \* spec.image.overrides fixes the db-migrate image
    FlakyDB,        \* may a Job fail although its credentials are good?
    MaxVersion,     \* bound on operator versions
    MaxEdits,       \* bound on edits of the CR, the Secret and the Job
    MaxCrashes

VARIABLES
    version,            \* of the operator, and of the SQL it embeds
    spec,               \* the CR's migration inputs
    secretRev, secretCache, goodRevs,
    sqlVersion,         \* of the migrations ConfigMap
    job, jobCache, uids,
    lastHash, lastHashCache,    \* status.LastMigrationHash
    pc, kn, knHash, rev, seen,  \* the reconcile and what it has read
    migrated,           \* what completed Jobs did to the databases
    passed,             \* what phaseMigrate let through to phaseDeploy
    edits, crashes

clusterVars == <<spec, secretRev, goodRevs, sqlVersion, job, uids, lastHash, migrated>>
cacheVars   == <<secretCache, jobCache, lastHashCache>>
localVars   == <<kn, knHash, rev, seen>>
vars == <<version, clusterVars, cacheVars, pc, localVars, passed, edits, crashes>>

Specs == [conn : Conns, other : Others]

\* MigrationJob's image follows the operator version unless it is overridden.
ResolveImage(v) == IF ImagePinned THEN 0 ELSE v

SpecHash(s, r, v) ==
    [conn |-> s.conn, other |-> s.other, image |-> ResolveImage(v), rev |-> r]

\* Mutant: the revision leaves out the Secret's resourceVersion.
connectionRevision(h) == <<h.conn>>

\* postgresqlCredentialRevision of the inputs a hash was computed from
postgresqlCredentialRevision(h) == <<h.conn, h.rev>>

Hashes == [conn : Conns, other : Others, image : Nat, rev : Nat]

ASSUME MigrationAssumption ==
    /\ ImagePinned \in BOOLEAN /\ FlakyDB \in BOOLEAN
    /\ MaxVersion \in Nat \ {0} /\ MaxEdits \in Nat /\ MaxCrashes \in Nat
    /\ NoHash \notin Hashes

\* ran: the Secret revision and SQL version the current pod started with
Jobs == [phase : {"absent", "running", "complete", "failed"}, uid : Nat,
         hash : Hashes \cup {NoHash}, ranRev : Nat, ranSql : Nat]

NoJob == [phase |-> "absent", uid |-> 0, hash |-> NoHash, ranRev |-> 0, ranSql |-> 0]
NewJob(h, u) ==
    [phase |-> "running", uid |-> u, hash |-> h, ranRev |-> 0, ranSql |-> 0]

desiredHash == SpecHash(kn, rev, version)

-----------------------------------------------------------------------------
Init ==
    /\ version = 1
    /\ spec \in Specs
    /\ secretRev = 1 /\ secretCache = 1 /\ goodRevs \in SUBSET {1}
    /\ sqlVersion = 0
    /\ job = NoJob /\ jobCache = NoJob /\ uids = 0
    /\ lastHash = NoHash /\ lastHashCache = NoHash
    /\ pc = "idle" /\ kn = spec /\ knHash = NoHash /\ rev = 0 /\ seen = NoJob
    /\ migrated = {} /\ passed = {}
    /\ edits = 0 /\ crashes = 0

-----------------------------------------------------------------------------
(* The reconcile.                                                          *)

\* ensureMigrationPrereqs: the ConfigMap is brought up to date first.
ensureMigrationPrereqs ==
    /\ pc = "idle"
    /\ kn' = spec /\ knHash' = lastHashCache
    /\ sqlVersion' = version
    /\ pc' = "job"
    /\ UNCHANGED <<version, spec, secretRev, goodRevs, job, uids, lastHash, migrated,
                   cacheVars, rev, seen, passed, edits, crashes>>

\* Secret revision and Job come from the cache.
readJob ==
    /\ pc = "job"
    /\ rev' = secretCache
    /\ seen' = jobCache
    /\ pc' = IF jobCache.phase = "absent" THEN "create" ELSE "decide"
    /\ UNCHANGED <<version, clusterVars, cacheVars, kn, knHash, passed, edits, crashes>>

\* createIfNotFound; AlreadyExists reads the live Job.
createJob ==
    /\ pc = "create"
    /\ IF job.phase = "absent"
       THEN job' = NewJob(desiredHash, uids + 1) /\ uids' = uids + 1
       ELSE UNCHANGED <<job, uids>>
    /\ seen' = job'
    /\ pc' = "decide"
    /\ UNCHANGED <<version, spec, secretRev, goodRevs, sqlVersion, lastHash, migrated,
                   cacheVars, kn, knHash, rev, passed, edits, crashes>>

\* The reconcile ends; nothing it has read is kept.
Return ==
    /\ pc' = "idle"
    /\ kn' = spec /\ knHash' = NoHash /\ rev' = 0 /\ seen' = NoJob

\* deleteObservedResource: UID and resourceVersion must be the observed ones;
\* NotFound is success and anything else an error, and both retry.
deleteObservedResource ==
    /\ job' = IF job.uid = seen.uid /\ job.phase = seen.phase THEN NoJob ELSE job
    /\ Return
    /\ UNCHANGED <<version, spec, secretRev, goodRevs, sqlVersion, uids, lastHash,
                   migrated, cacheVars, passed, edits, crashes>>

\* phaseMigrate returns no error and no requeue: phaseDeploy follows.
Pass ==
    /\ passed' = passed \cup {[hash |-> desiredHash, version |-> version]}
    /\ Return
    /\ UNCHANGED <<version, spec, secretRev, goodRevs, sqlVersion, job, uids, migrated,
                   cacheVars, edits, crashes>>

Requeue ==
    /\ Return
    /\ UNCHANGED <<version, clusterVars, cacheVars, passed, edits, crashes>>

\* Mutant: a completed Job counts whatever it was created for.
acceptAnyCompleteJob ==
    /\ pc = "decide" /\ seen.phase = "complete"
    /\ lastHash' = desiredHash
    /\ Pass

\* The completed Job is the desired one: its hash goes to the status first.
recordCompleteJob ==
    /\ pc = "decide" /\ seen.phase = "complete"
    /\ seen.hash = desiredHash
    /\ lastHash' = desiredHash
    /\ Pass

deleteStaleCompleteJob ==
    /\ pc = "decide" /\ seen.phase = "complete"
    /\ seen.hash # desiredHash
    /\ deleteObservedResource

deleteStaleFailedJob ==
    /\ pc = "decide" /\ seen.phase = "failed"
    /\ postgresqlCredentialRevision(seen.hash) # postgresqlCredentialRevision(desiredHash)
    /\ deleteObservedResource

\* MigrationComplete=False/MigrationFailed; the Job stays.
retainFailedJob ==
    /\ pc = "decide" /\ seen.phase = "failed"
    /\ postgresqlCredentialRevision(seen.hash) = postgresqlCredentialRevision(desiredHash)
    /\ Requeue

\* The status already records this hash.
alreadyMigrated ==
    /\ pc = "decide" /\ seen.phase = "running"
    /\ knHash = desiredHash
    /\ UNCHANGED lastHash
    /\ Pass

\* Mutant: a running Job for superseded inputs is replaced at once.
replaceRunningJob ==
    /\ pc = "decide" /\ seen.phase = "running"
    /\ knHash # desiredHash
    /\ IF seen.hash # desiredHash THEN deleteObservedResource ELSE Requeue

waitForJob ==
    /\ pc = "decide" /\ seen.phase = "running"
    /\ knHash # desiredHash
    /\ Requeue

-----------------------------------------------------------------------------
(* The Job controller and the database.                                    *)

\* A pod, first or restarted, reads the Secret and mounts the ConfigMap.
StartPod ==
    /\ job.phase = "running"
    /\ job' = [job EXCEPT !.ranRev = secretRev, !.ranSql = sqlVersion]
    /\ job' # job
    /\ UNCHANGED <<version, spec, secretRev, goodRevs, sqlVersion, uids, lastHash,
                   migrated, cacheVars, pc, localVars, passed, edits, crashes>>

JobComplete ==
    /\ job.phase = "running" /\ job.ranRev \in goodRevs
    /\ job' = [job EXCEPT !.phase = "complete"]
    /\ migrated' = migrated \cup
         {[hash |-> job.hash, rev |-> job.ranRev, sql |-> job.ranSql]}
    /\ UNCHANGED <<version, spec, secretRev, goodRevs, sqlVersion, uids, lastHash,
                   cacheVars, pc, localVars, passed, edits, crashes>>

JobFailed ==
    /\ job.phase = "running" /\ job.ranRev # 0
    /\ FlakyDB \/ job.ranRev \notin goodRevs
    /\ job' = [job EXCEPT !.phase = "failed"]
    /\ UNCHANGED <<version, spec, secretRev, goodRevs, sqlVersion, uids, lastHash,
                   migrated, cacheVars, pc, localVars, passed, edits, crashes>>

-----------------------------------------------------------------------------
(* Caches, crashes and administrators.                                     *)

SyncSecret ==
    /\ secretCache # secretRev /\ secretCache' = secretRev
    /\ UNCHANGED <<version, clusterVars, jobCache, lastHashCache, pc, localVars,
                   passed, edits, crashes>>
SyncJob ==
    /\ jobCache # job /\ jobCache' = job
    /\ UNCHANGED <<version, clusterVars, secretCache, lastHashCache, pc, localVars,
                   passed, edits, crashes>>
SyncStatus ==
    /\ lastHashCache # lastHash /\ lastHashCache' = lastHash
    /\ UNCHANGED <<version, clusterVars, secretCache, jobCache, pc, localVars,
                   passed, edits, crashes>>

\* A restart, of the same version or, in an upgrade, of a later one.
Restart ==
    /\ crashes < MaxCrashes /\ crashes' = crashes + 1
    /\ \E v \in version..MaxVersion : version' = v
    /\ Return
    /\ secretCache' = secretRev /\ jobCache' = job /\ lastHashCache' = lastHash
    /\ UNCHANGED <<clusterVars, passed, edits>>

Edit ==
    /\ edits < MaxEdits /\ edits' = edits + 1
    /\ UNCHANGED <<version, sqlVersion, uids, lastHash, migrated, cacheVars, pc,
                   localVars, passed, crashes>>

EditSpec(s) ==
    /\ Edit /\ s # spec
    /\ spec' = s
    /\ UNCHANGED <<secretRev, goodRevs, job>>

EditSecret(good) ==
    /\ Edit
    /\ secretRev' = secretRev + 1
    /\ goodRevs' = IF good THEN goodRevs \cup {secretRev + 1} ELSE goodRevs
    /\ UNCHANGED <<spec, job>>

DeleteJob ==
    /\ Edit /\ job.phase # "absent"
    /\ job' = NoJob
    /\ UNCHANGED <<spec, secretRev, goodRevs>>

-----------------------------------------------------------------------------
phaseMigrate ==
    \/ ensureMigrationPrereqs \/ readJob \/ createJob
    \/ recordCompleteJob \/ deleteStaleCompleteJob
    \/ deleteStaleFailedJob \/ retainFailedJob
    \/ alreadyMigrated \/ waitForJob

Admin ==
    \/ \E s \in Specs : EditSpec(s)
    \/ \E good \in BOOLEAN : EditSecret(good)
    \/ DeleteJob

Next ==
    \/ phaseMigrate
    \/ StartPod \/ JobComplete \/ JobFailed
    \/ SyncSecret \/ SyncJob \/ SyncStatus
    \/ Restart \/ Admin

Spec == Init /\ [][Next]_vars

\* Reconciles are retried or requeued, informers deliver, pods start, and a
\* Job that keeps running ends.
Fairness ==
    /\ WF_vars(phaseMigrate)
    /\ WF_vars(SyncSecret) /\ WF_vars(SyncJob) /\ WF_vars(SyncStatus)
    /\ WF_vars(StartPod) /\ WF_vars(JobComplete \/ JobFailed)

FairSpec == Spec /\ Fairness

-----------------------------------------------------------------------------
(* Properties.                                                             *)

\* A Job for hash h ended successfully with SQL version v or later and the
\* Secret revision the hash names or a later one.
MigratedFor(h, v) ==
    \E m \in migrated : m.hash = h /\ m.rev >= h.rev /\ m.sql >= v

\* Every variable keeps its shape, and a Job is examined only once there is one.
TypeOK ==
    /\ version \in 1..MaxVersion
    /\ spec \in Specs /\ kn \in Specs
    /\ secretRev \in Nat /\ secretCache \in Nat /\ rev \in Nat /\ sqlVersion \in Nat
    /\ goodRevs \subseteq 1..secretRev
    /\ job \in Jobs /\ jobCache \in Jobs /\ seen \in Jobs
    /\ uids \in Nat
    /\ lastHash \in Hashes \cup {NoHash} /\ lastHashCache \in Hashes \cup {NoHash}
    /\ knHash \in Hashes \cup {NoHash}
    /\ pc \in {"idle", "job", "create", "decide"}
    /\ pc = "decide" => seen.phase # "absent"
    /\ migrated \subseteq [hash : Hashes, rev : Nat, sql : Nat]
    /\ passed \subseteq [hash : Hashes, version : Nat]

\* "Database schema is migrated before services start" (docs/test-plans/
\* kubernaut-operator-test-plan.md:84): phaseMigrate lets a reconcile through
\* only after a Job for exactly its inputs has applied the operator's SQL,
\* with the credentials the reconcile has seen or newer ones.
SchemaBeforeServices == \A p \in passed : MigratedFor(p.hash, p.version)

\* No step of the operator removes a Job that is still migrating, even when
\* the cache shows the terminal Job that had the same name before.
RunningJobIsNotDeleted ==
    [][phaseMigrate /\ job.phase = "running" => job'.uid = job.uid]_vars

\* With good credentials in place for good, the migration gets through or stops at
\* a Job that failed under those very credentials, which handleFailedMigrationJob
\* retains for the administrator: a failure under an earlier Secret revision, a
\* crash or a stale Job does not block the operator forever.
EventuallyMigrated ==
    <>[](secretRev \in goodRevs)
      => \/ []<>(\E p \in passed : p.hash = SpecHash(spec, secretRev, version))
         \/ <>[](job.phase = "failed" /\ job.hash.conn = spec.conn /\ job.hash.rev = secretRev)
=============================================================================
