---------------------------- MODULE AuditHashKey ----------------------------
(***************************************************************************)
(* The audit HMAC key of DataStorage (ensureDataStorageAuditHashKey).      *)
(*                                                                         *)
(* The operator keeps the key in a Secret and records the key's identity   *)
(* and fingerprint in a state ConfigMap: "provisioning" before the Secret  *)
(* is created, "ready" once the fingerprint is committed.  One step of     *)
(* this model is one API call.  Get goes through the manager's cache,      *)
(* which lags the API server; Create, Update and the re-read after         *)
(* AlreadyExists go to the API server.  The operator may crash between any *)
(* two calls.  The administrator edits the reference in the CR, writes     *)
(* Secrets of their own, deletes Secrets and alters the state ConfigMap's  *)
(* ownership marker or finalizer.                                          *)
(*                                                                         *)
(* Abstractions: a key is a model value and its own fingerprint; a Secret  *)
(* name stands for the pair of Secret name and inner YAML key; BadKey is   *)
(* any content ValidateDataStorageAuditHashKeySecret rejects; the          *)
(* administrator never edits the data of the state ConfigMap.              *)
(***************************************************************************)
EXTENDS Integers

CONSTANTS
    Names,          \* Secret names a reference may use
    GenName,        \* DataStorageAuditHashKeySecretName
    Keys, NoKey, BadKey,
    OwnKeys,        \* the keys the administrator brings
    MaxEdits,       \* bound on the administrator's actions
    MaxCrashes,     \* bound on operator restarts
    SecretLoss,     \* may a finalizer-protected Secret be removed?
    SettledStarts   \* does a reconcile start with its own earlier writes cached?

ASSUME ConstantsAssumption ==
    /\ GenName \in Names
    /\ NoKey # BadKey
    /\ NoKey \notin Keys
    /\ BadKey \notin Keys
    /\ OwnKeys \subseteq Keys
    /\ MaxEdits \in Nat
    /\ MaxCrashes \in Nat
    /\ SecretLoss \in BOOLEAN
    /\ SettledStarts \in BOOLEAN

VARIABLES
    ref,            \* the reference in the CR's spec
    cm, cmCache,    \* the state ConfigMap: API server, manager cache
    secret, secretCache,
    rv,             \* resourceVersion counter of the state ConfigMap
    ownRv,          \* version of the operator's last write of it
    pc, kn,         \* where the reconcile is; the reference it works with
    goal,           \* the state ConfigMap it is ensuring
    seen,           \* the state ConfigMap it read before an Update
    obs,            \* the key it read or generated
    used,           \* the keys generated so far
    effective,      \* keys DataStorage has been deployed with
    edits, crashes

apiVars   == <<cm, secret, rv, ownRv, used>>
cacheVars == <<cmCache, secretCache>>
runVars   == <<pc, kn, goal, seen, obs>>
vars == <<ref, apiVars, cacheVars, runVars, effective, edits, crashes>>

-----------------------------------------------------------------------------
(* Data.                                                                   *)

\* An existingSecret may name the generated Secret: only the source differs.
Refs == [name : Names, source : {"generated", "existing"}]

\* DataStorageAuditHashKeyReferenceFor: omitted fields select the default.
GeneratedRef == [name |-> GenName, source |-> "generated"]
SpecRefs == {GeneratedRef} \cup [name : Names, source : {"existing"}]

\* owned: the ownership contract authorizes the operator and it is not
\* terminating.  protected: it carries the audit key finalizer.
StateCM == [phase : {"absent", "provisioning", "ready"}, ref : Refs,
            keyFingerprint : Keys \cup {NoKey},
            owned : BOOLEAN, protected : BOOLEAN, rv : Nat]

NoCM == [phase |-> "absent", ref |-> GeneratedRef, keyFingerprint |-> NoKey,
         owned |-> TRUE, protected |-> TRUE, rv |-> 0]

\* operator: immutable, annotated and finalized by the operator.
Secrets == [key : Keys \cup {NoKey, BadKey}, operator : BOOLEAN,
            terminating : BOOLEAN]

NoSecret == [key |-> NoKey, operator |-> FALSE, terminating |-> FALSE]
Generate(k) == [key |-> k, operator |-> TRUE, terminating |-> FALSE]
Terminating(k) == [key |-> k, operator |-> TRUE, terminating |-> TRUE]

Marker(r)    == [phase |-> "provisioning", ref |-> r, keyFingerprint |-> NoKey]
Ready(r, k)  == [phase |-> "ready", ref |-> r, keyFingerprint |-> k]
Written(g, v) == [phase |-> g.phase, ref |-> g.ref,
                  keyFingerprint |-> g.keyFingerprint,
                  owned |-> TRUE, protected |-> TRUE, rv |-> v]
Altered(c, o, p, v) == [phase |-> c.phase, ref |-> c.ref,
                        keyFingerprint |-> c.keyFingerprint,
                        owned |-> o, protected |-> p, rv |-> v]

Generated(r) == r.source = "generated"
Exists(c)  == c.phase # "absent"
Found(s)   == s.key # NoKey
Pending(c) == c.phase = "provisioning" /\ c.keyFingerprint = NoKey

\* Mutant: the committed identity of an existing Secret may change, too.
correctAnyBYOIdentity(c, r) == ~Generated(r) /\ ~Generated(c.ref)

canCorrectPendingBYOIdentity(c, r) ==
    Pending(c) /\ ~Generated(r) /\ ~Generated(c.ref)

validateAuditHashKeyState(c, r) ==
    /\ c.protected
    /\ c.ref = r
    /\ c.phase = "ready"
    /\ c.keyFingerprint # NoKey

operatorGeneratedAuditHashKeySecret(s) == s.operator /\ ~s.terminating

\* Mutant: the fingerprint is not compared.
validateSecretContentOnly(s, r, fp) ==
    /\ Found(s) /\ ~s.terminating /\ s.key \in Keys
    /\ Generated(r) => operatorGeneratedAuditHashKeySecret(s)

validateEffectiveAuditHashKeySecret(s, r, fp) ==
    /\ Found(s)
    /\ ~s.terminating
    /\ Generated(r) => operatorGeneratedAuditHashKeySecret(s)
    /\ s.key \in Keys
    /\ s.key = fp

\* The ensure engine skips the Update when nothing it compares differs.
UpToDate(g, c) ==
    /\ c.phase = g.phase
    /\ c.ref = g.ref
    /\ c.keyFingerprint = g.keyFingerprint

-----------------------------------------------------------------------------
Init ==
    /\ ref \in SpecRefs
    /\ cm = NoCM /\ cmCache = NoCM
    /\ secret = [n \in Names |-> NoSecret]
    /\ secretCache = [n \in Names |-> NoSecret]
    /\ rv = 0 /\ ownRv = 0
    /\ pc = "idle" /\ kn = ref /\ goal = Marker(GeneratedRef)
    /\ seen = NoCM /\ obs = NoKey
    /\ used = {} /\ effective = {}
    /\ edits = 0 /\ crashes = 0

-----------------------------------------------------------------------------
(* The reconcile: which branch the state ConfigMap selects.                *)

\* The cache has absorbed the operator's own writes of the state ConfigMap.
Settled == cmCache.rv >= ownRv

\* auditHashKeyState: one cached Get decides how the reconcile goes on.
Begin(next) ==
    /\ pc = "idle"
    /\ SettledStarts => Settled
    /\ kn' = ref
    /\ pc' = next
    /\ UNCHANGED <<ref, apiVars, cacheVars, seen, obs, effective, edits, crashes>>

\* Mutant: the key is created before the marker that announces it.
initializeWithoutMarker ==
    /\ ~Exists(cmCache)
    /\ goal' = Marker(ref)
    /\ Begin(IF Generated(ref) THEN "initialize" ELSE "ensure")

\* No state: a generated key checks first that no Secret has its name.
initializeNewAuditHashKey ==
    /\ ~Exists(cmCache)
    /\ goal' = Marker(ref)
    /\ Begin(IF Generated(ref) THEN "refuseAdoption" ELSE "ensure")

\* ownership conflict, changed identity or uncommitted state: an error
rejectState ==
    /\ Exists(cmCache)
    /\ \/ ~cmCache.owned
       \/ /\ cmCache.ref # ref
          /\ ~canCorrectPendingBYOIdentity(cmCache, ref)
       \/ /\ cmCache.ref = ref
          /\ ~Pending(cmCache)
          /\ ~validateAuditHashKeyState(cmCache, ref)
    /\ UNCHANGED goal
    /\ Begin("idle")

\* a pending administrator-managed reference may still be corrected
correctPendingIdentity ==
    /\ Exists(cmCache) /\ cmCache.owned
    /\ cmCache.ref # ref
    /\ canCorrectPendingBYOIdentity(cmCache, ref)
    /\ goal' = Marker(ref)
    /\ Begin("ensure")

\* Mutant: a pending state is handled like a missing one.
restartPending ==
    /\ Exists(cmCache) /\ cmCache.owned
    /\ cmCache.ref = ref
    /\ Pending(cmCache)
    /\ goal' = Marker(ref)
    /\ Begin(IF Generated(ref) THEN "refuseAdoption" ELSE "ensure")

resumePending ==
    /\ Exists(cmCache) /\ cmCache.owned
    /\ cmCache.ref = ref
    /\ Pending(cmCache)
    /\ UNCHANGED goal
    /\ Begin("initialize")

checkCommitted ==
    /\ Exists(cmCache) /\ cmCache.owned
    /\ validateAuditHashKeyState(cmCache, ref)
    /\ goal' = Ready(ref, cmCache.keyFingerprint)
    /\ Begin("validate")

-----------------------------------------------------------------------------
(* The steps that follow.                                                  *)

Goto(next) ==
    /\ pc' = next
    /\ UNCHANGED <<ref, kn, goal, cacheVars, edits, crashes>>

\* A Secret that exists before its state marker is not adopted.
refuseAdoption ==
    /\ pc = "refuseAdoption"
    /\ Goto(IF Found(secretCache[kn.name]) THEN "idle" ELSE "ensure")
    /\ UNCHANGED <<apiVars, seen, obs, effective>>

AfterEnsure == IF goal.phase = "provisioning" THEN "initialize" ELSE "deploy"

\* ensureUnowned(state): the cached Get, then Create when nothing is cached
ensureCreate ==
    /\ pc = "ensure" /\ ~Exists(cmCache) /\ ~Exists(cm)
    /\ cm' = Written(goal, rv + 1)
    /\ rv' = rv + 1 /\ ownRv' = rv + 1
    /\ Goto(AfterEnsure)
    /\ UNCHANGED <<secret, used, seen, obs, effective>>

\* AlreadyExists: the object is read again from the API server.
ensureReread ==
    /\ pc = "ensure" /\ ~Exists(cmCache) /\ Exists(cm)
    /\ seen' = cm
    /\ Goto("update")
    /\ UNCHANGED <<apiVars, obs, effective>>

ensureGet ==
    /\ pc = "ensure" /\ Exists(cmCache)
    /\ seen' = cmCache
    /\ Goto("update")
    /\ UNCHANGED <<apiVars, obs, effective>>

\* checkResourceOwnership refuses, or the Update meets a newer version
ensureFail ==
    /\ pc = "update"
    /\ \/ ~seen.owned
       \/ ~UpToDate(goal, seen) /\ seen.rv # cm.rv
    /\ Goto("idle")
    /\ UNCHANGED <<apiVars, seen, obs, effective>>

ensureSkip ==
    /\ pc = "update"
    /\ seen.owned /\ UpToDate(goal, seen)
    /\ Goto(AfterEnsure)
    /\ UNCHANGED <<apiVars, seen, obs, effective>>

ensureUpdate ==
    /\ pc = "update"
    /\ seen.owned /\ ~UpToDate(goal, seen)
    /\ seen.rv = cm.rv
    /\ cm' = Written(goal, rv + 1)
    /\ rv' = rv + 1 /\ ownRv' = rv + 1
    /\ Goto(AfterEnsure)
    /\ UNCHANGED <<secret, used, seen, obs, effective>>

\* ensureResourceChanged after the ownership check
ensureApply == IF UpToDate(goal, seen) THEN ensureSkip ELSE ensureUpdate

\* createOrGetAuditHashKeySecret found a Secret; initializeAuditHashKey
\* validates it and goes on to commit its fingerprint.
useExistingSecret ==
    LET s == secretCache[kn.name] IN
    /\ pc = "initialize" /\ Found(s)
    /\ Generated(kn) => operatorGeneratedAuditHashKeySecret(s)
    /\ s.key \in Keys
    /\ obs' = s.key
    /\ goal' = Ready(kn, s.key)
    /\ pc' = "ensure"
    /\ UNCHANGED <<ref, kn, apiVars, cacheVars, seen, effective, edits, crashes>>

rejectSecret ==
    LET s == secretCache[kn.name] IN
    /\ pc = "initialize"
    /\ \/ ~Found(s) /\ ~Generated(kn)
       \/ ~Found(s) /\ Generated(kn) /\ Found(secret[kn.name]) \* AlreadyExists
       \/ Found(s) /\ Generated(kn) /\ ~operatorGeneratedAuditHashKeySecret(s)
       \/ s.key = BadKey
    /\ Goto("idle")
    /\ UNCHANGED <<apiVars, seen, obs, effective>>

createGeneratedSecret(k) ==
    /\ pc = "initialize" /\ Generated(kn)
    /\ ~Found(secretCache[kn.name]) /\ ~Found(secret[kn.name])
    /\ k \notin used \cup OwnKeys
    /\ secret' = [secret EXCEPT ![kn.name] = Generate(k)]
    /\ used' = used \cup {k}
    /\ obs' = k
    /\ goal' = Ready(kn, k)
    /\ pc' = "ensure"
    /\ UNCHANGED <<ref, kn, cm, rv, ownRv, cacheVars, seen, effective, edits, crashes>>

\* Mutant: a missing committed Secret is provisioned again.
reprovisionMissing ==
    /\ pc = "validate"
    /\ LET s == secretCache[kn.name] IN
       /\ obs' = s.key
       /\ Goto(IF ~Found(s) THEN "initialize"
               ELSE IF validateEffectiveAuditHashKeySecret(s, kn, goal.keyFingerprint)
               THEN "deploy" ELSE "idle")
    /\ UNCHANGED <<apiVars, seen, effective>>

\* validateEffectiveAuditHashKeySecret on a committed key
validateCommitted ==
    /\ pc = "validate"
    /\ LET s == secretCache[kn.name] IN
       /\ obs' = s.key
       /\ Goto(IF validateEffectiveAuditHashKeySecret(s, kn, goal.keyFingerprint)
               THEN "deploy" ELSE "idle")
    /\ UNCHANGED <<apiVars, seen, effective>>

\* No error: phaseValidate goes on and DataStorage gets the key.
deploy ==
    /\ pc = "deploy"
    /\ effective' = effective \cup {obs}
    /\ Goto("idle")
    /\ UNCHANGED <<apiVars, seen, obs>>

-----------------------------------------------------------------------------
(* The environment.                                                        *)

SyncState ==
    /\ cmCache # cm
    /\ cmCache' = cm
    /\ UNCHANGED <<ref, apiVars, secretCache, runVars, effective, edits, crashes>>

SyncSecret(n) ==
    /\ secretCache[n] # secret[n]
    /\ secretCache' = [secretCache EXCEPT ![n] = secret[n]]
    /\ UNCHANGED <<ref, apiVars, cmCache, runVars, effective, edits, crashes>>

\* A restarted operator lists everything before its first reconcile.
Crash ==
    /\ crashes < MaxCrashes
    /\ pc # "idle"
    /\ crashes' = crashes + 1
    /\ pc' = "idle"
    /\ cmCache' = cm /\ secretCache' = secret
    /\ UNCHANGED <<ref, apiVars, kn, goal, seen, obs, effective, edits>>

Edit ==
    /\ edits < MaxEdits
    /\ edits' = edits + 1
    /\ UNCHANGED <<cacheVars, runVars, effective, crashes>>

EditSpec(r) ==
    /\ Edit
    /\ r # ref
    /\ ref' = r
    /\ UNCHANGED apiVars

\* The administrator writes a Secret; the operator's own is immutable.
WriteSecret(n, k) ==
    /\ Edit
    /\ ~secret[n].operator
    /\ k \in OwnKeys \cup used \cup {BadKey}
    /\ secret' = [secret EXCEPT ![n] =
                    [key |-> k, operator |-> FALSE, terminating |-> FALSE]]
    /\ UNCHANGED <<ref, cm, rv, ownRv, used>>

\* A finalizer turns a deletion into a deletion timestamp.
DeleteSecret(n) ==
    /\ Edit
    /\ Found(secret[n])
    /\ secret' = [secret EXCEPT ![n] =
                    IF @.operator THEN Terminating(@.key) ELSE NoSecret]
    /\ UNCHANGED <<ref, cm, rv, ownRv, used>>

LoseSecret(n) ==
    /\ SecretLoss
    /\ Edit
    /\ secret[n].operator
    /\ secret' = [secret EXCEPT ![n] = NoSecret]
    /\ UNCHANGED <<ref, cm, rv, ownRv, used>>

\* A lost Secret comes back from a backup, of this key or an older one.
RestoreSecret(k) ==
    /\ Edit
    /\ Exists(cm) /\ ~Found(secret[GenName]) /\ k \in used
    /\ secret' = [secret EXCEPT ![GenName] = Generate(k)]
    /\ UNCHANGED <<ref, cm, rv, ownRv, used>>

AlterState(o, p) ==
    /\ Edit
    /\ Exists(cm)
    /\ o # cm.owned \/ p # cm.protected
    /\ cm' = Altered(cm, o, p, rv + 1)
    /\ rv' = rv + 1
    /\ UNCHANGED <<ref, secret, ownRv, used>>

-----------------------------------------------------------------------------
Operator ==
    \/ initializeNewAuditHashKey \/ rejectState \/ correctPendingIdentity
    \/ resumePending \/ checkCommitted \/ refuseAdoption
    \/ ensureCreate \/ ensureReread \/ ensureGet
    \/ ensureFail \/ ensureApply
    \/ useExistingSecret \/ rejectSecret
    \/ \E k \in Keys : createGeneratedSecret(k)
    \/ validateCommitted \/ deploy

Cache == SyncState \/ \E n \in Names : SyncSecret(n)

Admin ==
    \/ \E r \in SpecRefs : EditSpec(r)
    \/ \E n \in Names, k \in Keys \cup {BadKey} : WriteSecret(n, k)
    \/ \E n \in Names : DeleteSecret(n) \/ LoseSecret(n)
    \/ \E k \in Keys : RestoreSecret(k)
    \/ \E o, p \in BOOLEAN : AlterState(o, p)

Next == Operator \/ Cache \/ Crash \/ Admin

Spec == Init /\ [][Next]_vars

\* The work queue retries a failed reconcile and informers deliver events.
Fairness == WF_vars(Operator) /\ WF_vars(Cache)

FairSpec == Spec /\ Fairness

-----------------------------------------------------------------------------
(* Properties.                                                             *)

\* Every variable keeps its shape; a committed fingerprint is a valid key.
TypeOK ==
    /\ ref \in SpecRefs /\ kn \in SpecRefs
    /\ cm \in StateCM /\ cmCache \in StateCM /\ seen \in StateCM
    /\ secret \in [Names -> Secrets] /\ secretCache \in [Names -> Secrets]
    /\ rv \in Nat /\ ownRv \in Nat
    /\ pc \in {"idle", "refuseAdoption", "ensure", "update", "initialize",
               "validate", "deploy"}
    /\ goal \in [phase : {"provisioning", "ready"}, ref : SpecRefs,
                 keyFingerprint : Keys \cup {NoKey}]
    /\ obs \in Keys \cup {NoKey, BadKey}
    /\ used \subseteq Keys
    /\ effective \subseteq Keys
    /\ edits \in 0..MaxEdits /\ crashes \in 0..MaxCrashes

\* DataStorage is never deployed with two different keys ("replacing it would
\* make existing HMAC records unverifiable"), whatever the administrator does
\* to the reference and the Secrets and wherever the operator crashes.
OneEffectiveKey == \A a, b \in effective : a = b

\* A key DataStorage signs with is the one whose fingerprint is on record, so
\* a replaced Secret can still be told from the original.
EffectiveKeyIsOnRecord ==
    \A k \in effective : cm.phase = "ready" /\ cm.keyFingerprint = k

\* No crash leaves a generated Secret without its state marker: the next
\* reconcile would refuse to adopt the operator's own Secret forever.
NoSelfLockout ==
    (\E n \in Names : Found(secret[n]) /\ secret[n].operator) => Exists(cm)

\* "a lost initialized Secret fails closed instead of being regenerated":
\* once the fingerprint is committed no step creates a new key.
LostKeyIsNotRegenerated ==
    [][cm.phase = "ready" => ~\E k \in Keys : createGeneratedSecret(k)]_vars

\* The detailed protocol implements a register that is written once.
Committed == INSTANCE WriteOnceKey WITH
    committed <- IF cm.phase = "ready" THEN cm.keyFingerprint ELSE NoKey

\* The state ConfigMap and the deployed keys behave like that register.
ImplementsWriteOnceKey == Committed!Spec

\* Left alone, a generated key is eventually provisioned and deployed, after
\* crashes at any point of the protocol and behind a lagging cache.
KeyIsProvisioned == [](ref = GeneratedRef /\ edits = 0) => <>(effective # {})
=============================================================================
