------------------------------ MODULE RuntimeTLS ------------------------------
(***************************************************************************)
(* Runtime TLS: where the serving certificates come from, when the         *)
(* operator calls them ready, and who may write the caBundle of the two    *)
(* admission webhook configurations.                                       *)
(*                                                                         *)
(* Four modes share the code (resources.ResolveTLSMaterial):               *)
(*   service-ca   OpenShift issues everything after the Services exist;    *)
(*   provisioned  the operator creates cert-manager Issuers/Certificates;  *)
(*   referenced   the administrator's cert-manager Secrets are used;       *)
(*   manual       the administrator's Secrets, and their caBundle.         *)
(* The caBundle belongs to the platform, to the cainjector or to the       *)
(* administrator; ensureWebhookConfiguration therefore reads the persisted *)
(* configuration, copies the bundle into the desired one, and the generic  *)
(* engine then reads it a second time and writes it.  All those reads are  *)
(* served by the manager's cache.                                          *)
(*                                                                         *)
(* By default the modes use the same names: the serving Secrets, the       *)
(* signing Secret and the trust ConfigMap are one object each, whoever     *)
(* wrote them last, and the generated cert-manager objects outlive their   *)
(* mode.  An administrator may name Secrets of their own instead.          *)
(* A certificate is represented by the CA that signed it.                  *)
(***************************************************************************)
EXTENDS Naturals, Sequences

CONSTANTS InitSpecs,     \* the spec.tls the CR may be created with
          Edits,         \* the changes of it, pairs of old and new
          OpenShift,     \* is this an OpenShift cluster?
          MaxEvents      \* bound: edits of spec.tls, passes cut short and
                         \* changes of the external issuers, together

Modes    == {"service-ca", "provisioned", "referenced", "manual"}
Webhooks == {"mutating", "validating"}
External == {"ext1", "ext2"}  \* issuers (and CAs) of the administrator
None     == "none"

\* Names that provisioning.bootstrapIssuerName may take.
Bootstraps == {"bootstrap-issuer", "renamed-issuer"}

\* spec.tls: the mode, default or own names of Secrets, the external issuer
\* (None: select the only one there is), the name of the bootstrap Issuer.
TLSSpecs ==
  {s \in [mode : Modes, names : {"default", "own"}, issuer : External \cup {None}, bootstrap : Bootstraps] :
     s.mode \in {"service-ca", "provisioned"} => s.names = "default"}

ASSUME RuntimeTLSAssumption ==
  InitSpecs \subseteq TLSSpecs /\ Edits \subseteq TLSSpecs \X TLSSpecs /\ OpenShift \in BOOLEAN /\ MaxEvents \in Nat

NoTLS == [mode |-> None, names |-> None, issuer |-> None, bootstrap |-> None]

CAs == {None, "platform", "cm1", "cm2", "admin"} \cup External \cup Bootstraps \cup {"ca-issuer"}

VARIABLES tls,           \* spec.tls of the CR; a lagging copy is a later edit
          phase, step,   \* the pass: phase and webhook sub-step
          knTLS,         \* the pass's copy of spec.tls
          found,         \* configuration ensureWebhookConfiguration read first
          caRead,        \* CA bundle ensureRuntimeTLS returned to this pass
          wh,            \* the persisted webhook configurations
          cwh, fresh,    \* the cache's copy, and whether it is the current one
          certs,         \* the generated cert-manager objects
          issuerRef,     \* issuer the AuthWebhook certificate names
          issuers,       \* external issuers in the namespace
          mat,           \* the Secrets with default and with own names
          signing,       \* is there a signing Secret?
          trust,         \* the trust ConfigMap
          refused,       \* Services with a serving-cert-generation-error
          deployed,      \* spec.tls of the last pass that reached the workloads
          tlsReady,      \* condition TLSReady
          events, edited \* counted against the bound; was spec.tls edited?

pass     == <<phase, step, knTLS, found, caRead>>
hooks    == <<wh, cwh, fresh>>
cm       == <<certs, issuerRef, issuers>>
material == <<mat, signing, trust, refused>>
bounds   == <<events, edited>>
tlsVars  == <<tls, pass, hooks, cm, material, deployed, tlsReady, bounds>>

-----------------------------------------------------------------------------
(* Sources.                                                                *)

\* A referenced source must name its issuer and every Secret.
ResolveTLSMaterial(s) == s.mode = "referenced" => s.issuer # None /\ s.names = "own"

\* Manual mode with default names takes the CA from the trust ConfigMap.
readRuntimeTLSCA(s) ==
  IF s.mode = "manual" /\ s.names = "default" THEN trust.ca ELSE mat[s.names].ca

\* The generated objects, in the order they are created.  "aw" stands for
\* the AuthWebhook and the signing certificate, which name the external
\* issuer; "leaf" for the services', which are signed by the generated CA.
CertManagerTLSResources(s) == <<s.bootstrap, "ca", "ca-issuer", "leaf", "aw">>

Resources(s, n) == {CertManagerTLSResources(s)[i] : i \in 1..n}

Certificates     == {"ca", "leaf", "aw"}
GeneratedIssuers == Bootstraps \cup {"ca-issuer"}
CertObjects      == Certificates \cup GeneratedIssuers

CertManagerBootstrapIssuerNames(s) == {s.bootstrap, "ca-issuer"}

Issuers == issuers \cup {o \in GeneratedIssuers : certs[o] # "absent"}

\* The candidates.  Those that this CR controls under a name it generates now
\* are none; one that it generated under a former name is.
selectSingleCertManagerIssuer(s) == Issuers \ CertManagerBootstrapIssuerNames(s)

\* The issuer in a set, none when it cannot be resolved: the one that is named
\* and exists, or the only candidate.
resolveCertManagerIssuer(s) ==
  {i \in Issuers : IF s.issuer # None THEN i = s.issuer ELSE selectSingleCertManagerIssuer(s) = {i}}

\* Creates the first n objects; a new Certificate is not ready.
ensureCertManagerTLSResources(s, n) ==
  /\ certs' = [o \in CertObjects |->
                 IF certs[o] = "absent" /\ o \in Resources(s, n)
                 THEN IF o \in GeneratedIssuers THEN "ready" ELSE "pending"
                 ELSE certs[o]]
  /\ issuerRef' = IF n = Len(CertManagerTLSResources(s))
                  THEN CHOOSE i \in resolveCertManagerIssuer(s) : TRUE ELSE issuerRef

\* Both phases that need the objects ensure them first.
Provision(s) ==
  IF s.mode = "provisioned" /\ resolveCertManagerIssuer(s) # {}
  THEN ensureCertManagerTLSResources(s, Len(CertManagerTLSResources(s)))
  ELSE UNCHANGED <<certs, issuerRef>>

validateCertManagerCertificatesReady == \A o \in Certificates : certs[o] = "ready"

validateCertManagerTLS(s) ==
  /\ resolveCertManagerIssuer(s) # {}
  /\ s.mode = "provisioned" => validateCertManagerCertificatesReady

\* What the certificate checks tell apart: there is none, or who signed it.
ValidateInternalCASecret(ca)                  == ca # None
ValidateAuthWebhookTLSSecret(cert)            == cert # None
ValidateServingTLSSecretForService(cert, ca) == cert # None /\ cert = ca

\* Provisioned and manual AuthWebhook certificates may have another CA.
validateRuntimeTLSSecrets(s) ==
  /\ ValidateServingTLSSecretForService(mat[s.names].leaf, readRuntimeTLSCA(s))
  /\ IF s.mode = "referenced" THEN ValidateServingTLSSecretForService(mat[s.names].aw, readRuntimeTLSCA(s))
                              ELSE ValidateAuthWebhookTLSSecret(mat[s.names].aw)

\* Only these modes have a signing Secret that nobody has to name.
SigningSecretValid(s) == s.mode \in {"provisioned", "manual"} => signing

\* Everything that is asked of an explicit mode before its webhooks.
validateExplicitTLS(s) ==
  /\ ResolveTLSMaterial(s)
  /\ s.mode \in {"provisioned", "referenced"} => validateCertManagerTLS(s)
  /\ ValidateInternalCASecret(readRuntimeTLSCA(s))
  /\ validateRuntimeTLSSecrets(s)
  /\ SigningSecretValid(s)

\* Nothing is asked of the material that OpenShift has still to issue.
SourceValid(s) == IF s.mode = "service-ca" THEN OpenShift ELSE validateExplicitTLS(s)

-----------------------------------------------------------------------------
(* Webhook configurations.                                                 *)

NoConfiguration == [bundle |-> None, inject |-> "absent", hash |-> <<None, "absent">>]

Exists(c) == c.inject # "absent"

\* The injection annotation of the mode's desired configuration.
InjectFor(m) == CASE m = "service-ca"  -> "service-ca"
                  [] m = "provisioned" -> "cert-manager"
                  [] OTHER             -> "nobody"

\* Mutant: the observed bundle is preserved in every mode.
preserveWebhookCABundleAlways(observed) == observed.bundle

\* The bundle of the desired configuration: the operator's own in referenced
\* mode, else the one it observed.
preserveWebhookCABundle(observed) == IF knTLS.mode = "referenced" THEN caRead ELSE observed.bundle

\* The annotations are merged, and those of the other injectors removed.
mergeAnnotations(observed) == InjectFor(knTLS.mode)

\* Mutant: the bundle is preserved in the copy that is hashed only.
DesiredHashOnly(observed) ==
  LET b == preserveWebhookCABundle(observed)
      i == mergeAnnotations(observed)
  IN  [bundle |-> None, inject |-> i, hash |-> <<b, i>>]

\* What is written, spec hash included.
Desired(observed) ==
  LET b == preserveWebhookCABundle(observed)
      i == mergeAnnotations(observed)
  IN  [bundle |-> b, inject |-> i, hash |-> <<b, i>>]

-----------------------------------------------------------------------------
(* The trust ConfigMap, inter-service-ca, which stands for its siblings.    *)

\* ensureNamespaced refuses what this CR does not control; in manual mode
\* the administrator's ConfigMap is left as it is.
TrustRefused(s) == s.mode # "manual" /\ trust.owner = "admin"

\* Written without data for the platform to inject, or with the CA.  The
\* injected key is none that contentDrifted compares.
ensureTLSConfigMaps(s) ==
  trust' = CASE s.mode = "manual"     -> trust
             [] s.mode = "service-ca" ->
                  IF trust.inject THEN trust ELSE [ca |-> None, owner |-> "operator", inject |-> TRUE]
             [] OTHER                 ->
                  [ca |-> readRuntimeTLSCA(s), owner |-> "operator", inject |-> FALSE]

-----------------------------------------------------------------------------
(* The pass.                                                               *)

\* Reconcile returns; the pass's local variables go with it.
Idle == phase' = "idle" /\ step' = 0 /\ knTLS' = NoTLS /\ found' = NoConfiguration /\ caRead' = None

Validated == phase' = "validated" /\ step' = 0 /\ tlsReady' = TRUE

\* setConditionAndRequeue: the pass ends and is tried again later.
Fail == Idle /\ tlsReady' = FALSE

\* validateTLSConfiguration of phaseValidate, up to the webhooks.
validateTLSConfiguration ==
  /\ phase = "idle"
  /\ Provision(tls)
  /\ \/ /\ ~SourceValid(tls)
        /\ Fail
     \/ /\ SourceValid(tls) /\ tls.mode \in {"service-ca", "referenced"}
        /\ Validated /\ knTLS' = tls /\ UNCHANGED <<found, caRead>>
     \/ /\ SourceValid(tls) /\ tls.mode \in {"provisioned", "manual"}
        /\ phase' = "validate" /\ step' = 1 /\ knTLS' = tls /\ UNCHANGED <<found, caRead, tlsReady>>
  /\ UNCHANGED <<tls, hooks, issuers, material, deployed, bounds>>

Event == events < MaxEvents /\ events' = events + 1

\* A read fails, or discovery does not answer.
ValidationError ==
  /\ phase = "idle" /\ Fail /\ Event
  /\ UNCHANGED <<tls, hooks, cm, material, deployed, edited>>

\* A pass that stops while the generated objects are being created.
PartialProvisioning(n) ==
  /\ phase = "idle" /\ tls.mode = "provisioned" /\ resolveCertManagerIssuer(tls) # {}
  /\ n < Len(CertManagerTLSResources(tls))
  /\ ensureCertManagerTLSResources(tls, n) /\ Fail /\ Event
  /\ UNCHANGED <<tls, hooks, issuers, material, deployed, edited>>

Hook == IF step \in {1, 2} THEN "mutating" ELSE "validating"

\* ensureWebhookConfiguration: the first read.
ensureWebhookConfiguration ==
  /\ phase \in {"validate", "deploy"} /\ step \in {1, 3}
  /\ found' = cwh[Hook] /\ step' = step + 1
  /\ UNCHANGED <<tls, phase, knTLS, caRead, hooks, cm, material, deployed, tlsReady, bounds>>

\* ensureServices: an error stays as long as the Secret is there.
clearStaleServingCertErrors ==
  refused' = {c \in refused : knTLS.mode = "service-ca" => mat["default"][c] # None}

\* The mutating configuration, then the validating one, then what follows in
\* the phase: the bundle check, or the workloads and the end of the pass.
Advance ==
  \/ /\ step = 2 /\ step' = 3 /\ found' = NoConfiguration
     /\ UNCHANGED <<phase, knTLS, caRead, refused, deployed>>
  \/ /\ step = 4 /\ phase = "validate"
     /\ phase' = "bundles" /\ step' = 0 /\ found' = NoConfiguration
     /\ UNCHANGED <<knTLS, caRead, refused, deployed>>
  \/ /\ step = 4 /\ phase = "deploy"
     /\ clearStaleServingCertErrors /\ Idle /\ deployed' = knTLS

Write(w, object) ==
  wh' = [wh EXCEPT ![w] = object] /\ fresh' = [fresh EXCEPT ![w] = FALSE] /\ UNCHANGED cwh

\* ensureResource: the second read and the write.  An unseen configuration is
\* created, or read from the API server if it is there already; an update
\* from an outdated copy is a conflict and ends the pass.
ensureUnowned ==
  /\ phase \in {"validate", "deploy"} /\ step \in {2, 4}
  /\ LET d == Desired(found)
         existing == IF Exists(cwh[Hook]) THEN cwh[Hook] ELSE wh[Hook]
     IN  \/ Exists(existing) /\ existing.hash = d.hash
              /\ Advance /\ UNCHANGED <<hooks, tlsReady>>
         \/ Exists(cwh[Hook]) /\ existing.hash # d.hash /\ ~fresh[Hook]
              /\ (IF phase = "validate" THEN Fail ELSE Idle /\ UNCHANGED tlsReady)
              /\ UNCHANGED <<hooks, refused, deployed>>
         \/ (Exists(cwh[Hook]) => fresh[Hook]) /\ existing.hash # d.hash
              /\ Write(Hook, d) /\ Advance /\ UNCHANGED tlsReady
  /\ UNCHANGED <<tls, cm, mat, signing, trust, bounds>>

\* Mutant: only the first of the two configurations is looked at.
validateWebhookCABundlesFirst ==
  /\ phase = "bundles"
  /\ IF cwh["mutating"].bundle # None THEN Validated /\ UNCHANGED <<knTLS, found, caRead>> ELSE Fail
  /\ UNCHANGED <<tls, hooks, cm, material, deployed, bounds>>

\* The bundles must be there before TLS is called ready.
validateWebhookCABundles ==
  /\ phase = "bundles"
  /\ IF \A w \in Webhooks : cwh[w].bundle # None
     THEN Validated /\ UNCHANGED <<knTLS, found, caRead>> ELSE Fail
  /\ UNCHANGED <<tls, hooks, cm, material, deployed, bounds>>

\* What ensureRuntimeTLS cannot do without, after it has ensured the
\* generated objects.
RuntimeTLSResolved(s) ==
  s.mode # "service-ca" =>
    /\ ResolveTLSMaterial(s)
    /\ s.mode = "provisioned" => resolveCertManagerIssuer(s) # {}
    /\ ValidateInternalCASecret(readRuntimeTLSCA(s))
    /\ SigningSecretValid(s)

\* phaseMigrate, with the CR as it is now: a failure is no verdict on TLS.
ensureMigrationPrereqs ==
  /\ phase = "validated"
  /\ Provision(tls)
  /\ IF RuntimeTLSResolved(tls) /\ ~TrustRefused(tls)
     THEN phase' = "migrated" /\ knTLS' = tls /\ ensureTLSConfigMaps(tls) /\ UNCHANGED <<step, found, caRead>>
     ELSE Idle /\ UNCHANGED trust
  /\ UNCHANGED <<tls, hooks, issuers, mat, signing, refused, deployed, tlsReady, bounds>>

\* phaseDeploy, up to the webhooks, again with the CR as it is now.
ensureRuntimeTLS ==
  /\ phase = "migrated"
  /\ Provision(tls)
  /\ \/ ~RuntimeTLSResolved(tls) /\ Fail /\ UNCHANGED trust
     \/ RuntimeTLSResolved(tls) /\ TrustRefused(tls) /\ Idle /\ UNCHANGED <<trust, tlsReady>>
     \/ /\ RuntimeTLSResolved(tls) /\ ~TrustRefused(tls)
        /\ phase' = "deploy" /\ step' = 1 /\ knTLS' = tls /\ UNCHANGED <<found, tlsReady>>
        /\ caRead' = IF tls.mode = "service-ca" THEN None ELSE readRuntimeTLSCA(tls)
        /\ ensureTLSConfigMaps(tls)
  /\ UNCHANGED <<tls, hooks, issuers, mat, signing, refused, deployed, bounds>>

\* An API error, a crash, or a migration that is not over yet; the next pass
\* starts over.
AbortTLS ==
  /\ phase # "idle" /\ Idle /\ Event
  /\ UNCHANGED <<tls, hooks, cm, material, deployed, tlsReady, edited>>

Reconcile ==
  \/ validateTLSConfiguration \/ ensureWebhookConfiguration \/ ensureUnowned
  \/ validateWebhookCABundles \/ ensureMigrationPrereqs \/ ensureRuntimeTLS

-----------------------------------------------------------------------------
(* The environment.                                                        *)

\* The administrator changes spec.tls: between passes or between the phases
\* of one, since a phase does not read the CR again.
EditTLS(e) ==
  /\ phase \in {"idle", "validated", "migrated"} /\ tls = e[1] /\ tls' = e[2] /\ edited' = TRUE /\ Event
  /\ UNCHANGED <<pass, hooks, cm, material, deployed, tlsReady>>

Deliver(w) ==
  /\ ~fresh[w] /\ cwh' = [cwh EXCEPT ![w] = wh[w]] /\ fresh' = [fresh EXCEPT ![w] = TRUE]
  /\ UNCHANGED <<tls, pass, wh, cm, material, deployed, tlsReady, bounds>>

SetBundle(w, ca) ==
  /\ ca # None /\ wh[w].bundle # ca /\ Write(w, [wh[w] EXCEPT !.bundle = ca])
  /\ UNCHANGED <<tls, pass, cm, material, deployed, tlsReady, bounds>>

\* The platform's and cert-manager's injectors follow the annotation; the
\* administrator writes the bundle in manual mode.
Inject(w) ==
  \/ wh[w].inject = "service-ca" /\ SetBundle(w, "platform")
  \/ wh[w].inject = "cert-manager" /\ certs["aw"] = "ready" /\ SetBundle(w, mat["default"].aw)
  \/ wh[w].inject = "nobody" /\ tls.mode = "manual" /\ SetBundle(w, mat[tls.names].aw)

\* OpenShift issues the Secrets that the Services ask for.  It does not touch
\* one that somebody else has issued, and leaves an error on the Service.
PlatformIssues ==
  LET asked == {"leaf", "aw"} \ refused IN
  /\ OpenShift /\ deployed.mode = "service-ca"
  /\ mat' = [mat EXCEPT !["default"] =
               [c \in DOMAIN @ |-> IF c \in asked /\ @[c] = None THEN "platform" ELSE @[c]]]
  /\ refused' = refused \cup {c \in asked : mat["default"][c] \notin {None, "platform"}}
  /\ <<mat, refused>>' # <<mat, refused>>
  /\ UNCHANGED <<tls, pass, hooks, cm, signing, trust, deployed, tlsReady, bounds>>

\* OpenShift fills every ConfigMap that asks for its CA.
PlatformTrust ==
  /\ OpenShift /\ trust.inject /\ trust.ca # "platform" /\ trust' = [trust EXCEPT !.ca = "platform"]
  /\ UNCHANGED <<tls, pass, hooks, cm, mat, signing, refused, deployed, tlsReady, bounds>>

\* The administrator supplies what the mode expects of them, where neither
\* cert-manager nor the platform overwrites it.
Supply ==
  /\ tls.mode \in {"referenced", "manual"}
  /\ tls.names = "default" => \A o \in Certificates : certs[o] = "absent"
  /\ mat' = [mat EXCEPT ![tls.names] =
               [ca |-> IF tls.names = "own" THEN "admin" ELSE @.ca, leaf |-> "admin", aw |-> "admin"]]
  /\ IF tls.mode = "manual"
     THEN /\ signing' = TRUE
          /\ trust' = IF trust.inject THEN trust
                      ELSE [trust EXCEPT !.ca = "admin", !.owner = IF @ = None THEN "admin" ELSE @]
     ELSE UNCHANGED <<signing, trust>>
  /\ <<mat, signing, trust>>' # <<mat, signing, trust>>
  /\ UNCHANGED <<tls, pass, hooks, cm, refused, deployed, tlsReady, bounds>>

\* cert-manager issues each Certificate, into the default Secrets and over
\* whatever they hold, the services' after their CA.
CertManagerIssues(o) ==
  LET s == mat["default"] IN
  /\ certs[o] # "absent" /\ certs' = [certs EXCEPT ![o] = "ready"]
  /\ \/ /\ o = "ca" /\ mat' = [mat EXCEPT !["default"].ca = IF s.ca = None THEN "cm1" ELSE s.ca]
        /\ UNCHANGED signing
     \/ /\ o = "leaf" /\ s.ca # None /\ mat' = [mat EXCEPT !["default"].leaf = s.ca]
        /\ UNCHANGED signing
     \/ /\ o = "aw" /\ issuerRef \in Issuers /\ mat' = [mat EXCEPT !["default"].aw = issuerRef]
        /\ signing' = TRUE
  /\ <<certs, mat, signing>>' # <<certs, mat, signing>>
  /\ UNCHANGED <<tls, pass, hooks, issuerRef, issuers, trust, refused, deployed, tlsReady, bounds>>

RenewCA ==
  /\ certs["ca"] = "ready" /\ mat["default"].ca = "cm1" /\ mat' = [mat EXCEPT !["default"].ca = "cm2"] /\ Event
  /\ UNCHANGED <<tls, pass, hooks, cm, signing, trust, refused, deployed, tlsReady, edited>>

ChangeIssuers(s) ==
  /\ s # issuers /\ issuers' = s /\ Event
  /\ UNCHANGED <<tls, pass, hooks, certs, issuerRef, material, deployed, tlsReady, edited>>

NoTrust == [ca |-> None, owner |-> None, inject |-> FALSE]

\* The generated objects that spec.tls does not ask for any more.
Abandoned ==
  {o \in CertObjects : certs[o] # "absent"}
    \ IF tls.mode = "provisioned" THEN Resources(tls, Len(CertManagerTLSResources(tls))) ELSE {}

\* The administrator may clear away what a former mode has left and nobody
\* else removes: generated objects, Secrets, the ConfigMap.
RemoveLeftovers ==
  /\ certs' = [o \in CertObjects |-> IF o \in Abandoned THEN "absent" ELSE certs[o]]
  /\ mat' = IF tls.mode = "service-ca" /\ {mat["default"].leaf, mat["default"].aw} \ {None, "platform"} # {}
            THEN [mat EXCEPT !["default"].leaf = None, !["default"].aw = None] ELSE mat
  /\ trust' = IF TrustRefused(tls) \/ (tls.mode = "manual" /\ trust.inject) THEN NoTrust ELSE trust
  /\ <<certs, mat, trust>>' # <<certs, mat, trust>>
  /\ UNCHANGED <<tls, pass, hooks, issuerRef, issuers, signing, refused, deployed, tlsReady, bounds>>

InitTLS ==
  /\ tls \in InitSpecs
  /\ phase = "idle" /\ step = 0 /\ knTLS = NoTLS /\ found = NoConfiguration /\ caRead = None
  /\ wh = [w \in Webhooks |-> NoConfiguration] /\ cwh = wh /\ fresh = [w \in Webhooks |-> TRUE]
  /\ certs = [o \in CertObjects |-> "absent"] /\ issuerRef = None /\ issuers = {"ext1"}
  /\ mat = [n \in {"default", "own"} |-> [ca |-> None, leaf |-> None, aw |-> None]]
  /\ signing = FALSE /\ trust = NoTrust /\ refused = {}
  /\ deployed = NoTLS /\ tlsReady = FALSE
  /\ events = 0 /\ edited = FALSE

Issuance == PlatformIssues \/ PlatformTrust \/ Supply \/ \E o \in Certificates : CertManagerIssues(o)

Environment == (\E w \in Webhooks : Deliver(w) \/ Inject(w)) \/ Issuance

Administrator ==
  \/ \E e \in Edits : EditTLS(e)
  \/ RemoveLeftovers \/ \E s \in SUBSET External : ChangeIssuers(s)

NextTLS ==
  \/ Reconcile \/ Environment \/ Administrator \/ RenewCA
  \/ AbortTLS \/ ValidationError \/ \E n \in 1..4 : PartialProvisioning(n)

SpecTLS == InitTLS /\ [][NextTLS]_tlsVars

\* No event of a webhook configuration starts a pass, so that the next one is
\* a requeue interval away: its cache catches up in between, now and then.
\* The administrator supplies what is asked for; they need not clear anything
\* away.
FairSpecTLS ==
  /\ SpecTLS /\ WF_tlsVars(Reconcile)
  /\ \A w \in Webhooks : SF_tlsVars(phase = "idle" /\ Deliver(w))
  /\ WF_tlsVars(\E w \in Webhooks : Inject(w)) /\ WF_tlsVars(Issuance)

-----------------------------------------------------------------------------
(* Properties.                                                             *)

Configurations ==
  [bundle : CAs, inject : {"absent", "service-ca", "cert-manager", "nobody"},
   hash : CAs \X {"absent", "service-ca", "cert-manager", "nobody"}]

TypeOKTLS ==
  /\ tls \in TLSSpecs /\ {knTLS, deployed} \subseteq TLSSpecs \cup {NoTLS}
  /\ phase \in {"idle", "validate", "bundles", "validated", "migrated", "deploy"}
  /\ step \in 0..4 /\ (step # 0) = (phase \in {"validate", "deploy"})
  /\ found \in Configurations
  /\ wh \in [Webhooks -> Configurations] /\ cwh \in [Webhooks -> Configurations]
  /\ fresh \in [Webhooks -> BOOLEAN] /\ \A w \in Webhooks : fresh[w] => cwh[w] = wh[w]
  /\ certs \in [CertObjects -> {"absent", "pending", "ready"}]
  /\ issuers \subseteq External /\ issuerRef \in External \cup GeneratedIssuers \cup {None}
  /\ caRead \in CAs
  /\ mat \in [{"default", "own"} -> [ca : CAs, leaf : CAs, aw : CAs]]
  /\ signing \in BOOLEAN /\ refused \subseteq {"leaf", "aw"}
  /\ trust \in [ca : CAs, owner : {None, "operator", "admin"}, inject : BOOLEAN]
  /\ tlsReady \in BOOLEAN /\ edited \in BOOLEAN /\ events \in 0..MaxEvents

\* A pass that has validated the TLS of an explicit mode whose bundle someone
\* else writes has not just seen both bundles in its cache: both persisted
\* configurations carry one (validateTLSWebhookReadiness).  Stated for a CR
\* whose spec.tls was never edited.
ReadyBundles ==
  ~edited /\ phase = "validated" /\ knTLS.mode \in {"provisioned", "manual"}
    => \A w \in Webhooks : wh[w].bundle # None

\* A write of the operator never empties a bundle, however old the copies are
\* that it reads (ensureWebhookConfiguration: "a normal desired-object update
\* would erase that field on every reconcile").  Stated, again, for a CR whose
\* spec.tls was never edited.
KeepsBundle ==
  [][~edited => \A w \in Webhooks : wh'[w].bundle = None => wh[w].bundle = None]_tlsVars

\* The one external issuer that can be meant, by name or because there is no
\* other and no Issuer of a former name.
IssuerClear ==
  IF tls.issuer # None THEN tls.issuer \in issuers
  ELSE /\ \E i \in External : issuers = {i}
       /\ \A b \in Bootstraps \ {tls.bootstrap} : certs[b] = "absent"

\* Nobody of a former mode holds what this mode needs.
Unheld ==
  CASE tls.mode = "service-ca"  ->
         /\ \A o \in Certificates : certs[o] = "absent"
         /\ {mat["default"].leaf, mat["default"].aw} \subseteq {None, "platform"}
         /\ trust.owner # "admin"
    [] tls.mode = "manual"      ->
         /\ tls.names = "default" => \A o \in Certificates : certs[o] = "absent"
         /\ ~trust.inject
    [] OTHER                    -> trust.owner # "admin"

Usable ==
  /\ Unheld
  /\ CASE tls.mode = "service-ca"  -> OpenShift
       [] tls.mode = "provisioned" -> IssuerClear
       [] tls.mode = "referenced"  -> tls.names = "own" /\ tls.issuer \in issuers
       [] OTHER                    -> TRUE

\* Once the administrator stops editing, TLS is ready, both webhooks trust the
\* certificate that the AuthWebhook serves in this mode, and the trust
\* ConfigMap holds the CA that signed the services' certificates.  After an
\* edit this is so where nothing of the former mode stands in the way, or once
\* the administrator has cleared it away: interrupted provisioning, injection
\* annotations and errors on the Services do not
\* (clearStaleServingCertErrors: "so the service-CA controller retries").
TLSConverges ==
  <>[](Usable => /\ deployed = tls /\ tlsReady
                 /\ \A w \in Webhooks : wh[w].bundle = mat[tls.names].aw
                 /\ trust.ca = mat[tls.names].leaf)
==============================================================================
