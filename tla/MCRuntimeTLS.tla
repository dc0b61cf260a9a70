----------------------------- MODULE MCRuntimeTLS -----------------------------
(* Small instance of RuntimeTLS for TLC. *)
EXTENDS RuntimeTLS

TLS(mode, names, issuer, bootstrap) ==
  [mode |-> mode, names |-> names, issuer |-> issuer, bootstrap |-> bootstrap]

ServiceCA   == TLS("service-ca", "default", None, "bootstrap-issuer")
Provisioned == TLS("provisioned", "default", None, "bootstrap-issuer")
Renamed     == TLS("provisioned", "default", None, "renamed-issuer")
Named       == TLS("provisioned", "default", "ext1", "renamed-issuer")
Referenced  == TLS("referenced", "own", "ext1", "bootstrap-issuer")
Manual      == TLS("manual", "default", None, "bootstrap-issuer")
ManualOwn   == TLS("manual", "own", None, "bootstrap-issuer")

MCInit == {ServiceCA, Provisioned, Referenced, Manual}

\* Between the modes that share their Secrets, from the provisioned mode to
\* other names of its own, and to Secrets of the administrator.
MCEdits ==
  {<<ServiceCA, Manual>>, <<Manual, ServiceCA>>, <<Provisioned, ServiceCA>>, <<Provisioned, Manual>>,
   <<Provisioned, Renamed>>, <<Provisioned, Named>>, <<Referenced, Provisioned>>, <<Referenced, ManualOwn>>,
   <<Manual, Referenced>>}
==============================================================================
