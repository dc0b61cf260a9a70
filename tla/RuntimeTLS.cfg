SPECIFICATION FairSpecTLS
CONSTANTS
  InitSpecs <- MCInit
  Edits <- MCEdits
  OpenShift = TRUE
  MaxEvents = 1
INVARIANT ReadyBundles
PROPERTIES KeepsBundle TLSConverges
