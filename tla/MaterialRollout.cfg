SPECIFICATION FairSpecRollout
CONSTANTS
  Builders <- MCBuilders
  Changing <- MCChanging
  MaxEvents = 2
INVARIANT NoChurn
PROPERTIES Fresh Reported
