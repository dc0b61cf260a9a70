SPECIFICATION FairSpec
CONSTANTS
  NoRef = NoRef
  Revisions <- MCRevisions
  EditTargets <- MCEditTargets
  SpecOf <- MCSpecOf
  MaxEdits = 2
  MaxFaults = 1
INVARIANTS ConfigFilesMounted MountsVerified RolledOutTogether
PROPERTY Converges
CHECK_DEADLOCK FALSE
