\* Every transition between five specs, with a second edit, a deletion, a failed
\* call or a crash at any point.
SPECIFICATION FairSpec
CONSTANTS
    Specs <- MCSpecs
    Created <- MCCreated
    Upgraded <- MCUpgraded
    ExtraRoles <- MCExtraRoles
    Groups <- MCGroups
    MaxEvents = 2
INVARIANTS
    NothingLeftOutside
PROPERTIES
    KeepsWhatIsWanted
    GrantsMatchSpec
CHECK_DEADLOCK FALSE
