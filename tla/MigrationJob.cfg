SPECIFICATION FairSpec
CONSTANTS
    Conns = {c1, c2}
    Others = {x}
    NoHash = NoHash
    ImagePinned = FALSE
    FlakyDB = TRUE
    MaxVersion = 2
    MaxEdits = 1
    MaxCrashes = 2
INVARIANTS
    SchemaBeforeServices
PROPERTIES
    RunningJobIsNotDeleted
    EventuallyMigrated
