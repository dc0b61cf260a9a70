SPECIFICATION FairSpecEngine
CONSTANTS
    Written <- MCWritten
    MaxSpec = 2
    MaxWrites = 3
    MaxRestarts = 1
    MaxEvents = 3
PROPERTY OthersObjectsUntouched
CHECK_DEADLOCK FALSE
PROPERTY EventuallyConverged EventuallyQuiet
