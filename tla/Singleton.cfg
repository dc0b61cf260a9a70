SPECIFICATION FairSpec
CONSTANTS
    UIDs = {u1, u2, u3}
    Namespaces = {n1, n2}
    Objects = {o1, o2}
    None = None
    MaxCrashes = 1
INVARIANT OneActive
INVARIANT NoOrphans
PROPERTY SuccessorUntouched
CHECK_DEADLOCK FALSE
PROPERTY LastOneDeployed DeletionEnds
