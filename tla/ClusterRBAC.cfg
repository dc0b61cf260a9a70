SPECIFICATION FairSpec
CONSTANTS
    Core = {c1, c2}
    Ansible = {a1}
    Console = {}
    Tool = {t1}
    Workflows = {w1}
    Prompt = {c1}
    MaxEdits = 1
    MaxFailures = 1
    MaxCrashes = 1
    Created = {{}, {c1, c2, a1, t1}}
INVARIANTS NothingLabelledLeft BindingsOnRecord
PROPERTIES EventuallyExact EventuallyGone
CHECK_DEADLOCK FALSE
