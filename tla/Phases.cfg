CONSTANTS
    Core = {datastorage, authwebhook}
    KnToggles = {gateway, console}
    ViewToggles = {}
    NoCleanup = {}
    Unlisted = {console}
    Exposed = {authwebhook}
    Choices = {{}, {gateway, console}}
    MaxGenerations = 1
    MaxFailures = 1
    MaxEvents = 1
SPECIFICATION FairSpecPhases
PROPERTY IsolationFirst RunningIsEarned
PROPERTY Settles
