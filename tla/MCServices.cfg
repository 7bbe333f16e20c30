\* Storage: three requests and two changes.  Scheduler: two Recipes, one worker.
\* Cleanup: two Runs, one failed one kept.  Recipes: two editors, two saves.
\* Settings: two administrators, two updates, two crashes.  Bootstrap: three
\* failures, crashes or changes by others.
SPECIFICATION ServicesSpec
CONSTANTS
    e1 = e1
    e2 = e2
    noEditor = noEditor
    a1 = a1
    a2 = a2
    noAdmin = noAdmin
    MaxRequests = 3
    MaxChanges = 2
    Recipes = {"a", "b"}
    Concurrency = 1
    MaxEvents = 2
    RunCount = 2
    Retain = 1
    MaxMoves = 2
    Names = {"a", "b"}
    Builtin = "debbuilder"
    Editors = {e1, e2}
    NoEditor = noEditor
    MaxEdit = 1
    MaxWrites = 2
    MaxUpgrades = 1
    Admins = {a1, a2}
    NoAdmin = noAdmin
    Environment = {}
    MaxUpdates = 2
    MaxRestarts = 2
    MaxKeys = 3
    MaxStops = 3
CHECK_DEADLOCK FALSE
INVARIANTS
    SnapshotIsFresh
    StartupAccepts
PROPERTIES
    RequestsHonoured
    RequestIsAnswered
    NoLostEdit
    ActiveIsUntouched
    NewestFailedKept
    BootstrapCompletes
    IdentityStands
