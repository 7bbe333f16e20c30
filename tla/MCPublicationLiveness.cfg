\* One Run, published twice and pruned; no save fails.
SPECIFICATION LiveSpec
CONSTANTS
    r1 = r1
    r2 = r2
    f = f
    a1 = a1
    a2 = a2
    c1 = c1
    none = none
    Nobody = none
    Runs = {r1}
    Foreign = {f}
    VersionOf <- Upgrade
    Architectures = {a1, a2}
    Projected = a1
    Clients = {c1}
    MaxAttempts = 2
    MaxValidations = 1
    Faults = {"command", "child", "orphan", "tamper", "stop"}
    MaxFaults = 1
    MaxCrashes = 1
CHECK_DEADLOCK FALSE
INVARIANTS
    AbsenceAccounted
PROPERTIES
    LastCopyKept
    WorkEnds
