\* An older and a newer Run for two architectures, one failure of any kind.
SPECIFICATION Spec
CONSTANTS
    r1 = r1
    r2 = r2
    f = f
    a1 = a1
    a2 = a2
    c1 = c1
    none = none
    Nobody = none
    Runs = {r1, r2}
    Foreign = {f}
    VersionOf <- Upgrade
    Architectures = {a1, a2}
    Projected = a1
    Clients = {c1}
    MaxAttempts = 1
    MaxValidations = 1
    Faults = {"command", "save", "child", "orphan", "tamper", "stop"}
    MaxFaults = 1
    MaxCrashes = 1
CHECK_DEADLOCK FALSE
INVARIANTS
    StateIsSound
    OneMutator
    RemovalRecorded
PROPERTIES
    SuccessIsProven
    NoDowngrade
