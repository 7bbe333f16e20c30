\* A cancellation that is saved but reports a failure, then shutdown.
SPECIFICATION FairSpec
CONSTANTS
    r1 = r1
    a1 = a1
    none = none
    NoRun = none
    Runs = {r1}
    Preallocated = {}
    Capacity = 1
    Serialized = TRUE
    MaxFaults = 1
    Faults = {"committed"}
PROPERTIES
    ShutdownEnds
