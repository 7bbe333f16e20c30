\* One Run, three faults that lose a write or a read.
SPECIFICATION FairSpec
CONSTANTS
    r1 = r1
    a1 = a1
    none = none
    NoRun = none
    Runs = {r1}
    Preallocated = {}
    Capacity = 1
    Serialized = TRUE
    MaxFaults = 3
    Faults = {"lost", "unreadable"}
PROPERTIES
    ShutdownEnds
    WorkIsSettled
