\* Two Build Runs share the queue; one cleanup that proves nothing.
SPECIFICATION FairSpec
CONSTANTS
    a1 = a1
    a2 = a2
    r1 = r1
    r2 = r2
    none = none
    NoAttempt = none
    Attempts = {a1, a2}
    Runs = {r1, r2}
    RunOf <- TwoRuns
    Publishing = {}
    Cancellable = {a1}
    Capacity = 1
    Faults = {"unproved"}
    MaxFaults = 1
    MaxRestarts = 0
CHECK_DEADLOCK FALSE
PROPERTIES
    AttemptEnds
    ShutdownEnds
