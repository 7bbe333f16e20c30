\* Two requests for one Build Run; the second wants publication.
SPECIFICATION Spec
CONSTANTS
    a1 = a1
    a2 = a2
    r1 = r1
    r2 = r2
    none = none
    NoAttempt = none
    Attempts = {a1, a2}
    Runs = {r1, r2}
    RunOf <- OneRun
    Publishing = {a2}
    Cancellable = {a1}
    Capacity = 1
    Faults = {"lost", "committed", "unproved", "inventory"}
    MaxFaults = 1
    MaxRestarts = 1
CHECK_DEADLOCK FALSE
INVARIANTS
    StateIsSound
    NoContainerBehindAdmission
    CancellationStands
    NoAttemptLost
    IntentsKept
