\* A crash with a container, and one cleanup that proves nothing.
SPECIFICATION Spec
CONSTANTS
    a1 = a1
    a2 = a2
    r1 = r1
    r2 = r2
    none = none
    NoAttempt = none
    Attempts = {a1}
    Runs = {r1, r2}
    RunOf <- OneRun
    Publishing = {}
    Cancellable = {a1}
    Capacity = 1
    Faults = {"unproved"}
    MaxFaults = 1
    MaxRestarts = 1
CHECK_DEADLOCK FALSE
INVARIANTS
    AbsenceBeforeTerminal
