\* One HTTP and one automated Run share the queue; one fault of any kind.
SPECIFICATION Spec
CONSTANTS
    r1 = r1
    a1 = a1
    none = none
    NoRun = none
    Runs = {r1, a1}
    Preallocated = {a1}
    Capacity = 1
    Serialized = FALSE
    MaxFaults = 1
    Faults = {"lost", "committed", "unreadable"}
INVARIANTS
    StateIsSound
    QueueIsSound
    NoRunLost
    AnswersAreTrue
PROPERTIES
    ImplementsLifecycle
