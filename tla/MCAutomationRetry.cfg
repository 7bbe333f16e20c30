\* An operator retries an update whose Validation failed.
SPECIFICATION Spec
CONSTANTS
    t1 = t1
    t2 = t2
    i1 = i1
    i2 = i2
    Threads = {t1}
    Documents = {"validate"}
    Identities = {i1, i2}
    PolicyOf <- Policy
    Enabled = {"validate"}
    Initially = {"validate"}
    Faults = {"failed"}
    MaxFaults = 1
    MaxCrashes = 0
    MaxEdits = 0
    MaxMoves = 1
    MaxManual = 0
    MaxDisturbances = 1
    MaxRows = 3
    MaxGenerations = 2
    MaxValidationRetries = 1
    MaxPublicationRetries = 1
CHECK_DEADLOCK FALSE
INVARIANTS
    SuccessIsCarriedOut
