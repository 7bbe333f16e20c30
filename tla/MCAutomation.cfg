\* An update from its claim to its publication, with any two of a crash, a
\* fault, an edit of the Recipe and a manual Run anywhere on the way; with four
\* rows, a Build follows the Test of the same identity.
SPECIFICATION FairSpec
CONSTANTS
    t1 = t1
    t2 = t2
    i1 = i1
    i2 = i2
    Threads = {t1, t2}
    Documents = {"full", "test", "validate", "off"}
    Identities = {i1, i2}
    PolicyOf <- Policy
    Enabled = {"full", "test", "validate"}
    Initially = {"full"}
    Faults = {"delayed", "refused", "transient", "failed", "cancelled"}
    MaxFaults = 2
    MaxCrashes = 2
    MaxEdits = 2
    MaxMoves = 1
    MaxManual = 1
    MaxDisturbances = 2
    MaxRows = 4
    MaxGenerations = 2
    MaxValidationRetries = 1
    MaxPublicationRetries = 1
CHECK_DEADLOCK FALSE
INVARIANTS
    LedgerAccepts
    OneRunPerIdentity
    RunIsBound
PROPERTIES
    VerdictStands
    ClaimEnds
