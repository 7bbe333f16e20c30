\* Two Runs, the second with a finite policy; one fault, two crashes, a reboot.
SPECIFICATION Spec
CONSTANTS
    r1 = r1
    r2 = r2
    u1 = u1
    u2 = u2
    none = none
    NoRun = none
    NoUnit = none
    Runs = {r1, r2}
    Units = {u1, u2}
    Finite = {r2}
    MaxBlockers = 1
    Capabilities = {"systemd_cgroup", "process_group"}
    Faults = {"start", "verify", "stop", "record", "read"}
    MaxFaults = 1
    MaxCrashes = 2
    MaxBoots = 1
SYMMETRY UnitSymmetry
CHECK_DEADLOCK FALSE
INVARIANTS
    StateIsSound
    NoStrayBehindAdmission
PROPERTIES
    ResolvedMeansGone
    CleanupSparesWorkloads
