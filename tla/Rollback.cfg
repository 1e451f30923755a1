SPECIFICATION RollbackSpec
CONSTANTS
    Stores = {bank, gov}
    bank = bank
    gov = gov
    KeepRecent = 2
    Interval = 3
    SnapshotInterval = 2
    InitialVersion = 1
    MaxHeight = 7
    MaxCrashes = 2
    Hard = FALSE
    MaxRollbacks = 2
SYMMETRY Symmetry
INVARIANTS RetainsRecentAfterRollback TornRollbackRecoverable
CHECK_DEADLOCK FALSE
