SPECIFICATION FairSpec
CONSTANTS
    Stores = {bank, gov}
    bank = bank
    gov = gov
    KeepRecent = 2
    Interval = 3
    SnapshotInterval = 2
    InitialVersion = 2
    MaxHeight = 8
    MaxCrashes = 2
INVARIANTS RetainsRecent PrunableTracked AlwaysLoads
PROPERTIES PrunesOnlyRecorded SnapshotHandedOver 
CHECK_DEADLOCK FALSE
