SPECIFICATION FairSpec
CONSTANTS
    MaxHeight = 4
    Chunks = 2
    KeepRecent = 1
    MaxCrashes = 1
    Absent = Absent
INVARIANTS OperationOwned ListedHasChunks 
PROPERTIES PruneKeepsRecent OperationEnds
CHECK_DEADLOCK FALSE
