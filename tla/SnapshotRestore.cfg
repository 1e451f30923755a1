SPECIFICATION RestoreFairSpec
CONSTANTS
    NStores = 2
    NChunks = 4
    IDBuffer = 4
    ChunkBuffer = 1
    MaxRetries = 1
    MaxRestarts = 1
INVARIANTS RestoredIsWhole ChunksInOrder
 
CHECK_DEADLOCK FALSE
