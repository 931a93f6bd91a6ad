SPECIFICATION FairSpec
CONSTANTS
    Chunk = {c1}
    Worker = {w1, w2}
    NoLease = NoLease
    NoChunk = NoChunk
    Batches = 2
    MaxFailures = 2
    MaxQueued = 1
    MaxFaults = 2
INVARIANTS
    TypeOK
    EachBatchStoredOnce
PROPERTIES
    OnlyTheHolderReleases
    ImportSettles
