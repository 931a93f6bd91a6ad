SPECIFICATION Spec
CONSTANTS
    Chunk = {c1, c2}
    Worker = {w1, w2}
    NoLease = NoLease
    NoChunk = NoChunk
    Batches = 1
    MaxFailures = 1
    MaxQueued = 1
    MaxFaults = 1
SYMMETRY Symmetry
INVARIANTS
    CompletedImportIsWhole
    GivenUpForCause
PROPERTIES
    ImplementsImport
