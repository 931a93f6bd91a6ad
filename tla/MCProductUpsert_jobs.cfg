SPECIFICATION Spec
CONSTANTS
    Sku = {s1}
    Value = {v1, v2, v3}
    Rejected = Rejected
    Absent = Absent
    Api = Api
    Jobs = 2
    Chunks = 2
    Batches = 1
    BatchRows = 2
SYMMETRY Symmetry
CHECK_DEADLOCK FALSE
INVARIANTS
    TypeOK
    LastRowWinsIfDistinct
PROPERTIES
    ProvenanceMovesForward
