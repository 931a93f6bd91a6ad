SPECIFICATION FairSpec
CONSTANTS
    Promotion = {p1}
    Reconciler = {r1, r2}
    Absent = Absent
    Lag = 2
    TxMax = 1
    MaxWindow = 1
    MaxNow = 4
    MaxFaults = 1
INVARIANTS
    TypeOK
    NothingUnreadBehindTheWatermark
PROPERTIES
    WatermarkMovesForward
    CatchesUp
