SPECIFICATION Spec
CONSTANTS
    Promotion = {p1}
    Reconciler = {r1}
    Absent = Absent
    Lag = 2
    TxMax = 1
    MaxWindow = 5
    MaxNow = 7
    MaxFaults = 1
INVARIANTS
    NoBoundaryIsMissed
