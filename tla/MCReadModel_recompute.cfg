SPECIFICATION FairSpec
CONSTANTS
    Products = 1
    Category = {c1, c2}
    NoCategory = NoCategory
    None = None
    Handler = {h1, h2}
    Driver = {}
    PageSize = 1
    Lead = 1
    MaxClock = 3
    MaxVersion = 3
    MaxFaults = 1
    MaxFlushes = 1
CHECK_DEADLOCK FALSE
INVARIANTS
    TypeOK
    ListedWhereItBelongs
    StaleIsToCome
PROPERTIES
    OnlyOverlappingReadsInvert
    ConvergesButForReadsAcross
