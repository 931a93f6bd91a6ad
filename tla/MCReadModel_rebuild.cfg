SPECIFICATION FairSpec
CONSTANTS
    Products = 2
    Category = {c1}
    NoCategory = NoCategory
    None = None
    Handler = {h1}
    Driver = {d1}
    PageSize = 1
    Lead = 0
    MaxClock = 2
    MaxVersion = 1
    MaxFaults = 1
    MaxFlushes = 1
PROPERTIES
    OpensOnAWholeModel
    MissingEntriesReturn
