SPECIFICATION FairSpec
CONSTANTS
    r1 = r1
    r2 = r2
    v1 = v1
    full = full
    empty = empty
    old = old
    Request = {r1, r2}
    Vendor = {v1}
    Unread = Unread
    Bytes = {full, empty}
    Headers = {empty}
    Copies = 2
    MaxQueued = 1
    Stale = {old}
    Job <- MCJob
    Attempts = 2
    PageSize = 1
    MaxFailures = 2
    MaxFaults = 1
    MaxOutages = 1
INVARIANTS
    TypeOK
    UploadDirectoryIsExact
PROPERTIES
    VendorComesFree
    WalkEnds
    WalkTakesAllButBehindAFullPage
