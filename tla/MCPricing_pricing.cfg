SPECIFICATION Spec
CONSTANTS
    a = a
    b = b
    c1 = c1
    c2 = c2
    sale = sale
    flash = flash
    Category = {a, b}
    Broken = Broken
    MaxCents = 9
    Rejected = Rejected
    Promotion = {sale, flash}
    Null = Null
    Rule = {1, 2}
    Body <- MCBody
    Seed <- MCSeed
    Caller = {c1, c2}
    Row <- MCRow
    Offer <- MCOffer
    None = None
    Ttl = 1
    Skew = 1
    MaxNow = 2
    MaxEdits = 2
    MaxFaults = 1
SYMMETRY Symmetry
INVARIANTS
    TypeOK
    RulesAreFresh
    VersionTellsThePrice
    ShopperGetsTheLowest
