\* Two commands before, during and after an auction, every fault.
SPECIFICATION Spec
CONSTANTS
    i1 = i1
    r1 = r1  r2 = r2  r3 = r3
    Items <- OneItem
    StartingPrice <- OneStartingPrice
    BuyNowPrice <- OneBuyNowPrice
    StartTime <- OneStartTime
    EndTime <- OneEndTime
    MaxTime = 3
    Requests = {r1, r2}
    Commands <- SaleCommands
    MaxRetries = 2
    Servers = {s1}
    Partitions = {p1}
    MaxCopies = 1
SYMMETRY Symmetry
INVARIANTS
    BidsWithinHours
    StatusHasReason
PROPERTIES
    ImplementsAuction
