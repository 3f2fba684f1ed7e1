\* Refutes OneSaleConfirmed.
SPECIFICATION FaultFreeSpec
CONSTANTS
    i1 = i1
    r1 = r1  r2 = r2  r3 = r3
    Items <- OneItem
    StartingPrice <- OneStartingPrice
    BuyNowPrice <- OneBuyNowPrice
    StartTime <- OpenStartTime
    EndTime <- OpenEndTime
    MaxTime = 0
    Requests = {r1, r2}
    Commands <- PurchaseOnly
    MaxRetries = 2
    Servers = {s1}
    Partitions = {p1}
    MaxCopies = 1
SYMMETRY Symmetry
INVARIANTS
    OneSaleConfirmed
