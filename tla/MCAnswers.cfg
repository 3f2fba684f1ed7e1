\* Every request is answered, whatever fails.
SPECIFICATION FairSpec
CONSTANTS
    i1 = i1
    r1 = r1  r2 = r2  r3 = r3
    Items <- OneItem
    StartingPrice <- OneStartingPrice
    BuyNowPrice <- OneBuyNowPrice
    StartTime <- OpenStartTime
    EndTime <- OpenEndTime
    MaxTime = 0
    Requests = {r1, r2}
    Commands <- SaleCommands
    MaxRetries = 2
    Servers = {s1}
    Partitions = {p1}
    MaxCopies = 1
PROPERTIES
    EveryRequestAnswered
