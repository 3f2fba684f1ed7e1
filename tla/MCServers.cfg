\* Two servers that die, restart and take the partition from each other.
SPECIFICATION Spec
CONSTANTS
    i1 = i1
    r1 = r1  r2 = r2  r3 = r3
    Items <- OneItem
    StartingPrice <- OneStartingPrice
    BuyNowPrice <- OneBuyNowPrice
    StartTime <- OpenStartTime
    EndTime <- OpenEndTime
    MaxTime = 0
    Requests = {r1, r2}
    Commands <- SaleCommands
    MaxRetries = 1
    Servers = {s1, s2}
    Partitions = {p1}
    MaxCopies = 1
SYMMETRY Symmetry
CONSTRAINT SchedulersAsleep
PROPERTIES
    SoldIsFinal
    LostOnlyInHand
