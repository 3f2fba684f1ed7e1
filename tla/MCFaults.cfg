\* Two commands, two partitions, every fault; time stands still.
SPECIFICATION Spec
CONSTANTS
    i1 = i1
    r1 = r1  r2 = r2  r3 = r3
    Items <- OneItem
    StartingPrice <- OneStartingPrice
    BuyNowPrice <- OneBuyNowPrice
    StartTime <- OpenStartTime
    EndTime <- OpenEndTime
    MaxTime = 0
    Requests = {r1, r2}
    Commands <- RivalCommands
    MaxRetries = 2
    Servers = {s1}
    Partitions = {p1, p2}
    MaxCopies = 2
SYMMETRY Symmetry
CONSTRAINT SchedulersAsleep
INVARIANTS
    TypeOK
    BidHistoryAscends
    BidsAreStoredEvents
    RepliesAreTruthful
