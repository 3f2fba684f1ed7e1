\* Three commands race for one item while nothing fails.
SPECIFICATION FaultFreeSpec
CONSTANTS
    i1 = i1
    r1 = r1  r2 = r2  r3 = r3
    Items <- OneItem
    StartingPrice <- OneStartingPrice
    BuyNowPrice <- OneBuyNowPrice
    StartTime <- OpenStartTime
    EndTime <- OpenEndTime
    MaxTime = 0
    Requests = {r1, r2, r3}
    Commands <- RivalCommands
    MaxRetries = 2
    Servers = {s1}
    Partitions = {p1}
    MaxCopies = 1
SYMMETRY Symmetry
CONSTRAINT SchedulersAsleep
INVARIANTS
    GaplessVersions
    OneEventPerRequest
    RetriesSuffice
    NothingLost
PROPERTIES
    ImplementsEventLog
