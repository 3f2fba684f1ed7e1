\* Two bids through two partitions, while nothing fails.
SPECIFICATION FaultFreeSpec
CONSTANTS
    i1 = i1
    r1 = r1  r2 = r2  r3 = r3
    Items <- OneItem
    StartingPrice <- OneStartingPrice
    BuyNowPrice <- OneBuyNowPrice
    StartTime <- OneStartTime
    EndTime <- OneEndTime
    MaxTime = 2
    Requests = {r1, r2}
    Commands <- BidCommands
    MaxRetries = 1
    Servers = {s1}
    Partitions = {p1, p2}
    MaxCopies = 1
PROPERTIES
    HighestBidWins
    AuctionsEnd
