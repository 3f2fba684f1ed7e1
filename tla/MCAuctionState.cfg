\* Refutes AuctionStateAnswers.
SPECIFICATION Spec
CONSTANTS
    i1 = i1  i2 = i2
    r1 = r1  r2 = r2  r3 = r3
    Items <- OneItem
    StartingPrice <- OneStartingPrice
    BuyNowPrice <- OneBuyNowPrice
    StartTime <- OneStartTime
    EndTime <- OneEndTime
    MaxTime = 1
    Requests = {r1, r2, r3}
    Servers = {s1}
    StoredEvents <- BidAndSale
    PoolSize = 1
    Asked <- Endpoints
INVARIANTS
    AuctionStateAnswers
