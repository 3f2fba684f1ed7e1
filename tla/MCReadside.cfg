\* Two auctions and their events, two servers with one connection each.
SPECIFICATION Spec
CONSTANTS
    i1 = i1  i2 = i2
    r1 = r1  r2 = r2  r3 = r3
    Items <- TwoItems
    StartingPrice <- TwoStartingPrice
    BuyNowPrice <- TwoBuyNowPrice
    StartTime <- TwoStartTime
    EndTime <- TwoEndTime
    MaxTime = 1
    Requests = {r1, r2, r3}
    Servers = {s1, s2}
    StoredEvents <- ThreeEvents
    PoolSize = 1
    Asked <- Showing
SYMMETRY Symmetry
INVARIANTS
    TypeOK
    AnswersNeverGoBack
    OnlySchedulersDeadlock
PROPERTIES
    WritesAreAtomic
    ImplementsAuction
