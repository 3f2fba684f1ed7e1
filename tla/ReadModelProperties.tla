------------------------- MODULE ReadModelProperties -------------------------
(***************************************************************************)
(* What the readers of the tables items and bids may rely on, whoever      *)
(* writes them: the steps of AuctionService or the statements of module    *)
(* Transactions.                                                           *)
(***************************************************************************)
EXTENDS EventStore

\* Whatever order, duplicates and losses the topic adds, the bid history of an
\* item only ever ascends and current_price is its last amount: in particular
\* no event is recorded twice (the conditional UPDATE of the consumer).
BidHistoryAscends ==
    \A i \in Items :
        LET h == bids[i]
        IN  /\ \A j, k \in DOMAIN h : j < k => h[j].amount < h[k].amount
            /\ \A k \in DOMAIN h : h[k].amount > StartingPrice[i]
            /\ current_price[i] = IF h = <<>> THEN StartingPrice[i]
                                              ELSE h[Len(h)].amount

\* What a command checks before it stores e and the columns of items keep true.
Valid(e) ==
    /\ StartTime[e.item] <= e.time /\ e.time <= EndTime[e.item]
    /\ IF e.kind = "BidPlaced" THEN e.amount < BuyNowPrice[e.item]
                               ELSE e.amount = BuyNowPrice[e.item]

\* A log of such events, none of them two of the same request.
ValidLog(log) ==
    /\ log \subseteq Event
    /\ \A e \in log : Valid(e)
    /\ \A e, f \in log : e.bidder = f.bidder => e = f

\* An item is sold when a purchase at buy_now_price is in its history.
Sold(i) == \E k \in DOMAIN bids[i] : bids[i][k].amount = BuyNowPrice[i]

\* The read side invents nothing: every row of bids is a stored event's.
BidsAreStoredEvents ==
    \A i \in Items : \A k \in DOMAIN bids[i] :
        \E e \in events : /\ e.item = i
                          /\ e.bidder = bids[i][k].bidder
                          /\ e.amount = bids[i][k].amount
                          /\ e.time = bids[i][k].time

\* Every recorded bid was made between start_time and end_time, even when the
\* scheduler is late and the event is applied long after the auction.
BidsWithinHours ==
    \A i \in Items : \A k \in DOMAIN bids[i] :
        StartTime[i] <= bids[i][k].time /\ bids[i][k].time <= EndTime[i]

\* Three writers set the status; an auction is COMPLETED only because it was
\* sold or because its time was up, and it is ACTIVE only once it has started.
StatusHasReason ==
    \A i \in Items :
        /\ status[i] = "COMPLETED" => Sold(i) \/ now >= EndTime[i]
        /\ status[i] = "ACTIVE" => now >= StartTime[i]
        /\ Sold(i) => status[i] = "COMPLETED"

\* The phase of an auction that its row and its bids stand for.
AuctionPhase(i) ==
    IF Sold(i) THEN "sold"
    ELSE CASE status[i] = "SCHEDULED" -> "scheduled"
           [] status[i] = "ACTIVE"    -> "open"
           [] status[i] = "COMPLETED" -> "closed"

Contract == INSTANCE Auction WITH
    Bidders <- Requests,
    price <- current_price,
    phase <- [i \in Items |-> AuctionPhase(i)],
    history <- bids

\* Whoever watches items and bids sees an ascending auction that is sold at
\* most once, from which a purchase cannot be taken back, and in which a bid
\* appears once and only if it was made in time.
ImplementsAuction == Contract!Spec
=============================================================================
