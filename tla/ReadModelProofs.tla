---------------------------- MODULE ReadModelProofs ----------------------------
(***************************************************************************)
(* What follows for the tables items and bids from the three kinds of      *)
(* writes they see, whoever issues them: ReadSideProofs shows that the     *)
(* steps of AuctionService are such writes, TransactionProofs shows it of  *)
(* the statements of Transactions.                                         *)
(***************************************************************************)
EXTENDS ReadModelProperties, EventHandlers, Scheduler, TLAPS

TablesTypeOK == ReadModelTypeOK /\ events \subseteq Event

\* Inductive for the two tables.
TablesInv ==
    /\ ValidLog(events)
    /\ BidHistoryAscends
    /\ BidsAreStoredEvents
    /\ StatusHasReason

-----------------------------------------------------------------------------
(* The writes.                                                             *)

\* The effect of a handler whose UPDATE has found a row.
Recorded(e) ==
    /\ current_price[e.item] < e.amount
    /\ current_price' = [current_price EXCEPT ![e.item] = e.amount]
    /\ RecordBid(e)

RowOf(e) == [bidder |-> e.bidder, amount |-> e.amount, time |-> e.time]

\* The whole transaction: the event was stored by now, in an auction that has
\* started, and a purchase finds the item unsold.
Handles(e) ==
    /\ Recorded(e)
    /\ e.time <= now
    /\ status[e.item] # "SCHEDULED"
    /\ \/ e.kind = "BidPlaced" /\ UNCHANGED status
       \/ /\ e.kind = "BuyNowExecuted"
          /\ status[e.item] # "COMPLETED"
          /\ status' = [status EXCEPT ![e.item] = "COMPLETED"]
    /\ UNCHANGED now

\* An UPDATE of the scheduler that knows the time t and touches the items S.
Opens(S, t) ==
    /\ S \subseteq Due("SCHEDULED", StartTime, t)
    /\ SetStatus(S, "ACTIVE")
    /\ UNCHANGED <<current_price, bids, now>>

Closes(S, t) ==
    /\ S \subseteq Due("ACTIVE", EndTime, t)
    /\ SetStatus(S, "COMPLETED")
    /\ UNCHANGED <<current_price, bids, now>>

TablesStep ==
    \/ UNCHANGED itemVars /\ (now' = now \/ now' = now + 1)
    \/ \E e \in events : Handles(e)
    \/ \E t \in 0 .. now, S \in SUBSET Items : Opens(S, t) \/ Closes(S, t)

\* Time, prices and auctions only go forward.
Forward ==
    /\ now <= now'
    /\ \A i \in Items :
          /\ current_price[i] <= current_price'[i]
          /\ status[i] # "SCHEDULED" => status'[i] # "SCHEDULED"
          /\ status[i] = "COMPLETED" => status'[i] = "COMPLETED"

LEMMA TablesGoForward ==
    ASSUME TablesTypeOK, TablesTypeOK', TablesStep
    PROVE  Forward
<1> USE DEF TablesTypeOK, ReadModelTypeOK
<1>1. CASE UNCHANGED itemVars /\ (now' = now \/ now' = now + 1)
  BY <1>1 DEF itemVars, Forward
<1>2. CASE \E e \in events : Handles(e)
  <2>1. PICK e \in Event : Handles(e)
    BY <1>2
  <2>2. e.item \in Items /\ e.amount \in Int
    BY DEF Event
  <2>3. now' = now /\ \A i \in Items : status'[i] \in {status[i], "COMPLETED"}
    BY <2>1, <2>2 DEF Handles
  <2>4. \A i \in Items : current_price[i] <= current_price'[i]
    BY <2>1, <2>2 DEF Handles, Recorded
  <2> QED
    BY <2>3, <2>4 DEF Forward
<1>3. CASE \E t \in 0 .. now, S \in SUBSET Items : Opens(S, t) \/ Closes(S, t)
  BY <1>3 DEF Opens, Closes, SetStatus, Due, Forward
<1> QED
  BY <1>1, <1>2, <1>3 DEF TablesStep

-----------------------------------------------------------------------------
(* The bids.                                                               *)

\* What Max returns, if there is something for it to return.
LEMMA MaxIs ==
    ASSUME NEW S \in SUBSET Int, NEW m \in S, \A y \in S : y <= m
    PROVE  Max(S) = m
<1>1. \A x \in S : (\A y \in S : x >= y) => x = m
  OBVIOUS
<1>2. \A y \in S : m >= y
  OBVIOUS
<1> QED
  BY <1>1, <1>2 DEF Max

\* A history and its row after the handler of e.
LEMMA HistoryAfter ==
    ASSUME TablesTypeOK, NEW e \in events, Recorded(e), NEW i \in Items
    PROVE  /\ i # e.item => bids'[i] = bids[i] /\ current_price'[i] = current_price[i]
           /\ i = e.item => /\ bids'[i] = Append(bids[i], RowOf(e))
                            /\ current_price'[i] = e.amount
                            /\ current_price[i] < e.amount
           /\ RowOf(e) \in Bid /\ bids[i] \in Seq(Bid)
<1>1. e \in Event
  BY DEF TablesTypeOK
<1> QED
  BY <1>1 DEF Recorded, RecordBid, RowOf, Event, Bid, TablesTypeOK,
     ReadModelTypeOK

LEMMA TablesTypeKept ==
    ASSUME TablesTypeOK, TablesStep, events' \subseteq Event
    PROVE  TablesTypeOK'
<1> USE DEF TablesTypeOK, ReadModelTypeOK
<1>1. CASE UNCHANGED itemVars /\ (now' = now \/ now' = now + 1)
  BY <1>1 DEF itemVars
<1>2. ASSUME NEW e \in events, Handles(e) PROVE TablesTypeOK'
  <2>1. e.item \in Items /\ e.amount \in Int
    BY DEF Event
  <2>2. bids' \in [Items -> Seq(Bid)]
    <3> DEFINE row == RowOf(e)
    <3>1. Append(bids[e.item], row) \in Seq(Bid)
      BY <1>2, <2>1, HistoryAfter DEF Handles
    <3>2. bids' = [bids EXCEPT ![e.item] = Append(@, row)]
      BY <1>2 DEF Handles, Recorded, RecordBid, RowOf
    <3> HIDE DEF row
    <3> QED
      BY <3>1, <3>2
  <2> QED
    BY <1>2, <2>1, <2>2 DEF Handles, Recorded, Statuses
<1>3. ASSUME NEW t \in 0 .. now, NEW S \in SUBSET Items, Opens(S, t) \/ Closes(S, t)
      PROVE  TablesTypeOK'
  BY <1>3 DEF Opens, Closes, SetStatus, Statuses
<1> QED
  BY <1>1, <1>2, <1>3 DEF TablesStep

\* The last row of a history is the highest.
LEMMA LastIsHighest ==
    ASSUME TablesTypeOK, BidHistoryAscends, NEW i \in Items, NEW k \in DOMAIN bids[i]
    PROVE  /\ bids[i][k].amount <= current_price[i]
           /\ bids[i][k].amount \in Int
           /\ k # Len(bids[i]) => bids[i][k].amount < current_price[i]
<1>1. bids[i] \in Seq(Bid) /\ bids[i] # <<>>
  BY DEF TablesTypeOK, ReadModelTypeOK
<1>2. Len(bids[i]) \in DOMAIN bids[i] /\ k <= Len(bids[i])
  BY <1>1
<1>3. \A j \in DOMAIN bids[i] : bids[i][j].amount \in Int
  <2>1. \A j \in DOMAIN bids[i] : bids[i][j] \in Bid
    BY <1>1
  <2> QED
    BY <2>1 DEF Bid
<1>4. current_price[i] = bids[i][Len(bids[i])].amount
  BY <1>1 DEF BidHistoryAscends
<1>5. k < Len(bids[i]) => bids[i][k].amount < bids[i][Len(bids[i])].amount
  BY <1>2 DEF BidHistoryAscends
<1> QED
  BY <1>1, <1>2, <1>3, <1>4, <1>5

LEMMA RecordingAscends ==
    ASSUME TablesTypeOK, BidHistoryAscends, NEW e \in events, Recorded(e)
    PROVE  BidHistoryAscends'
<1> SUFFICES ASSUME NEW i \in Items
             PROVE  LET h == bids'[i]
                    IN  /\ \A j, k \in DOMAIN h : j < k => h[j].amount < h[k].amount
                        /\ \A k \in DOMAIN h : h[k].amount > StartingPrice[i]
                        /\ current_price'[i] = IF h = <<>> THEN StartingPrice[i]
                                                           ELSE h[Len(h)].amount
  BY DEF BidHistoryAscends
<1>1. CASE i # e.item
  BY <1>1, HistoryAfter DEF BidHistoryAscends
<1>2. CASE i = e.item
  <2> DEFINE h == bids[i]
             row == RowOf(e)
  <2>1. /\ bids'[i] = Append(h, row) /\ h \in Seq(Bid) /\ row \in Bid
        /\ row.amount = e.amount /\ current_price'[i] = e.amount
        /\ current_price[i] < e.amount
    BY <1>2, HistoryAfter DEF RowOf
  <2>2. /\ current_price[i] \in Int /\ StartingPrice[i] \in Int
        /\ e.amount \in Int
    BY ItemAssumption DEF TablesTypeOK, ReadModelTypeOK, Event
  <2>3. \A k \in DOMAIN h : h[k].amount < row.amount /\ h[k].amount \in Int
    BY <2>1, <2>2, LastIsHighest
  <2>4. StartingPrice[i] < row.amount
    <3>1. CASE h = <<>>
      BY <2>1, <3>1 DEF BidHistoryAscends
    <3>2. CASE h # <<>>
      <4>1. Len(h) \in DOMAIN h
        BY <2>1, <3>2
      <4> QED
        BY <2>2, <2>3, <4>1, <2>1 DEF BidHistoryAscends
    <3> QED
      BY <3>1, <3>2
  <2>5. /\ \A j, k \in DOMAIN h : j < k => h[j].amount < h[k].amount
        /\ \A k \in DOMAIN h : h[k].amount > StartingPrice[i]
    BY DEF BidHistoryAscends
  <2> HIDE DEF h, row
  <2>6. /\ DOMAIN Append(h, row) = 1 .. Len(h) + 1 /\ DOMAIN h = 1 .. Len(h)
        /\ Len(Append(h, row)) = Len(h) + 1 /\ Append(h, row) # <<>>
        /\ \A k \in DOMAIN h : Append(h, row)[k] = h[k]
        /\ Append(h, row)[Len(h) + 1] = row /\ Len(h) \in Nat
    BY <2>1
  <2> QED
    BY <2>1, <2>2, <2>3, <2>4, <2>5, <2>6
<1> QED
  BY <1>1, <1>2

LEMMA RecordingTraced ==
    ASSUME TablesTypeOK, BidsAreStoredEvents, NEW e \in events, Recorded(e),
           events \subseteq events'
    PROVE  BidsAreStoredEvents'
<1> SUFFICES ASSUME NEW i \in Items, NEW k \in DOMAIN bids'[i]
             PROVE  \E f \in events' : /\ f.item = i
                                       /\ f.bidder = bids'[i][k].bidder
                                       /\ f.amount = bids'[i][k].amount
                                       /\ f.time = bids'[i][k].time
  BY DEF BidsAreStoredEvents
<1>1. CASE i # e.item
  BY <1>1, HistoryAfter DEF BidsAreStoredEvents
<1>2. CASE i = e.item
  <2>1. bids'[i] = Append(bids[i], RowOf(e)) /\ bids[i] \in Seq(Bid)
    BY <1>2, HistoryAfter
  <2>2. CASE k \in DOMAIN bids[i]
    <3>1. bids'[i][k] = bids[i][k]
      BY <2>1, <2>2
    <3> QED
      BY <2>2, <3>1 DEF BidsAreStoredEvents
  <2>3. CASE k \notin DOMAIN bids[i]
    <3>1. bids'[i][k] = RowOf(e)
      BY <2>1, <2>3
    <3> QED
      BY <1>2, <3>1 DEF RowOf
  <2> QED
    BY <2>2, <2>3
<1> QED
  BY <1>1, <1>2

-----------------------------------------------------------------------------
(* The status.                                                             *)

\* Nothing is recorded above buy_now_price, so a sold item has that price.
LEMMA SoldPrice ==
    ASSUME TablesTypeOK, TablesInv, NEW i \in Items
    PROVE  /\ \A e \in events : e.item = i => e.amount <= BuyNowPrice[i]
           /\ Sold(i) => current_price[i] = BuyNowPrice[i]
<1>1. ASSUME NEW e \in events, e.item = i PROVE e.amount <= BuyNowPrice[i]
  <2>1. Valid(e) /\ e.amount \in Int /\ BuyNowPrice[i] \in Int
    BY ItemAssumption DEF TablesInv, ValidLog, TablesTypeOK, Event
  <2> QED
    BY <1>1, <2>1 DEF Valid
<1>2. ASSUME Sold(i) PROVE current_price[i] = BuyNowPrice[i]
  <2>1. PICK k \in DOMAIN bids[i] : bids[i][k].amount = BuyNowPrice[i]
    BY <1>2 DEF Sold
  <2> DEFINE n == Len(bids[i])
  <2>2. n \in DOMAIN bids[i] /\ bids[i] # <<>>
    BY <2>1 DEF TablesTypeOK, ReadModelTypeOK
  <2>3. bids[i][n].amount <= BuyNowPrice[i] /\ current_price[i] = bids[i][n].amount
    BY <1>1, <2>2 DEF TablesInv, BidsAreStoredEvents, BidHistoryAscends
  <2>4. BuyNowPrice[i] \in Int /\ current_price[i] \in Int
    BY ItemAssumption DEF TablesTypeOK, ReadModelTypeOK
  <2>5. BuyNowPrice[i] <= current_price[i]
    BY <2>1, LastIsHighest DEF TablesInv
  <2> QED
    BY <2>3, <2>4, <2>5
<1> QED
  BY <1>1, <1>2

\* An item becomes sold by the purchase that is recorded, and by no bid.
LEMMA SoldAfter ==
    ASSUME TablesTypeOK, TablesInv, NEW e \in events, Recorded(e), NEW i \in Items
    PROVE  Sold(i)' <=> Sold(i) \/ (i = e.item /\ e.kind = "BuyNowExecuted")
<1>1. CASE i # e.item
  BY <1>1, HistoryAfter DEF Sold
<1>2. CASE i = e.item
  <2> DEFINE h == bids[i]
             row == RowOf(e)
  <2>1. bids'[i] = Append(h, row) /\ h \in Seq(Bid) /\ row.amount = e.amount
    BY <1>2, HistoryAfter DEF RowOf
  <2>2. e.amount = BuyNowPrice[i] <=> e.kind = "BuyNowExecuted"
    <3>1. Valid(e) /\ e \in Event /\ BuyNowPrice[i] \in Int
      BY ItemAssumption DEF TablesInv, ValidLog, TablesTypeOK
    <3> QED
      BY <1>2, <3>1 DEF Valid, Event
  <2> HIDE DEF h, row
  <2>3. /\ DOMAIN Append(h, row) = DOMAIN h \cup {Len(h) + 1}
        /\ \A k \in DOMAIN h : Append(h, row)[k] = h[k]
        /\ Append(h, row)[Len(h) + 1] = row
    BY <2>1
  <2>4. (\E k \in DOMAIN Append(h, row) : Append(h, row)[k].amount = BuyNowPrice[i])
        <=> (\E k \in DOMAIN h : h[k].amount = BuyNowPrice[i])
            \/ row.amount = BuyNowPrice[i]
    BY <2>3
  <2> QED
    BY <1>2, <2>1, <2>2, <2>4 DEF Sold, h
<1> QED
  BY <1>1, <1>2

LEMMA StatusKept ==
    ASSUME TablesTypeOK, TablesTypeOK', TablesInv, TablesStep
    PROVE  StatusHasReason'
<1> SUFFICES ASSUME NEW i \in Items
             PROVE  /\ status'[i] = "COMPLETED" => Sold(i)' \/ now' >= EndTime[i]
                    /\ status'[i] = "ACTIVE" => now' >= StartTime[i]
                    /\ Sold(i)' => status'[i] = "COMPLETED"
  BY DEF StatusHasReason
<1>1. /\ now \in Nat /\ now' \in Nat /\ now <= now'
      /\ StartTime[i] \in Nat /\ EndTime[i] \in Nat
      /\ status \in [Items -> Statuses]
  BY TablesGoForward, ItemAssumption DEF Forward, TablesTypeOK, ReadModelTypeOK
<1>2. /\ status[i] = "COMPLETED" => Sold(i) \/ now >= EndTime[i]
      /\ status[i] = "ACTIVE" => now >= StartTime[i]
      /\ Sold(i) => status[i] = "COMPLETED"
  BY DEF TablesInv, StatusHasReason
<1>3. CASE UNCHANGED itemVars
  BY <1>1, <1>2, <1>3 DEF itemVars, Sold
<1>4. ASSUME NEW e \in events, Handles(e)
      PROVE  /\ status'[i] = "COMPLETED" => Sold(i)' \/ now' >= EndTime[i]
             /\ status'[i] = "ACTIVE" => now' >= StartTime[i]
             /\ Sold(i)' => status'[i] = "COMPLETED"
  <2>1. Sold(i)' <=> Sold(i) \/ (i = e.item /\ e.kind = "BuyNowExecuted")
    BY <1>4, SoldAfter DEF Handles
  <2>2. CASE i = e.item /\ e.kind = "BuyNowExecuted"
    BY <1>1, <1>4, <2>1, <2>2 DEF Handles
  <2>3. CASE ~(i = e.item /\ e.kind = "BuyNowExecuted")
    <3>1. status'[i] = status[i] /\ (Sold(i)' <=> Sold(i))
      BY <1>1, <1>4, <2>1, <2>3 DEF Handles
    <3> QED
      BY <1>1, <1>2, <3>1
  <2> QED
    BY <2>2, <2>3
<1>5. ASSUME NEW t \in 0 .. now, NEW S \in SUBSET Items, Opens(S, t) \/ Closes(S, t)
      PROVE  /\ status'[i] = "COMPLETED" => Sold(i)' \/ now' >= EndTime[i]
             /\ status'[i] = "ACTIVE" => now' >= StartTime[i]
             /\ Sold(i)' => status'[i] = "COMPLETED"
  <2>1. Sold(i)' <=> Sold(i)
    BY <1>5 DEF Sold, Opens, Closes
  <2>2. \/ status'[i] = status[i]
        \/ status[i] = "SCHEDULED" /\ StartTime[i] <= t /\ status'[i] = "ACTIVE"
        \/ status[i] = "ACTIVE" /\ EndTime[i] <= t /\ status'[i] = "COMPLETED"
    BY <1>5 DEF SetStatus, Due, Opens, Closes
  <2> QED
    BY <1>1, <1>2, <1>5, <2>1, <2>2
<1> QED
  BY <1>3, <1>4, <1>5 DEF TablesStep

LEMMA TablesInit ==
    ASSUME ReadModelInit, ValidLog(events)
    PROVE  TablesInv
<1> USE DEF ReadModelInit
<1>1. \A i \in Items : bids[i] = <<>> /\ ~Sold(i)
  BY DEF Sold
<1>2. BidHistoryAscends /\ BidsAreStoredEvents
  BY <1>1 DEF BidHistoryAscends, BidsAreStoredEvents
<1>3. StatusHasReason
  BY <1>1, ItemAssumption DEF StatusHasReason
<1> QED
  BY <1>2, <1>3 DEF TablesInv

\* The invariant survives every write, and every new event.
LEMMA TablesKept ==
    ASSUME TablesTypeOK, TablesTypeOK', TablesInv, TablesStep,
           events \subseteq events', ValidLog(events)'
    PROVE  TablesInv'
<1>1. CASE UNCHANGED <<current_price, bids>>
  <2>1. BidHistoryAscends'
    BY <1>1 DEF TablesInv, BidHistoryAscends
  <2>2. BidsAreStoredEvents'
    BY <1>1 DEF TablesInv, BidsAreStoredEvents
  <2> QED
    BY <2>1, <2>2, StatusKept DEF TablesInv
<1>2. CASE \E e \in events : Recorded(e)
  BY <1>2, RecordingAscends, RecordingTraced, StatusKept DEF TablesInv
<1> QED
  BY <1>1, <1>2 DEF TablesStep, itemVars, Handles, Opens, Closes

\* Every recorded bid has the time of a valid event.
LEMMA HoursFollow ==
    ASSUME TablesInv
    PROVE  BidsWithinHours
<1> SUFFICES ASSUME NEW i \in Items, NEW k \in DOMAIN bids[i]
             PROVE  StartTime[i] <= bids[i][k].time /\ bids[i][k].time <= EndTime[i]
  BY DEF BidsWithinHours
<1>1. PICK e \in events : e.item = i /\ e.time = bids[i][k].time
  BY DEF TablesInv, BidsAreStoredEvents
<1> QED
  BY <1>1 DEF TablesInv, ValidLog, Valid

\* No write touches a sold item: it has the highest price and is COMPLETED.
LEMMA SoldUntouched ==
    ASSUME TablesTypeOK, TablesInv, TablesStep, NEW i \in Items, Sold(i)
    PROVE  /\ bids'[i] = bids[i]
           /\ current_price'[i] = current_price[i]
           /\ status'[i] = status[i]
<1>1. status[i] = "COMPLETED" /\ current_price[i] = BuyNowPrice[i]
  BY SoldPrice DEF TablesInv, StatusHasReason
<1>2. CASE UNCHANGED itemVars
  BY <1>2 DEF itemVars
<1>3. ASSUME NEW e \in events, Handles(e)
      PROVE  /\ bids'[i] = bids[i]
             /\ current_price'[i] = current_price[i]
             /\ status'[i] = status[i]
  <2>1. /\ e.item = i => e.amount <= BuyNowPrice[i]
        /\ e.amount \in Int /\ BuyNowPrice[i] \in Int
    BY SoldPrice, ItemAssumption DEF TablesTypeOK, Event
  <2>2. i # e.item
    BY <1>1, <1>3, <2>1 DEF Handles, Recorded
  <2> QED
    BY <1>3, <2>2, HistoryAfter DEF Handles, TablesTypeOK, ReadModelTypeOK
<1>4. ASSUME NEW t \in 0 .. now, NEW S \in SUBSET Items, Opens(S, t) \/ Closes(S, t)
      PROVE  /\ bids'[i] = bids[i]
             /\ current_price'[i] = current_price[i]
             /\ status'[i] = status[i]
  BY <1>1, <1>4 DEF Opens, Closes, SetStatus, Due
<1> QED
  BY <1>2, <1>3, <1>4 DEF TablesStep

-----------------------------------------------------------------------------
(* The contract with the readers, Auction.                                 *)

\* Auction's phases, as the refinement mapping computes them.
Phases == [i \in Items |-> AuctionPhase(i)]

\* The phase of an item is that of its status, unless it is sold.
LEMMA PhaseOf ==
    ASSUME TablesTypeOK, TablesInv, NEW i \in Items
    PROVE  /\ Sold(i) <=> AuctionPhase(i) = "sold"
           /\ status[i] = "SCHEDULED" => AuctionPhase(i) = "scheduled"
           /\ status[i] = "ACTIVE" => AuctionPhase(i) = "open"
           /\ status[i] = "COMPLETED" /\ ~Sold(i) => AuctionPhase(i) = "closed"
<1>1. status[i] \in Statuses /\ (Sold(i) => status[i] = "COMPLETED")
  BY DEF TablesTypeOK, ReadModelTypeOK, TablesInv, StatusHasReason
<1> QED
  BY <1>1 DEF AuctionPhase, Statuses

\* A phase changes with its status or with the sale.
LEMMA PhaseUnchanged ==
    ASSUME NEW i \in Items, status[i] \in Statuses,
           Sold(i)' <=> Sold(i), status'[i] = status[i]
    PROVE  AuctionPhase(i)' = AuctionPhase(i)
<1>1. CASE Sold(i)
  BY <1>1 DEF AuctionPhase
<1>2. CASE ~Sold(i)
  BY <1>2 DEF AuctionPhase, Statuses
<1> QED
  BY <1>1, <1>2

\* Nobody's command is recorded twice: its first row is as high as its event.
LEMMA RecordedOnce ==
    ASSUME TablesTypeOK, TablesInv, NEW e \in events, Recorded(e),
           NEW k \in DOMAIN bids[e.item]
    PROVE  bids[e.item][k].bidder # e.bidder
<1>1. e.item \in Items /\ e.amount \in Int
  BY DEF TablesTypeOK, Event
<1>2. PICK f \in events : /\ f.bidder = bids[e.item][k].bidder
                          /\ f.amount = bids[e.item][k].amount
  BY <1>1 DEF TablesInv, BidsAreStoredEvents
<1>3. f.amount <= current_price[e.item] /\ f.amount \in Int
  BY <1>1, <1>2, LastIsHighest DEF TablesInv
<1>4. current_price[e.item] < e.amount /\ current_price[e.item] \in Int
  BY <1>1 DEF Recorded, TablesTypeOK, ReadModelTypeOK
<1>5. f # e
  BY <1>1, <1>3, <1>4
<1> QED
  BY <1>2, <1>5 DEF TablesInv, ValidLog

\* A handler whose UPDATE finds a row is a Raise or a Sell.
LEMMA RecordingIsAllowed ==
    ASSUME TablesTypeOK, TablesInv, NEW e \in events, Handles(e)
    PROVE  Contract!Next
<1> DEFINE i == e.item
<1>1. /\ i \in Items /\ e.bidder \in Requests /\ e.amount \in Int
      /\ e.time \in Nat /\ Valid(e) /\ Recorded(e)
  BY DEF TablesTypeOK, Event, TablesInv, ValidLog, Handles
<1>2. /\ BuyNowPrice[i] \in Int /\ current_price[i] \in Int /\ now \in Nat
      /\ current_price[i] < e.amount
  BY <1>1, ItemAssumption DEF TablesTypeOK, ReadModelTypeOK, Recorded
<1>3. e.time \in 0 .. now
  BY <1>1, <1>2 DEF Handles
<1>4. Contract!Record(i, e.bidder, e.amount, e.time)
  BY <1>1, RecordedOnce DEF Contract!Record, Handles, Recorded, RecordBid, Valid
<1>5. \A j \in Items : Sold(j)' <=> Sold(j) \/ (j = i /\ e.kind = "BuyNowExecuted")
  BY <1>1, SoldAfter
<1>6. status \in [Items -> Statuses] /\ status[i] # "SCHEDULED"
  BY <1>1 DEF TablesTypeOK, ReadModelTypeOK, Handles
<1>7. ~Sold(i)
  <2>1. e.amount <= BuyNowPrice[i]
    BY <1>1, SoldPrice
  <2>2. Sold(i) => current_price[i] = BuyNowPrice[i]
    BY <1>1, SoldPrice
  <2> QED
    BY <1>1, <1>2, <2>1, <2>2
<1>8. CASE e.kind = "BidPlaced"
  <2>1. Phases' = Phases
    <3>1. \A j \in Items : AuctionPhase(j)' = AuctionPhase(j)
      BY <1>5, <1>6, <1>8, PhaseUnchanged DEF Handles
    <3> QED
      BY <3>1 DEF Phases
  <2>2. Phases[i] \in {"open", "closed"}
    BY <1>1, <1>6, <1>7, PhaseOf DEF Phases, Statuses
  <2>3. e.amount \in (current_price[i] + 1) .. (BuyNowPrice[i] - 1)
    BY <1>1, <1>2, <1>8 DEF Valid
  <2>4. Contract!Raise(i)
    BY <1>1, <1>3, <1>4, <2>1, <2>2, <2>3 DEF Contract!Raise, Phases
  <2> QED
    BY <1>1, <2>4 DEF Contract!Next
<1>9. CASE e.kind = "BuyNowExecuted"
  <2>1. status[i] = "ACTIVE" /\ e.amount = BuyNowPrice[i]
    BY <1>1, <1>6, <1>9 DEF Statuses, Valid, Handles
  <2>2. Phases[i] = "open"
    BY <1>1, <2>1, PhaseOf DEF Phases
  <2>3. \A j \in Items : AuctionPhase(j)' = IF j = i THEN "sold" ELSE AuctionPhase(j)
    <3>1. Sold(i)'
      BY <1>1, <1>5, <1>9
    <3>2. AuctionPhase(i)' = "sold"
      BY <3>1 DEF AuctionPhase
    <3>3. ASSUME NEW j \in Items \ {i} PROVE AuctionPhase(j)' = AuctionPhase(j)
      <4>1. status[j] \in Statuses /\ (Sold(j)' <=> Sold(j)) /\ status'[j] = status[j]
        BY <1>5, <1>6, <1>9 DEF Handles
      <4> QED
        BY <4>1, PhaseUnchanged
    <3> QED
      BY <3>2, <3>3
  <2>4. Phases' = [Phases EXCEPT ![i] = "sold"]
    BY <2>3 DEF Phases
  <2>5. Contract!Sell(i)
    BY <1>1, <1>3, <1>4, <2>1, <2>2, <2>4 DEF Contract!Sell, Phases
  <2> QED
    BY <1>1, <2>5 DEF Contract!Next
<1> QED
  BY <1>8, <1>9 DEF Handles

\* An UPDATE of the scheduler opens or closes auctions that are due.
LEMMA SchedulingIsAllowed ==
    ASSUME TablesTypeOK, TablesInv, TablesInv', NEW t \in 0 .. now,
           NEW S \in SUBSET Items, Opens(S, t) \/ Closes(S, t)
    PROVE  Contract!Next
<1>1. /\ now \in Nat /\ status \in [Items -> Statuses]
      /\ \A i \in Items : /\ StartTime[i] \in Nat /\ EndTime[i] \in Nat
                          /\ Sold(i)' <=> Sold(i)
  BY ItemAssumption DEF TablesTypeOK, ReadModelTypeOK, Sold, Opens, Closes
<1>2. CASE Opens(S, t)
  <2>1. \A i \in S : status[i] = "SCHEDULED" /\ StartTime[i] <= now
    BY <1>1, <1>2 DEF Opens, Due
  <2>2. \A i \in Items : status'[i] = IF i \in S THEN "ACTIVE" ELSE status[i]
    BY <1>2 DEF Opens, SetStatus
  <2>3. ASSUME NEW i \in S
        PROVE  AuctionPhase(i) = "scheduled" /\ AuctionPhase(i)' = "open"
    <3>1. AuctionPhase(i) = "scheduled" /\ ~Sold(i) /\ ~Sold(i)'
      BY <1>1, <2>1, PhaseOf
    <3> QED
      BY <2>1, <2>2, <3>1 DEF AuctionPhase
  <2>4. \A i \in Items \ S : AuctionPhase(i)' = AuctionPhase(i)
    BY <1>1, <2>2, PhaseUnchanged
  <2>5. Contract!Open(S)
    BY <1>2, <2>1, <2>3, <2>4 DEF Contract!Open, Contract!Advance, Opens
  <2> QED
    BY <2>5 DEF Contract!Next
<1>3. CASE Closes(S, t)
  <2>1. \A i \in S : status[i] = "ACTIVE" /\ EndTime[i] <= now
    BY <1>1, <1>3 DEF Closes, Due
  <2>2. \A i \in Items : status'[i] = IF i \in S THEN "COMPLETED" ELSE status[i]
    BY <1>3 DEF Closes, SetStatus
  <2>3. ASSUME NEW i \in S
        PROVE  AuctionPhase(i) = "open" /\ AuctionPhase(i)' = "closed"
    <3>1. AuctionPhase(i) = "open" /\ ~Sold(i) /\ ~Sold(i)'
      BY <1>1, <2>1, PhaseOf
    <3> QED
      BY <2>1, <2>2, <3>1 DEF AuctionPhase
  <2>4. \A i \in Items \ S : AuctionPhase(i)' = AuctionPhase(i)
    BY <1>1, <2>2, PhaseUnchanged
  <2>5. Contract!Close(S)
    BY <1>3, <2>1, <2>3, <2>4 DEF Contract!Close, Contract!Advance, Closes
  <2> QED
    BY <2>5 DEF Contract!Next
<1> QED
  BY <1>2, <1>3

LEMMA TablesInitAllowed ==
    ASSUME ReadModelInit
    PROVE  Contract!Init
<1>1. \A i \in Items : ~Sold(i)
  BY DEF ReadModelInit, Sold
<1>2. \A i \in Items :
          AuctionPhase(i) = IF now < StartTime[i] THEN "scheduled"
                            ELSE IF now < EndTime[i] THEN "open"
                            ELSE "closed"
  BY <1>1 DEF ReadModelInit, AuctionPhase
<1> QED
  BY <1>2 DEF ReadModelInit, Contract!Init

\* Every write is a step of Auction or none that its readers notice.
LEMMA TablesStepAllowed ==
    ASSUME TablesTypeOK, TablesTypeOK', TablesInv, TablesInv', TablesStep
    PROVE  [Contract!Next]_Contract!vars
<1>1. CASE UNCHANGED itemVars /\ (now' = now \/ now' = now + 1)
  <2>1. Phases' = Phases
    BY <1>1 DEF itemVars, Phases, AuctionPhase, Sold
  <2> QED
    BY <1>1, <2>1 DEF itemVars, Phases, Contract!Next, Contract!Pass,
       Contract!vars
<1> QED
  BY <1>1, RecordingIsAllowed, SchedulingIsAllowed DEF TablesStep
=============================================================================
