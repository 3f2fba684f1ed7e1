---------------------------- MODULE EventHandlers ----------------------------
(***************************************************************************)
(* The two handlers of EventConsumer (src/event_store/mod.rs): what one    *)
(* message does to the tables items and bids.  A handler is one database   *)
(* transaction and here one step; module Transactions has its statements   *)
(* apart and shows that one step is what they amount to.                   *)
(***************************************************************************)
EXTENDS EventStore

\* INSERT INTO bids, in the transaction of the UPDATE of items.
RecordBid(e) ==
    bids' = [bids EXCEPT ![e.item] =
                Append(@, [bidder |-> e.bidder,
                           amount |-> e.amount,
                           time   |-> e.time])]

\* Mutant of HandleBidPlaced: AND current_price <= ..
HandleBidPlacedOrEqual(e) ==
    /\ e.kind = "BidPlaced"
    /\ \/ /\ current_price[e.item] <= e.amount
          /\ current_price' = [current_price EXCEPT ![e.item] = e.amount]
          /\ RecordBid(e)
          /\ UNCHANGED status
       \/ /\ current_price[e.item] > e.amount
          /\ UNCHANGED itemVars

\* Mutant of HandleBidPlaced: the UPDATE has no condition on the price.
HandleBidPlacedAlways(e) ==
    /\ e.kind = "BidPlaced"
    /\ current_price' = [current_price EXCEPT ![e.item] = e.amount]
    /\ RecordBid(e)
    /\ UNCHANGED status

\* Mutant of HandleBidPlaced: AND status = 'ACTIVE'
HandleBidPlacedIfActive(e) ==
    /\ e.kind = "BidPlaced"
    /\ \/ /\ current_price[e.item] < e.amount /\ status[e.item] = "ACTIVE"
          /\ current_price' = [current_price EXCEPT ![e.item] = e.amount]
          /\ RecordBid(e)
          /\ UNCHANGED status
       \/ /\ current_price[e.item] >= e.amount \/ status[e.item] # "ACTIVE"
          /\ UNCHANGED itemVars

\* UPDATE items SET current_price = .. WHERE .. AND current_price < ..
HandleBidPlaced(e) ==
    /\ e.kind = "BidPlaced"
    /\ \/ /\ current_price[e.item] < e.amount
          /\ current_price' = [current_price EXCEPT ![e.item] = e.amount]
          /\ RecordBid(e)
          /\ UNCHANGED status
       \/ /\ current_price[e.item] >= e.amount
          /\ UNCHANGED itemVars

\* Mutant of HandleBuyNowExecuted: the UPDATE has no condition on the status.
HandleBuyNowAnyStatus(e) ==
    /\ e.kind = "BuyNowExecuted"
    /\ \/ /\ current_price[e.item] < e.amount
          /\ current_price' = [current_price EXCEPT ![e.item] = e.amount]
          /\ status' = [status EXCEPT ![e.item] = "COMPLETED"]
          /\ RecordBid(e)
       \/ /\ current_price[e.item] >= e.amount
          /\ UNCHANGED itemVars

\* UPDATE items SET current_price = .., status = 'COMPLETED'
\* WHERE .. AND current_price < .. AND status != 'COMPLETED'
HandleBuyNowExecuted(e) ==
    /\ e.kind = "BuyNowExecuted"
    /\ \/ /\ current_price[e.item] < e.amount
          /\ status[e.item] # "COMPLETED"
          /\ current_price' = [current_price EXCEPT ![e.item] = e.amount]
          /\ status' = [status EXCEPT ![e.item] = "COMPLETED"]
          /\ RecordBid(e)
       \/ /\ \/ current_price[e.item] >= e.amount
             \/ status[e.item] = "COMPLETED"
          /\ UNCHANGED itemVars
=============================================================================
