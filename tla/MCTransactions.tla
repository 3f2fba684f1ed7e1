--------------------------- MODULE MCTransactions ----------------------------
(* Small instances of Transactions for TLC.                                *)
EXTENDS TransactionProperties, TLC

CONSTANTS i1, i2, r1, r2, r3

\* Two auctions, over [0, 1] and [1, 1], that start at different prices.
TwoItems == {i1, i2}
TwoStartingPrice == i1 :> 0 @@ i2 :> 1
TwoBuyNowPrice == i1 :> 3 @@ i2 :> 3
TwoStartTime == i1 :> 0 @@ i2 :> 1
TwoEndTime == i1 :> 1 @@ i2 :> 1

\* The first of them alone.
OneItem == {i1}
OneStartingPrice == i1 :> 0
OneBuyNowPrice == i1 :> 3
OneStartTime == i1 :> 0
OneEndTime == i1 :> 1

\* The log of i1 with a bid and a purchase, that of i2 with a bid.
EventFor(i, v, k, r, a) ==
    [item |-> i, version |-> v, kind |-> k, bidder |-> r, amount |-> a,
     time |-> TwoStartTime[i]]
BidAndSale == {EventFor(i1, 1, "BidPlaced", r1, 1),
               EventFor(i1, 2, "BuyNowExecuted", r2, 3)}
ThreeEvents == BidAndSale \cup {EventFor(i2, 1, "BidPlaced", r3, 2)}

\* All but GET /auction/:id, which shows no price.
Showing == Endpoints \ {"auction_state"}

Symmetry == Permutations(Servers)
=============================================================================
