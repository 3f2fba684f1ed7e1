-------------------------- MODULE MCAuctionService ---------------------------
(* Small instances of AuctionService for TLC.                              *)
EXTENDS DocumentedClaims, TLC

CONSTANTS i1, r1, r2, r3

\* An auction over [1, 2], sold at once for 3.
OneItem == {i1}
OneStartingPrice == i1 :> 0
OneBuyNowPrice == i1 :> 3
OneStartTime == i1 :> 1
OneEndTime == i1 :> 2

\* An auction over [0, 1] that is open from the first state on.
OpenStartTime == i1 :> 0
OpenEndTime == i1 :> 1

\* A purchase, two bids below buy_now_price and one above it.
BidOf(a) == [kind |-> "bid", item |-> i1, amount |-> a]
Purchase == [kind |-> "buy_now", item |-> i1, amount |-> 0]
AllCommands == {BidOf(1), BidOf(2), BidOf(4), Purchase}
BidCommands == {BidOf(1), BidOf(2)}
PurchaseOnly == {Purchase}
SaleCommands == {BidOf(1), Purchase}
RivalCommands == {BidOf(1), BidOf(2), Purchase}

\* Where the clock stands still and no auction is due, the schedulers do
\* nothing but wake up and go back to sleep, which need not be explored.
SchedulersAsleep == \A s \in Servers : phase[s] = "asleep"

Symmetry == Permutations(Requests) \cup Permutations(Servers)
                \cup Permutations(Partitions)
=============================================================================
