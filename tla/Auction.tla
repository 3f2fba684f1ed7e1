------------------------------- MODULE Auction -------------------------------
(***************************************************************************)
(* What the service promises to those who look at an item and its bids: an *)
(* ascending auction with a fixed price at which it can be bought outright.*)
(* No requests, no log, no queue and no scheduler here.                    *)
(***************************************************************************)
EXTENDS Integers, Sequences

CONSTANTS Items, Bidders, StartingPrice, BuyNowPrice, StartTime, EndTime

VARIABLES
    now,
    price,      \* what the next bid has to exceed
    phase,      \* of the auction of each item
    history     \* the bids on each item

vars == <<now, price, phase, history>>

Init ==
    /\ now = 0
    /\ price = StartingPrice
    /\ phase = [i \in Items |-> IF now < StartTime[i] THEN "scheduled"
                                ELSE IF now < EndTime[i] THEN "open"
                                ELSE "closed"]
    /\ history = [i \in Items |-> <<>>]

\* A bid of b made at time t while the auction was open enters the history;
\* nobody's command enters it twice.
Record(i, b, a, t) ==
    /\ StartTime[i] <= t /\ t <= EndTime[i] /\ t <= now
    /\ \A k \in DOMAIN history[i] : history[i][k].bidder # b
    /\ price' = [price EXCEPT ![i] = a]
    /\ history' = [history EXCEPT ![i] =
                       Append(@, [bidder |-> b, amount |-> a, time |-> t])]
    /\ UNCHANGED now

\* A higher bid, which may be recorded late but never on a sold item.
Raise(i) ==
    /\ phase[i] \in {"open", "closed"}
    /\ \E b \in Bidders, t \in 0 .. now,
          a \in (price[i] + 1) .. (BuyNowPrice[i] - 1) : Record(i, b, a, t)
    /\ UNCHANGED phase

Sell(i) ==
    /\ phase[i] = "open"
    /\ phase' = [phase EXCEPT ![i] = "sold"]
    /\ \E b \in Bidders, t \in 0 .. now : Record(i, b, BuyNowPrice[i], t)

\* Auctions move from one phase to the next when they are due, several of
\* them in one step.
Advance(S, from, due, to) ==
    /\ \A i \in S : phase[i] = from /\ due[i] <= now
    /\ phase' = [i \in Items |-> IF i \in S THEN to ELSE phase[i]]
    /\ UNCHANGED <<now, price, history>>

Open(S) == Advance(S, "scheduled", StartTime, "open")
Close(S) == Advance(S, "open", EndTime, "closed")

Pass ==
    /\ now' = now + 1
    /\ UNCHANGED <<price, phase, history>>

Next ==
    \/ \E i \in Items : Raise(i) \/ Sell(i)
    \/ \E S \in SUBSET Items : Open(S) \/ Close(S)
    \/ Pass

Spec == Init /\ [][Next]_vars
=============================================================================
