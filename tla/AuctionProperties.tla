------------------------- MODULE AuctionProperties --------------------------
(***************************************************************************)
(* What makes the service correct.  Unless a comment says otherwise, a     *)
(* property holds under all the faults of AuctionService.                  *)
(***************************************************************************)
EXTENDS AuctionService, ReadModelProperties

-----------------------------------------------------------------------------
(* The command side.                                                       *)

\* The optimistic check works: whatever requests race, the events of an item
\* carry the versions 1, 2, .., n, each exactly once (the conditional INSERT
\* of append_and_publish_event against MAX(version) read two awaits earlier).
GaplessVersions ==
    /\ \A i \in Items : Versions(i) = 1 .. get_item_version(i)
    /\ \A e, f \in events : e.item = f.item /\ e.version = f.version => e = f

\* A request stores at most one event, however often its loop goes round.
OneEventPerRequest ==
    \A e, f \in events : e.bidder = f.bidder => e = f

\* Rivals of a request: the others that have stored an event on its item.
Rivals(r) ==
    {q \in Requests \ {r} :
        \E e \in events : e.bidder = q /\ e.item = cmd[r].item}

\* The retry loop is lock-free: a request that gives up after MAX_RETRIES has
\* lost to as many different requests, so fewer rivals never exhaust it.  (The
\* test test_concurrent_bidding relies on it with 50 bidders and 100 retries.)
RetriesSuffice ==
    \A r \in Requests :
        reply[r] = "MAX_RETRIES_EXCEEDED" => Cardinality(Rivals(r)) >= MaxRetries

\* An OK means that the event is stored and in the topic; a reasoned refusal
\* means that the request left no event behind.
RepliesAreTruthful ==
    \A r \in Requests :
        LET own == {e \in events : e.bidder = r}
        IN  /\ reply[r] = "OK" => own # {} /\ \A e \in own : Published(e)
            /\ reply[r] \in Rejections => own = {}

\* The log of an item as EventLog describes it.  A request has appended as
\* soon as its INSERT has taken effect, whatever became of its answer.
Log == INSTANCE EventLog WITH
    log <- [i \in Items |->
               [v \in 1 .. get_item_version(i) |->
                   (CHOOSE e \in events : e.item = i /\ e.version = v).bidder]],
    appended <- {e.bidder : e \in events}

\* Two reads and a conditional INSERT, repeated on conflict, have the effect of
\* one atomic append to the log of the item (src/bidding/commands.rs).
ImplementsEventLog == Log!Spec

\* Every request gets an answer or is known to be lost: the loop of a command
\* ends whatever its rivals and the faults do (needs Fairness).
EveryRequestAnswered ==
    \A r \in Requests : pc[r] = "arrive" ~> pc[r] = "done"

-----------------------------------------------------------------------------
(* The read side.                                                          *)

\* A sale is final: events accepted before the sale became visible, and other
\* purchases accepted meanwhile, change nothing when they are applied.
SoldIsFinal ==
    [][\A i \in Items : Sold(i) => /\ bids'[i] = bids[i]
                                   /\ current_price'[i] = current_price[i]
                                   /\ status'[i] = status[i]]_vars

-----------------------------------------------------------------------------
(* Both sides.                                                             *)

\* The event is still on its way to the read side.
OnItsWay(e) ==
    \/ pc[e.bidder] = "send"
    \/ \E p \in Partitions :
          \E k \in (position[p] + 1) .. Len(topic[p]) : topic[p][k] = e
    \/ \E s \in Servers : e \in inflight[s]

\* Its effect, or that of an event that overrides it, has been recorded.
Reflected(e) ==
    \/ current_price[e.item] >= e.amount
    \/ e.kind = "BuyNowExecuted" /\ status[e.item] = "COMPLETED"

\* The step in which an event may be forgotten: its request fails before it has
\* sent it, or the server that is handling its message fails.
FailsInHand(e) ==
    \/ /\ pc[e.bidder] \in {"append", "send"}
       /\ FailRequest(e.bidder) \/ Crash(home[e.bidder])
    \/ \E s \in Servers : e \in inflight[s] /\ (DropMessage(s) \/ Crash(s))

\* Nothing else loses an event: no rebalance, no commit ahead of the handler, no
\* duplicate or reordering, no failure of another request or server, and no
\* answer that the client of a sent event does not get.
LostOnlyInHand ==
    [][\A e \in events' :
          \/ (OnItsWay(e) \/ Reflected(e))'
          \/ e \in events /\ ~OnItsWay(e) /\ ~Reflected(e)
          \/ FailsInHand(e)]_vars

\* While nothing fails (FaultFreeSpec), no stored event is forgotten between
\* the commit of its INSERT and the transaction of the consumer.
NothingLost == \A e \in events : OnItsWay(e) \/ Reflected(e)

\* The price of an item is that of its highest accepted bid, unless somebody
\* bought it.
StandsAtHighest(i) ==
    LET own == {e \in events : e.item = i}
    IN  \/ \E e \in own : e.kind = "BuyNowExecuted"
        \/ current_price[i] = Max({e.amount : e \in own} \cup {StartingPrice[i]})

\* While nothing fails, an item nobody bought ends at the highest accepted bid,
\* as test_concurrent_bidding expects: no lower bid, handled later or by
\* another server, prevails.
HighestBidWins == \A i \in Items : <>[]StandsAtHighest(i)

\* While nothing fails, every auction ends by itself, as test_auction_lifecycle
\* expects: the scheduler catches up with what it missed the moment of.
AuctionsEnd == \A i \in Items : <>[](status[i] = "COMPLETED")
=============================================================================
