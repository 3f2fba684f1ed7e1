------------------------ MODULE TransactionProperties ------------------------
(***************************************************************************)
(* What makes the statements of Transactions correct.                      *)
(***************************************************************************)
EXTENDS Transactions, EventHandlers

\* AuctionService treats a handler and an UPDATE of the scheduler as one step
\* each.  They are: whatever statements of other servers run in between, every
\* change of items and bids is one that such a step makes.  Only the second
\* UPDATE may miss an item, one that became ACTIVE while it ran; the next tick
\* finds it.
WritesAreAtomic ==
    [][\/ \E e \in events : HandleBidPlaced(e) \/ HandleBuyNowExecuted(e)
       \/ \E t \in 0 .. now :
            /\ \/ SetStatus(Due("SCHEDULED", StartTime, t), "ACTIVE")
               \/ \E S \in SUBSET Due("ACTIVE", EndTime, t) :
                     SetStatus(S, "COMPLETED")
            /\ UNCHANGED <<current_price, bids>>]_itemVars

\* A price that some client was shown is never taken back: whichever server
\* and endpoint is asked next, about items or about bids, shows at least that
\* (UPDATE and INSERT of a handler become visible together).
AnswersNeverGoBack ==
    \A i \in Items, ep \in Asked :
        told[i] > StartingPrice[i] =>
            \E p \in PricesShown(ep, i) : p >= told[i]

\* The rows that the next statement of a task may have to wait for.
WantedRows(t) ==
    CASE t.role = "scheduler" -> todo[t.server]
      [] t.role = "consumer" /\ stage[t.server] = "update" ->
             {e.item : e \in {f \in job[t.server] : Hits(f)}}
      [] OTHER -> {}

WaitsForRow(t, K) ==
    /\ conn[t] = "held"
    /\ \E i \in WantedRows(t), u \in K \ {t} : i \in locked[u]

\* One free connection is enough, so all who hold one have to be in K.
WaitsForPool(t, K) ==
    /\ conn[t] = "wanted"
    /\ PoolFull(t.server)
    /\ {u \in Tasks : u.server = t.server /\ conn[u] = "held"} \subseteq K

\* The tasks of K may all wait for each other.
Knot(K) == K # {} /\ \A t \in K : WaitsForRow(t, K) \/ WaitsForPool(t, K)

\* Pool and row locks cannot tie up a server: a knot always has schedulers
\* among its tasks that wait for rows of each other only, which PostgreSQL's
\* deadlock detector sees and resolves; no consumer is ever its victim, and no
\* knot consists of connections alone, which nobody would see.
OnlySchedulersDeadlock ==
    \A K \in SUBSET Tasks :
        Knot(K) => \E L \in SUBSET {t \in K : t.role = "scheduler"} :
                      L # {} /\ \A t \in L : WaitsForRow(t, L)

-----------------------------------------------------------------------------
\* README: the state of an auction can be looked up, so GET /auction/:id never
\* answers 500 when the query itself succeeds.  The code does not keep this.
AuctionStateAnswers == "auction_state" \notin broken
=============================================================================
