------------------------------- MODULE Queries -------------------------------
(***************************************************************************)
(* The GET endpoints (src/handlers.rs, src/query/): each is one SELECT in  *)
(* a transaction of its own and sees committed rows only.  What matters of *)
(* an answer is the prices it shows of an item; the order of the rows and  *)
(* the columns that never change are left out.                             *)
(***************************************************************************)
EXTENDS EventStore

\* GET /auction/:id, its /highest-bid and /bids, GET /items, /items/:id and
\* /items/:id/bids.
ItemEndpoints == {"auction_state", "items", "item"}
BidEndpoints == {"bid_history", "item_bids"}
Endpoints == ItemEndpoints \cup BidEndpoints \cup {"highest_bid"}

\* The fields of the row type Item; none of them has a default.
ItemColumns == {"id", "title", "description", "starting_price",
                "current_price", "buy_now_price", "start_time", "end_time",
                "seller", "status", "created_at"}

\* The columns that the SELECT of an endpoint about items returns.
Selected(endpoint) ==
    IF endpoint = "auction_state" THEN ItemColumns \ {"buy_now_price"}
                                  ELSE ItemColumns

\* query_as::<_, Item> fails on a row that lacks a column of Item.
Decodes(endpoint) ==
    endpoint \in ItemEndpoints => ItemColumns \subseteq Selected(endpoint)

Amounts(i) == {b.amount : b \in Range(bids[i])}

\* SELECT MAX(bid_amount): NULL if there is no row.
get_highest_bid(i) == {a \in Amounts(i) : \A b \in Amounts(i) : b <= a}

\* The prices of an item that an endpoint shows.
PricesShown(endpoint, i) ==
    CASE endpoint \in ItemEndpoints -> {get_item(i).price}
      [] endpoint \in BidEndpoints  -> Amounts(i)
      [] endpoint = "highest_bid"   -> get_highest_bid(i)
=============================================================================
