------------------------------ MODULE ReadModel ------------------------------
(***************************************************************************)
(* The tables items and bids (src/sql/01-create-schema.sql): what the      *)
(* queries return, the commands validate against, and the event consumer   *)
(* and the scheduler update.  Prices are only ever compared, so an i64 is  *)
(* an integer.  Utc::now() is the variable now, one clock for all servers. *)
(***************************************************************************)
EXTENDS Integers, Sequences, FiniteSets

CONSTANTS
    Items,          \* ids of the rows of table items
    Requests,       \* HTTP command requests; nothing in the code looks into
                    \* a bidder_id, so a request is also its bidder
    StartingPrice,  \* columns of items that no statement updates
    BuyNowPrice,
    StartTime,
    EndTime,
    Servers,        \* running instances of the service
    MaxTime         \* bound on the clock

ASSUME ItemAssumption ==
    /\ StartingPrice \in [Items -> Int]
    /\ BuyNowPrice \in [Items -> Int]
    /\ StartTime \in [Items -> Nat]
    /\ EndTime \in [Items -> Nat]
    /\ \A i \in Items : StartingPrice[i] < BuyNowPrice[i]
    /\ MaxTime \in Nat

VARIABLES
    now,            \* Utc::now()
    current_price,  \* items.current_price
    status,         \* items.status
    bids            \* the rows of table bids of each item, in insertion order

itemVars == <<current_price, status, bids>>

Statuses == {"SCHEDULED", "ACTIVE", "COMPLETED"}

\* A row of table bids.
Bid == [bidder : Requests, amount : Int, time : Nat]

\* What GET_ITEM returns of the columns that change.
Item == [price : Int, status : Statuses]
get_item(i) == [price |-> current_price[i], status |-> status[i]]

ReadModelTypeOK ==
    /\ now \in Nat
    /\ current_price \in [Items -> Int]
    /\ status \in [Items -> Statuses]
    /\ bids \in [Items -> Seq(Bid)]

\* The seeded rows and those of the tests start with a status that agrees
\* with the clock and with current_price = starting_price.
ReadModelInit ==
    /\ now = 0
    /\ current_price = StartingPrice
    /\ status = [i \in Items |-> IF now < StartTime[i] THEN "SCHEDULED"
                                 ELSE IF now < EndTime[i] THEN "ACTIVE"
                                 ELSE "COMPLETED"]
    /\ bids = [i \in Items |-> <<>>]

Tick ==
    /\ now < MaxTime
    /\ now' = now + 1
    /\ UNCHANGED itemVars
=============================================================================
