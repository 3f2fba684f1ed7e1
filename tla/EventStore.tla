----------------------------- MODULE EventStore ------------------------------
(***************************************************************************)
(* The table events (src/event_store/mod.rs, GET_ITEM_VERSION): an append- *)
(* only log per item, guarded by UNIQUE (aggregate_id, version).  The      *)
(* serial id of a row serves only as the Kafka key (see MessageBroker) and *)
(* is left out.                                                            *)
(***************************************************************************)
EXTENDS ReadModel, FiniteSetsExt

VARIABLE events     \* the rows of table events

\* Event with the AuctionEvent in its data column flattened into it.
Event == [item    : Items,
          version : Nat \ {0},
          kind    : {"BidPlaced", "BuyNowExecuted"},
          bidder  : Requests,
          amount  : Int,
          time    : Nat]

EventStoreInit == events = {}

Versions(i) == {e.version : e \in {f \in events : f.item = i}}

\* SELECT COALESCE(MAX(version), 0) FROM events WHERE aggregate_id = i
get_item_version(i) == Max(Versions(i) \cup {0})

\* The UNIQUE (aggregate_id, version) constraint of the schema.
Conflicts(e) == \E f \in events : f.item = e.item /\ f.version = e.version

\* Mutant of Insert: no constraint on (aggregate_id, version).
InsertUnchecked(e) == events' = events \cup {e}

\* Mutant of Insert: ON CONFLICT .. DO UPDATE.
InsertOrUpdate(e) ==
    events' = {f \in events : f.item # e.item \/ f.version # e.version} \cup {e}

\* INSERT ... ON CONFLICT (aggregate_id, version) DO NOTHING, a row returned.
Insert(e) ==
    /\ ~Conflicts(e)
    /\ events' = events \cup {e}
=============================================================================
