------------------------------- MODULE Bidding -------------------------------
(***************************************************************************)
(* The command side: POST /bid and POST /buy-now (src/handlers.rs) and the *)
(* optimistic loop behind them (src/bidding/commands.rs).  Every await of  *)
(* the code ends a step, so whatever a request has read may be stale by    *)
(* the time it uses it.  A request that has not arrived yet is at its      *)
(* first await.  The actions constrain the requests' own variables, the    *)
(* event store and the broker; the rest is left to the composition.        *)
(***************************************************************************)
EXTENDS MessageBroker

CONSTANTS
    Commands,   \* the commands clients may send
    MaxRetries  \* MAX_RETRIES

\* PlaceBidCommand and BuyNowCommand; amount is of no use in the latter.
Command == [kind : {"bid", "buy_now"}, item : Items, amount : Int]

ASSUME CommandAssumption ==
    /\ Commands \subseteq Command
    /\ MaxRetries \in Nat \ {0}

VARIABLES
    pc,         \* the await at which a request is suspended
    cmd,        \* the command it carries
    home,       \* the server that handles it
    retries,
    version,    \* current_version
    seen,       \* the row returned by get_item
    stamp,      \* the local variable now
    reply       \* the answer: a code, "OK", "ERROR", or "LOST" for no answer

requestVars == <<pc, cmd, home, retries, version, seen, stamp, reply>>

Labels == {"arrive", "read_version", "read_item", "decide", "append",
           "send", "confirm", "respond", "done"}

Rejections == {"TOO_LOW", "NOT_STARTED", "ALREADY_ENDED", "LOW_BID",
               "MAX_RETRIES_EXCEEDED"}
Replies == {"none", "OK", "ERROR", "LOST"} \cup Rejections

\* Value of seen while it is out of scope.
NoRow == [price |-> 0, status |-> "SCHEDULED"]

BiddingTypeOK ==
    /\ pc \in [Requests -> Labels]
    /\ cmd \in [Requests -> Commands]
    /\ home \in [Requests -> Servers]
    /\ retries \in [Requests -> Nat]
    /\ version \in [Requests -> Nat]
    /\ seen \in [Requests -> Item]
    /\ stamp \in [Requests -> Nat]
    /\ reply \in [Requests -> Replies]

BiddingInit ==
    /\ pc = [r \in Requests |-> "arrive"]
    /\ cmd \in [Requests -> Commands]
    /\ home \in [Requests -> Servers]
    /\ retries = [r \in Requests |-> 0]
    /\ version = [r \in Requests |-> 0]
    /\ seen = [r \in Requests |-> NoRow]
    /\ stamp = [r \in Requests |-> 0]
    /\ reply = [r \in Requests |-> "none"]

Goto(r, label) ==
    /\ pc' = [pc EXCEPT ![r] = label]
    /\ UNCHANGED <<cmd, home, reply>>

\* The handler returns; its locals go out of scope.
Finish(r, answer) ==
    /\ pc' = [pc EXCEPT ![r] = "done"]
    /\ reply' = [reply EXCEPT ![r] = answer]
    /\ retries' = [retries EXCEPT ![r] = 0]
    /\ version' = [version EXCEPT ![r] = 0]
    /\ seen' = [seen EXCEPT ![r] = NoRow]
    /\ stamp' = [stamp EXCEPT ![r] = 0]
    /\ UNCHANGED <<cmd, home>>

-----------------------------------------------------------------------------
(* Handlers, up to the call of the command.                                *)

\* handle_bid compares the amount with get_item_current_price.
CheckPrice(r) ==
    /\ pc[r] = "arrive"
    /\ cmd[r].kind = "bid"
    /\ \/ /\ cmd[r].amount <= current_price[cmd[r].item]
          /\ Finish(r, "TOO_LOW")
       \/ /\ cmd[r].amount > current_price[cmd[r].item]
          /\ Goto(r, "read_version")
          /\ UNCHANGED <<retries, version, seen, stamp>>
    /\ UNCHANGED <<events, brokerVars>>

\* handle_buy_now compares the clock with start_time; it and process_buy_now
\* read nothing else but buy_now_price, which never changes.
CheckStart(r) ==
    /\ pc[r] = "arrive"
    /\ cmd[r].kind = "buy_now"
    /\ \/ /\ now < StartTime[cmd[r].item]
          /\ Finish(r, "NOT_STARTED")
       \/ /\ now >= StartTime[cmd[r].item]
          /\ Goto(r, "read_version")
          /\ UNCHANGED <<retries, version, seen, stamp>>
    /\ UNCHANGED <<events, brokerVars>>

-----------------------------------------------------------------------------
(* The loop shared by handle_place_bid and handle_buy_now.                 *)

ReadVersion(r) ==
    /\ pc[r] = "read_version"
    /\ version' = [version EXCEPT ![r] = get_item_version(cmd[r].item)]
    /\ Goto(r, "read_item")
    /\ UNCHANGED <<retries, seen, stamp, events, brokerVars>>

ReadItem(r) ==
    /\ pc[r] = "read_item"
    /\ seen' = [seen EXCEPT ![r] = get_item(cmd[r].item)]
    /\ Goto(r, "decide")
    /\ UNCHANGED <<retries, version, stamp, events, brokerVars>>

NotStarted(i, row, t) == t < StartTime[i] \/ row.status = "SCHEDULED"
\* Mutant of Ended: end_time is left to the scheduler.
EndedByStatus(i, row, t) == row.status = "COMPLETED"

Ended(i, row, t) == row.status = "COMPLETED" \/ t > EndTime[i]
LowBid(c, row) == c.kind = "bid" /\ c.amount <= row.price

\* The clock is read, the row is judged by it, and the event is built.  No
\* row reaches INVALID_STATUS: what is left of the three statuses is ACTIVE.
Decide(r) ==
    LET c == cmd[r]
        early == NotStarted(c.item, seen[r], now)
        late == Ended(c.item, seen[r], now)
    IN  /\ pc[r] = "decide"
        /\ \/ early /\ Finish(r, "NOT_STARTED")
           \/ ~early /\ late /\ Finish(r, "ALREADY_ENDED")
           \/ ~early /\ ~late /\ LowBid(c, seen[r]) /\ Finish(r, "LOW_BID")
           \/ /\ ~early /\ ~late /\ ~LowBid(c, seen[r])
              /\ stamp' = [stamp EXCEPT ![r] = now]
              /\ seen' = [seen EXCEPT ![r] = NoRow]
              /\ Goto(r, "append")
              /\ UNCHANGED <<retries, version>>
        /\ UNCHANGED <<events, brokerVars>>

\* A bid of at least buy_now_price is a purchase at buy_now_price.
IsBid(c) == c.kind = "bid" /\ c.amount < BuyNowPrice[c.item]

\* The event of a request that is past its decision.
EventOf(r) ==
    [item    |-> cmd[r].item,
     version |-> version[r] + 1,
     kind    |-> IF IsBid(cmd[r]) THEN "BidPlaced" ELSE "BuyNowExecuted",
     bidder  |-> r,
     amount  |-> IF IsBid(cmd[r]) THEN cmd[r].amount
                                  ELSE BuyNowPrice[cmd[r].item],
     time    |-> stamp[r]]

\* Mutant of Append_Stored: the answer does not wait for the message.
StoreAndForget(r) ==
    /\ pc[r] = "append"
    /\ Insert(EventOf(r))
    /\ Goto(r, "confirm")
    /\ UNCHANGED <<retries, version, seen, stamp, brokerVars>>

\* append_and_publish_event: the INSERT returned an id.
Append_Stored(r) ==
    /\ pc[r] = "append"
    /\ Insert(EventOf(r))
    /\ Goto(r, "send")
    /\ UNCHANGED <<retries, version, seen, stamp, brokerVars>>

\* Mutant of Append_Conflict: the version is read before the loop.
RetryWithOldVersion(r) ==
    /\ pc[r] = "append"
    /\ Conflicts(EventOf(r))
    /\ \/ /\ retries[r] + 1 < MaxRetries
          /\ retries' = [retries EXCEPT ![r] = @ + 1]
          /\ stamp' = [stamp EXCEPT ![r] = 0]
          /\ Goto(r, "read_item")
          /\ UNCHANGED <<version, seen>>
       \/ /\ retries[r] + 1 >= MaxRetries
          /\ Finish(r, "MAX_RETRIES_EXCEEDED")
    /\ UNCHANGED <<events, brokerVars>>

\* Mutant of Append_Conflict: the same without a bound on the retries.
RetryForever(r) ==
    /\ pc[r] = "append"
    /\ Conflicts(EventOf(r))
    /\ stamp' = [stamp EXCEPT ![r] = 0]
    /\ Goto(r, "read_item")
    /\ UNCHANGED <<retries, version, seen, events, brokerVars>>

\* Mutant of Append_Conflict: the message is sent before the row is checked.
ConflictAfterSending(r) ==
    /\ pc[r] = "append"
    /\ Conflicts(EventOf(r))
    /\ Produce(EventOf(r))
    /\ Finish(r, "MAX_RETRIES_EXCEEDED")
    /\ UNCHANGED events

\* The INSERT returned nothing: retry, or give up after MAX_RETRIES.
Append_Conflict(r) ==
    /\ pc[r] = "append"
    /\ Conflicts(EventOf(r))
    /\ \/ /\ retries[r] + 1 < MaxRetries
          /\ retries' = [retries EXCEPT ![r] = @ + 1]
          /\ version' = [version EXCEPT ![r] = 0]
          /\ stamp' = [stamp EXCEPT ![r] = 0]
          /\ Goto(r, "read_version")
          /\ UNCHANGED seen
       \/ /\ retries[r] + 1 >= MaxRetries
          /\ Finish(r, "MAX_RETRIES_EXCEEDED")
    /\ UNCHANGED <<events, brokerVars>>

\* Mutant of Send: a failure to publish is retried like a conflict.
SendOrRetry(r) ==
    /\ pc[r] = "send"
    /\ \/ /\ Produce(EventOf(r))
          /\ Goto(r, "confirm")
          /\ UNCHANGED <<retries, version, stamp>>
       \/ /\ retries[r] + 1 < MaxRetries
          /\ retries' = [retries EXCEPT ![r] = @ + 1]
          /\ version' = [version EXCEPT ![r] = 0]
          /\ stamp' = [stamp EXCEPT ![r] = 0]
          /\ Goto(r, "read_version")
          /\ UNCHANGED brokerVars
    /\ UNCHANGED <<seen, events>>

\* The record reaches the log; the delivery report is still on its way.
Send(r) ==
    /\ pc[r] = "send"
    /\ Produce(EventOf(r))
    /\ Goto(r, "confirm")
    /\ UNCHANGED <<retries, version, seen, stamp, events>>

\* The delivery report arrives.  handle_buy_now answers at once, handle_bid
\* fetches the row for its answer first.
Confirm(r) ==
    /\ pc[r] = "confirm"
    /\ \/ /\ cmd[r].kind = "bid"
          /\ Goto(r, "respond")
          /\ UNCHANGED <<retries, version, seen, stamp>>
       \/ /\ cmd[r].kind = "buy_now"
          /\ Finish(r, "OK")
    /\ UNCHANGED <<events, brokerVars>>

Respond(r) ==
    /\ pc[r] = "respond"
    /\ Finish(r, "OK")
    /\ UNCHANGED <<events, brokerVars>>

RequestStep(r) ==
    \/ CheckPrice(r)
    \/ CheckStart(r)
    \/ ReadVersion(r)
    \/ ReadItem(r)
    \/ Decide(r)
    \/ Append_Stored(r)
    \/ Append_Conflict(r)
    \/ Send(r)
    \/ Confirm(r)
    \/ Respond(r)

-----------------------------------------------------------------------------
(* What may go wrong at each await.                                        *)

\* A query of the read side fails, or finds no such item.
ReadFails(r) ==
    /\ pc[r] \in {"arrive", "read_version", "read_item"}
    /\ Finish(r, "ERROR")
    /\ UNCHANGED <<events, brokerVars>>

\* The INSERT reports an error, with or without having taken effect.
AppendFails(r) ==
    /\ pc[r] = "append"
    /\ \/ Insert(EventOf(r))
       \/ UNCHANGED events
    /\ Finish(r, "ERROR")
    /\ UNCHANGED brokerVars

\* The producer reports an error: its queue is full, or message.timeout.ms is
\* over, which does not tell whether the log has the record.
SendFails(r) ==
    /\ pc[r] \in {"send", "confirm"}
    /\ Finish(r, "ERROR")
    /\ UNCHANGED <<events, brokerVars>>

\* The producer repeats an attempt whose acknowledgement was lost.
SendAgain(r) ==
    /\ pc[r] = "confirm"
    /\ ProduceAgain(EventOf(r))
    /\ UNCHANGED <<requestVars, events>>

\* The handler's future is dropped at an await, because the client hung up, or
\* get_item(..).await.unwrap() of handle_bid panics while it answers.  A message
\* that is queued already is still sent: then the drop comes after Send.
Dropped(r) ==
    /\ pc[r] \notin {"arrive", "done"}
    /\ Finish(r, "LOST")
    /\ UNCHANGED <<events, brokerVars>>

RequestFault(r) ==
    \/ ReadFails(r)
    \/ AppendFails(r)
    \/ SendFails(r)
    \/ SendAgain(r)
    \/ Dropped(r)

\* The server dies with the requests it was handling.
InFlight(s) == {r \in Requests : home[r] = s /\ pc[r] \notin {"arrive", "done"}}

RequestsCrash(s) ==
    LET lost == InFlight(s)
        Reset(f, v) == [r \in Requests |-> IF r \in lost THEN v ELSE f[r]]
    IN  /\ pc' = Reset(pc, "done")
        /\ reply' = Reset(reply, "LOST")
        /\ retries' = Reset(retries, 0)
        /\ version' = Reset(version, 0)
        /\ seen' = Reset(seen, NoRow)
        /\ stamp' = Reset(stamp, 0)
        /\ UNCHANGED <<cmd, home, events>>
=============================================================================
