---------------------------- MODULE EventConsumer ----------------------------
(***************************************************************************)
(* The loop of EventConsumer::start (src/event_store/mod.rs): it takes the *)
(* messages the broker hands over, in whatever order and number they come, *)
(* and applies one after the other.                                        *)
(***************************************************************************)
EXTENDS MessageBroker, EventHandlers

\* process_event, then back to recv().
ProcessEvent(s) ==
    \E e \in inflight[s] :
        /\ HandleBidPlaced(e) \/ HandleBuyNowExecuted(e)
        /\ Handled(s)

\* The transaction rolls back; the error is logged and the loop goes on.
ProcessFails(s) ==
    /\ inflight[s] # {}
    /\ Handled(s)
    /\ UNCHANGED itemVars
=============================================================================
