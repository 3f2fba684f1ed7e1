-------------------------- MODULE DocumentedClaims ---------------------------
(***************************************************************************)
(* What the documentation or the tests say of the service and the code     *)
(* does not keep.  Each is refuted by a run of its own.                    *)
(***************************************************************************)
EXTENDS AuctionProperties

\* README: bids and purchases are processed with the data kept consistent.
\* So of all purchases of an item that were answered with success at most one
\* exists.
OneSaleConfirmed ==
    \A q, r \in Requests :
        /\ reply[q] = "OK" /\ ~IsBid(cmd[q])
        /\ reply[r] = "OK" /\ ~IsBid(cmd[r])
        /\ cmd[q].item = cmd[r].item
        => q = r

\* The same of a single purchase: once it is confirmed the item becomes sold
\* (even if nothing fails).
ConfirmedSaleHappens ==
    \A r \in Requests :
        (reply[r] = "OK" /\ ~IsBid(cmd[r])) ~> Sold(cmd[r].item)

\* README: events are stored and published through Kafka.  So a stored event
\* reaches the topic.
StoredEventsArePublished ==
    \A r \in Requests :
        (\E e \in events : e.bidder = r) ~>
        (\E e \in events : e.bidder = r /\ Published(e))
=============================================================================
