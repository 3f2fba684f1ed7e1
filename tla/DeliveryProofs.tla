---------------------------- MODULE DeliveryProofs ----------------------------
(***************************************************************************)
(* Proofs about the way of an event from its INSERT to the read side: where *)
(* it may be lost, and that it is not while nothing fails.                 *)
(***************************************************************************)
EXTENDS ReadSideProofs

\* Positions stay within the logs of their partitions.
PositionsInLog == \A p \in Partitions : position[p] <= Len(topic[p])

\* Nothing is committed that has not been handed over.
CommitsBehind == \A p \in Partitions : committed[p] <= position[p]

\* A consumer loop handles one message at a time.
OneAtATime == \A s \in Servers : \A e, f \in inflight[s] : e = f

\* Inductive, whatever fails.
DeliveryInv == PositionsInLog /\ CommitsBehind /\ OneAtATime

-----------------------------------------------------------------------------

\* The read side does not return to where an event had no effect.
LEMMA ReflectedKept ==
    ASSUME IInv, IInv', ReadInv, [Next]_vars, NEW e \in Event, Reflected(e)
    PROVE  Reflected(e)'
<1>1. /\ e.item \in Items /\ e.amount \in Int
      /\ current_price[e.item] \in Int /\ current_price'[e.item] \in Int
      /\ status \in [Items -> Statuses]
  BY DEF Event, IInv, TypeOK, ReadModelTypeOK
<1>2. Forward
  BY StepsGoForward DEF ReadInv
<1> QED
  BY <1>1, <1>2 DEF Reflected, Forward

\* The logs of the partitions keep what they have.
LogsGrow ==
    \A p \in Partitions :
        /\ Len(topic[p]) <= Len(topic'[p])
        /\ \A k \in 1 .. Len(topic[p]) : topic'[p][k] = topic[p][k]

LEMMA AppendGrows ==
    ASSUME BrokerTypeOK, NEW q \in Partitions, NEW f \in Event,
           topic' = [topic EXCEPT ![q] = Append(@, f)]
    PROVE  /\ LogsGrow
           /\ Len(topic'[q]) = Len(topic[q]) + 1
           /\ topic'[q][Len(topic'[q])] = f
<1>1. \A p \in Partitions : topic[p] \in Seq(Event)
  BY DEF BrokerTypeOK
<1>2. topic'[q] = Append(topic[q], f)
  BY DEF BrokerTypeOK
<1>3. ASSUME NEW p \in Partitions, p # q PROVE topic'[p] = topic[p]
  BY <1>3 DEF BrokerTypeOK
<1>4. /\ Len(topic'[q]) = Len(topic[q]) + 1 /\ topic'[q][Len(topic'[q])] = f
      /\ \A k \in 1 .. Len(topic[q]) : topic'[q][k] = topic[q][k]
  BY <1>1, <1>2
<1>5. ASSUME NEW p \in Partitions
      PROVE  /\ Len(topic[p]) <= Len(topic'[p])
             /\ \A k \in 1 .. Len(topic[p]) : topic'[p][k] = topic[p][k]
  <2>1. Len(topic[p]) \in Nat
    BY <1>1
  <2> QED
    BY <1>3, <1>4, <2>1
<1> QED
  BY <1>4, <1>5 DEF LogsGrow

LEMMA SameLogsGrow == BrokerTypeOK /\ UNCHANGED topic => LogsGrow
<1> SUFFICES ASSUME BrokerTypeOK, UNCHANGED topic, NEW p \in Partitions
             PROVE  Len(topic[p]) <= Len(topic'[p])
  BY DEF LogsGrow
<1>1. Len(topic[p]) \in Nat
  BY DEF BrokerTypeOK
<1> QED
  BY <1>1

\* An event stays under way unless its message is taken, its request sends, or
\* the server that handles it fails; positions may go back.
LEMMA OnItsWayKept ==
    ASSUME BrokerTypeOK, BrokerTypeOK', NEW e, OnItsWay(e), LogsGrow,
           pc[e.bidder] = "send" => pc'[e.bidder] = "send",
           \A p \in Partitions : position'[p] <= position[p],
           \A s \in Servers : e \in inflight[s] => e \in inflight'[s]
    PROVE  OnItsWay(e)'
<1>1. \A p \in Partitions : /\ position[p] \in Nat /\ position'[p] \in Nat
                            /\ Len(topic[p]) \in Nat /\ Len(topic'[p]) \in Nat
  BY DEF BrokerTypeOK
<1>2. ASSUME NEW p \in Partitions,
             NEW k \in (position[p] + 1) .. Len(topic[p]), topic[p][k] = e
      PROVE  OnItsWay(e)'
  <2>1. k \in 1 .. Len(topic[p]) /\ k \in (position'[p] + 1) .. Len(topic'[p])
    BY <1>1 DEF LogsGrow
  <2>2. topic'[p][k] = e
    BY <1>2, <2>1 DEF LogsGrow
  <2> QED
    BY <2>1, <2>2 DEF OnItsWay
<1> QED
  BY <1>2 DEF OnItsWay

\* What a growing log, positions that go back to an offset within it and a
\* consumer that is done with its message do to the invariant.
LEMMA DeliveryInvKept ==
    ASSUME BrokerTypeOK, BrokerTypeOK', DeliveryInv, LogsGrow,
           \A p \in Partitions : /\ position'[p] <= position[p]
                                 /\ committed'[p] <= position'[p],
           \A s \in Servers : inflight'[s] \subseteq inflight[s]
    PROVE  DeliveryInv'
<1>1. \A p \in Partitions : /\ position[p] \in Nat /\ position'[p] \in Nat
                            /\ Len(topic[p]) \in Nat /\ Len(topic'[p]) \in Nat
  BY DEF BrokerTypeOK
<1>2. PositionsInLog'
  BY <1>1 DEF DeliveryInv, PositionsInLog, LogsGrow
<1> QED
  BY <1>2 DEF DeliveryInv, CommitsBehind, OneAtATime

LEMMA Brokers == (IInv => BrokerTypeOK) /\ (IInv' => BrokerTypeOK')
BY DEF IInv, TypeOK

LEMMA SendDelivers ==
    ASSUME IInv, IInv', ReadInv, DeliveryInv, NEW r \in Requests, Send(r)
    PROVE  /\ DeliveryInv'
           /\ \A e \in events : OnItsWay(e) => OnItsWay(e)'
<1>1. PICK q \in Partitions : topic' = [topic EXCEPT ![q] = Append(@, EventOf(r))]
  BY DEF Send, Produce, PartitionsFor
<1>2. /\ UNCHANGED <<position, committed, inflight>>
      /\ pc[r] = "send" /\ pc' = [pc EXCEPT ![r] = "confirm"]
  BY DEF Send, Produce, Goto
<1>3. PICK f \in Event : f = EventOf(r) /\ f.bidder = r
  BY EventOfType DEF IInv, TypeOK
<1>4. f \in events
  BY <1>2, <1>3 DEF ReadInv, Traced, RequestLawful
<1>5. /\ LogsGrow /\ Len(topic'[q]) = Len(topic[q]) + 1
      /\ topic'[q][Len(topic'[q])] = f
  BY <1>1, <1>3, Brokers, AppendGrows
<1>6. \A p \in Partitions : /\ position[p] \in Nat /\ Len(topic[p]) \in Nat
                            /\ position[p] <= Len(topic[p])
                            /\ committed[p] <= position[p]
  BY DEF DeliveryInv, PositionsInLog, CommitsBehind, IInv, TypeOK, BrokerTypeOK
<1>7. DeliveryInv'
  BY <1>2, <1>5, <1>6, Brokers, DeliveryInvKept
<1>8. ASSUME NEW e \in events, OnItsWay(e) PROVE OnItsWay(e)'
  <2>1. CASE e = f
    <3>1. Len(topic'[q]) \in (position'[q] + 1) .. Len(topic'[q])
      BY <1>2, <1>5, <1>6
    <3> QED
      BY <1>5, <2>1, <3>1 DEF OnItsWay
  <2>2. CASE e # f
    <3>1. e.bidder # r /\ e.bidder \in Requests
      BY <1>3, <1>4, <2>2 DEF IInv, LogInv, OneEventPerRequest, TypeOK, Event
    <3>2. pc'[e.bidder] = pc[e.bidder]
      BY <1>2, <3>1 DEF IInv, TypeOK, BiddingTypeOK
    <3> QED
      BY <1>2, <1>5, <1>6, <1>8, <3>2, Brokers, OnItsWayKept
  <2> QED
    BY <2>1, <2>2
<1> QED
  BY <1>7, <1>8

\* The message that is taken is in the hands of its server.
LEMMA ReceiveDelivers ==
    ASSUME IInv, DeliveryInv, NEW s \in Servers, TakeMessage(s)
    PROVE  /\ DeliveryInv'
           /\ \A e \in events : OnItsWay(e) => OnItsWay(e)'
<1>1. PICK q \in Partitions :
          /\ position[q] < Len(topic[q])
          /\ inflight' = [inflight EXCEPT ![s] = {topic[q][position[q] + 1]}]
          /\ position' = [position EXCEPT ![q] = @ + 1]
  BY DEF TakeMessage, Receive
<1>2. inflight[s] = {} /\ UNCHANGED <<topic, pc>>
  BY DEF TakeMessage, Receive, requestVars
<1>3. /\ \A p \in Partitions : /\ topic[p] \in Seq(Event) /\ position[p] \in Nat
                               /\ position[p] <= Len(topic[p])
                               /\ Len(topic[p]) \in Nat
      /\ inflight \in [Servers -> SUBSET Event]
      /\ position \in [Partitions -> Nat]
      /\ committed' = committed /\ \A p \in Partitions : committed[p] \in Nat
  BY DEF TakeMessage, Receive, DeliveryInv, PositionsInLog, IInv, TypeOK,
     BrokerTypeOK
<1>4. DeliveryInv'
  BY <1>1, <1>2, <1>3
  DEF PositionsInLog, CommitsBehind, DeliveryInv, OneAtATime
<1>5. ASSUME NEW e \in events, OnItsWay(e) PROVE OnItsWay(e)'
  <2>1. CASE pc[e.bidder] = "send"
    BY <1>2, <2>1 DEF OnItsWay
  <2>2. CASE \E p \in Partitions :
                \E k \in (position[p] + 1) .. Len(topic[p]) : topic[p][k] = e
    <3>1. PICK p \in Partitions : \E k \in (position[p] + 1) .. Len(topic[p]) :
                                      topic[p][k] = e
      BY <2>2
    <3>2. PICK k \in (position[p] + 1) .. Len(topic[p]) : topic[p][k] = e
      BY <3>1
    <3>3. CASE p = q /\ k = position[q] + 1
      BY <1>1, <1>3, <3>2, <3>3 DEF OnItsWay
    <3>4. CASE ~(p = q /\ k = position[q] + 1)
      <4>1. k \in (position'[p] + 1) .. Len(topic'[p])
        BY <1>1, <1>2, <1>3, <3>2, <3>4
      <4> QED
        BY <1>2, <3>2, <4>1 DEF OnItsWay
    <3> QED
      BY <3>3, <3>4
  <2>3. CASE \E t \in Servers : e \in inflight[t]
    <3>1. PICK t \in Servers : e \in inflight[t]
      BY <2>3
    <3>2. inflight'[t] = inflight[t]
      BY <1>1, <1>2, <1>3, <3>1
    <3> QED
      BY <3>1, <3>2 DEF OnItsWay
  <2> QED
    BY <1>5, <2>1, <2>2, <2>3 DEF OnItsWay
<1> QED
  BY <1>4, <1>5

\* A handler leaves behind the effect of its event, or found one as strong.
LEMMA HandlerReflects ==
    ASSUME IInv, DeliveryInv, NEW s \in Servers, ApplyMessage(s)
    PROVE  /\ DeliveryInv'
           /\ \A e \in events : OnItsWay(e) => OnItsWay(e)' \/ Reflected(e)'
<1>1. PICK f \in inflight[s] : HandleBidPlaced(f) \/ HandleBuyNowExecuted(f)
  BY DEF ApplyMessage, ProcessEvent
<1>2. /\ inflight' = [inflight EXCEPT ![s] = {}]
      /\ UNCHANGED <<topic, position, committed, pc>>
  BY DEF ApplyMessage, ProcessEvent, Handled, requestVars
<1>3. /\ \A t \in Servers : inflight'[t] = IF t = s THEN {} ELSE inflight[t]
      /\ inflight[s] = {f}
  BY <1>2 DEF DeliveryInv, OneAtATime, IInv, TypeOK, BrokerTypeOK
<1>4. DeliveryInv'
  BY <1>2, <1>3 DEF DeliveryInv, PositionsInLog, CommitsBehind, OneAtATime
<1>5. /\ f.item \in Items /\ f.amount \in Int
      /\ current_price \in [Items -> Int] /\ status \in [Items -> Statuses]
  BY DEF IInv, TypeOK, BrokerTypeOK, ReadModelTypeOK, Event
<1>6. Reflected(f)'
  BY <1>1, <1>5 DEF HandleBidPlaced, HandleBuyNowExecuted, Reflected, itemVars
<1>7. ASSUME NEW e \in events, OnItsWay(e), e # f PROVE OnItsWay(e)'
  BY <1>2, <1>3, <1>7 DEF OnItsWay
<1> QED
  BY <1>4, <1>6, <1>7

\* Nor does any other step of a request take an event off its way; the one it
\* stores is about to be sent.
LEMMA RequestDelivers ==
    ASSUME IInv, IInv', ReadInv, DeliveryInv, NEW r \in Requests, ServeRequest(r)
    PROVE  /\ DeliveryInv'
           /\ \A e \in events : OnItsWay(e) => OnItsWay(e)'
           /\ \A e \in events' \ events : OnItsWay(e)'
<1>1. CASE Send(r)
  BY <1>1, SendDelivers DEF Send
<1>2. CASE ~Send(r)
  <2>1. UNCHANGED <<topic, position, committed, inflight>> /\ pc[r] # "send"
        /\ \A q \in Requests \ {r} : pc'[q] = pc[q]
    BY <1>2 DEF ServeRequest, RequestStep, CheckPrice, CheckStart, ReadVersion,
       ReadItem, Decide, Append_Stored, Append_Conflict, Confirm, Respond,
       Finish, Goto, brokerVars, IInv, TypeOK, BiddingTypeOK
  <2>2. ASSUME NEW e \in events, OnItsWay(e) PROVE OnItsWay(e)'
    <3>1. e.bidder \in Requests
      BY DEF IInv, TypeOK, Event
    <3>2. \A p \in Partitions : position[p] \in Nat
      BY DEF IInv, TypeOK, BrokerTypeOK
    <3> QED
      BY <2>1, <2>2, <3>1, <3>2, Brokers, SameLogsGrow, OnItsWayKept
  <2>3. ASSUME NEW e \in events' \ events PROVE OnItsWay(e)'
    <3>1. e = EventOf(r) /\ pc' = [pc EXCEPT ![r] = "send"]
      BY <1>2 DEF ServeRequest, RequestStep, CheckPrice, CheckStart,
         ReadVersion, ReadItem, Decide, Append_Stored, Append_Conflict,
         Confirm, Respond, Insert, Goto
    <3>2. e.bidder = r
      BY <3>1 DEF EventOf
    <3> QED
      BY <3>1, <3>2 DEF OnItsWay, IInv, TypeOK, BiddingTypeOK
  <2>4. DeliveryInv'
    BY <2>1 DEF DeliveryInv, PositionsInLog, CommitsBehind, OneAtATime
  <2> QED
    BY <2>2, <2>3, <2>4
<1> QED
  BY <1>1, <1>2

-----------------------------------------------------------------------------
(* Failures.                                                               *)

\* A request that fails loses the event it has in hand, if any, and no other.
LEMMA FailedRequestDelivers ==
    ASSUME IInv, IInv', DeliveryInv, NEW r \in Requests, FailRequest(r)
    PROVE  /\ DeliveryInv'
           /\ \A e \in events : OnItsWay(e) => OnItsWay(e)' \/ FailsInHand(e)
           /\ \A e \in events' \ events : FailsInHand(e)
<1>1. /\ UNCHANGED <<position, committed, inflight>>
      /\ \A q \in Requests \ {r} : pc'[q] = pc[q]
  BY DEF FailRequest, RequestFault, ReadFails, AppendFails, SendFails,
     SendAgain, ProduceAgain, Dropped, Finish, brokerVars, requestVars, IInv,
     TypeOK, BiddingTypeOK
<1>2. LogsGrow
  <2>1. CASE SendAgain(r)
    <3>1. EventOf(r) \in Event
      BY EventOfType DEF IInv, TypeOK
    <3>2. PICK q \in Partitions :
              topic' = [topic EXCEPT ![q] = Append(@, EventOf(r))]
      BY <2>1 DEF SendAgain, ProduceAgain
    <3> QED
      BY <3>1, <3>2, Brokers, AppendGrows
  <2>2. CASE ~SendAgain(r)
    BY <2>2, Brokers, SameLogsGrow
    DEF FailRequest, RequestFault, ReadFails, AppendFails, SendFails, Dropped,
        brokerVars
  <2> QED
    BY <2>1, <2>2
<1>3. \A p \in Partitions : /\ position[p] \in Nat
                            /\ committed[p] <= position[p]
  BY DEF DeliveryInv, CommitsBehind, IInv, TypeOK, BrokerTypeOK
<1>4. DeliveryInv'
  BY <1>1, <1>2, <1>3, Brokers, DeliveryInvKept
<1>5. ASSUME NEW e \in events, OnItsWay(e), ~FailsInHand(e) PROVE OnItsWay(e)'
  <2>1. e.bidder \in Requests
    BY DEF IInv, TypeOK, Event
  <2>2. pc[e.bidder] = "send" => pc'[e.bidder] = "send"
    BY <1>1, <1>5, <2>1 DEF FailsInHand
  <2> QED
    BY <1>1, <1>2, <1>3, <1>5, <2>2, Brokers, OnItsWayKept
<1>6. ASSUME NEW e \in events' \ events PROVE FailsInHand(e)
  <2>1. e = EventOf(r) /\ pc[r] = "append"
    BY <1>6 DEF FailRequest, RequestFault, ReadFails, AppendFails, SendFails,
       SendAgain, Dropped, Insert
  <2> QED
    BY <2>1 DEF EventOf, FailsInHand
<1> QED
  BY <1>4, <1>5, <1>6

\* A handler that fails loses its own message; no request takes part.
LEMMA DroppedMessageDelivers ==
    ASSUME IInv, IInv', DeliveryInv, NEW s \in Servers, DropMessage(s)
    PROVE  /\ DeliveryInv'
           /\ \A e \in events : OnItsWay(e) => OnItsWay(e)' \/ FailsInHand(e)
<1>1. /\ UNCHANGED <<topic, position, committed, pc>>
      /\ \A t \in Servers : inflight'[t] = IF t = s THEN {} ELSE inflight[t]
  BY DEF DropMessage, ProcessFails, Handled, requestVars, IInv, TypeOK,
     BrokerTypeOK
<1>2. \A p \in Partitions : /\ position[p] \in Nat
                            /\ committed[p] <= position[p]
  BY DEF DeliveryInv, CommitsBehind, IInv, TypeOK, BrokerTypeOK
<1>3. DeliveryInv'
  BY <1>1, <1>2, Brokers, SameLogsGrow, DeliveryInvKept
<1>4. ASSUME NEW e \in events, OnItsWay(e), ~FailsInHand(e) PROVE OnItsWay(e)'
  <2>1. e \notin inflight[s]
    BY <1>4 DEF FailsInHand
  <2> QED
    BY <1>1, <1>2, <1>4, <2>1, Brokers, SameLogsGrow, OnItsWayKept
<1> QED
  BY <1>3, <1>4

\* A partition that moves goes back to what is committed of it.
LEMMA MovedPartitionDelivers ==
    ASSUME IInv, IInv', DeliveryInv, NEW q \in Partitions, NEW s \in Servers,
           MovePartition(q, s)
    PROVE  /\ DeliveryInv'
           /\ \A e \in events : OnItsWay(e) => OnItsWay(e)'
<1>1. /\ UNCHANGED <<topic, inflight, pc>>
      /\ position' = [position EXCEPT ![q] = committed'[q]]
      /\ \/ committed' = [committed EXCEPT ![q] = position[q]]
         \/ committed' = committed
  BY DEF MovePartition, Rebalance, requestVars
<1>2. /\ position \in [Partitions -> Nat] /\ committed \in [Partitions -> Nat]
      /\ \A p \in Partitions : committed[p] <= position[p]
  BY DEF DeliveryInv, CommitsBehind, IInv, TypeOK, BrokerTypeOK
<1>3. \A p \in Partitions : /\ position'[p] <= position[p]
                            /\ committed'[p] <= position'[p]
  BY <1>1, <1>2
<1>4. DeliveryInv'
  BY <1>1, <1>3, Brokers, SameLogsGrow, DeliveryInvKept
<1>5. ASSUME NEW e \in events, OnItsWay(e) PROVE OnItsWay(e)'
  BY <1>1, <1>3, <1>5, Brokers, SameLogsGrow, OnItsWayKept
<1> QED
  BY <1>4, <1>5

\* A server that dies takes the events of its requests and its message along;
\* what its consumer has not committed is handed over again.
LEMMA CrashDelivers ==
    ASSUME IInv, IInv', DeliveryInv, NEW s \in Servers, Crash(s)
    PROVE  /\ DeliveryInv'
           /\ \A e \in events : OnItsWay(e) => OnItsWay(e)' \/ FailsInHand(e)
<1>1. /\ UNCHANGED <<topic, committed>>
      /\ inflight' = [inflight EXCEPT ![s] = {}]
      /\ position' = [p \in Partitions |->
                         IF owner[p] = s THEN committed[p] ELSE position[p]]
      /\ pc' = [r \in Requests |-> IF r \in InFlight(s) THEN "done" ELSE pc[r]]
  BY DEF Crash, ConsumerCrash, RequestsCrash
<1>2. /\ position \in [Partitions -> Nat] /\ committed \in [Partitions -> Nat]
      /\ inflight \in [Servers -> SUBSET Event]
      /\ \A p \in Partitions : committed[p] <= position[p]
  BY DEF DeliveryInv, CommitsBehind, IInv, TypeOK, BrokerTypeOK
<1>3. /\ \A p \in Partitions : /\ position'[p] <= position[p]
                               /\ committed'[p] <= position'[p]
      /\ \A t \in Servers : inflight'[t] = IF t = s THEN {} ELSE inflight[t]
  BY <1>1, <1>2
<1>4. DeliveryInv'
  BY <1>1, <1>3, Brokers, SameLogsGrow, DeliveryInvKept
<1>5. ASSUME NEW e \in events, OnItsWay(e), ~FailsInHand(e) PROVE OnItsWay(e)'
  <2>1. e.bidder \in Requests
    BY DEF IInv, TypeOK, Event
  <2>2. e \notin inflight[s]
    BY <1>5 DEF FailsInHand
  <2>3. pc[e.bidder] = "send" => home[e.bidder] # s
    BY <1>5 DEF FailsInHand
  <2>4. pc[e.bidder] = "send" => pc'[e.bidder] = "send"
    BY <1>1, <2>1, <2>3 DEF InFlight
  <2> QED
    BY <1>1, <1>3, <1>5, <2>2, <2>4, Brokers, SameLogsGrow, OnItsWayKept
<1> QED
  BY <1>4, <1>5

-----------------------------------------------------------------------------
(* The service.                                                            *)

LEMMA NormalStepDelivers ==
    ASSUME IInv, IInv', ReadInv, DeliveryInv, [NormalStep]_vars
    PROVE  /\ DeliveryInv'
           /\ \A e \in events : OnItsWay(e) => OnItsWay(e)' \/ Reflected(e)'
           /\ \A e \in events' \ events : OnItsWay(e)'
<1>1. CASE \E r \in Requests : ServeRequest(r)
  BY <1>1, RequestDelivers
<1>2. CASE \E s \in Servers : TakeMessage(s)
  BY <1>2, ReceiveDelivers DEF TakeMessage
<1>3. CASE \E s \in Servers : ApplyMessage(s)
  BY <1>3, HandlerReflects DEF ApplyMessage
<1>4. CASE UNCHANGED <<events, pc, topic, position, inflight>>
           /\ (committed' = committed \/ \E p \in Partitions : AutoCommit(p))
  <2>1. \A p \in Partitions : position[p] \in Nat /\ committed'[p] <= position[p]
    <3>1. /\ position \in [Partitions -> Nat] /\ committed \in [Partitions -> Nat]
          /\ \A p \in Partitions : committed[p] <= position[p]
      BY DEF DeliveryInv, CommitsBehind, IInv, TypeOK, BrokerTypeOK
    <3> QED
      BY <1>4, <3>1 DEF AutoCommit
  <2>2. DeliveryInv'
    BY <1>4, <2>1, Brokers, SameLogsGrow, DeliveryInvKept
  <2>3. ASSUME NEW e \in events, OnItsWay(e) PROVE OnItsWay(e)'
    BY <1>4, <2>3 DEF OnItsWay
  <2> QED
    BY <1>4, <2>2, <2>3
<1> QED
  BY <1>1, <1>2, <1>3, <1>4 DEF NormalStep, ClockTicks, CommitOffset,
     AutoCommit, Schedule, vars, brokerVars, requestVars

LEMMA StepDelivers ==
    ASSUME IInv, IInv', ReadInv, DeliveryInv, [Next]_vars
    PROVE  /\ DeliveryInv'
           /\ \A e \in events : OnItsWay(e) => \/ (OnItsWay(e) \/ Reflected(e))'
                                              \/ FailsInHand(e)
           /\ \A e \in events' \ events : OnItsWay(e)' \/ FailsInHand(e)
<1>1. CASE [NormalStep]_vars
  BY <1>1, NormalStepDelivers
<1>2. CASE \E r \in Requests : FailRequest(r)
  BY <1>2, FailedRequestDelivers
<1>3. CASE \E s \in Servers : DropMessage(s)
  BY <1>3, DroppedMessageDelivers DEF DropMessage
<1>4. CASE \E p \in Partitions, s \in Servers : MovePartition(p, s)
  BY <1>4, MovedPartitionDelivers DEF MovePartition
<1>5. CASE \E s \in Servers : Crash(s)
  BY <1>5, CrashDelivers DEF Crash, RequestsCrash
<1>6. CASE \E s \in Servers : FailUpdate(s)
  <2>1. UNCHANGED <<events, pc, topic, position, committed, inflight>>
    BY <1>6 DEF FailUpdate, brokerVars, requestVars
  <2> QED
    BY <2>1 DEF DeliveryInv, PositionsInLog, CommitsBehind, OneAtATime, OnItsWay
<1> QED
  BY <1>1, <1>2, <1>3, <1>4, <1>5, <1>6 DEF Next, FaultStep

LEMMA InitDelivers == Init => DeliveryInv /\ NothingLost
<1> SUFFICES ASSUME Init PROVE DeliveryInv /\ NothingLost
  OBVIOUS
<1>1. Len(<<>>) = 0
  OBVIOUS
<1> QED
  BY <1>1 DEF Init, BrokerInit, EventStoreInit, DeliveryInv, PositionsInLog,
     CommitsBehind, OneAtATime, NothingLost

LEMMA DeliveryInvHolds == Spec => []DeliveryInv
<1>1. Init => DeliveryInv
  BY InitDelivers
<1>2. IInv /\ IInv' /\ ReadInv /\ DeliveryInv /\ [Next]_vars => DeliveryInv'
  BY StepDelivers
<1> QED
  BY <1>1, <1>2, IInvHolds, ReadInvHolds, PTL DEF Spec

\* Whatever fails, and whenever, a stored event is forgotten only by a failure
\* of the request that has yet to send it or of the server that is handling its
\* message (append_and_publish_event, consume_events).
THEOREM LossesAreInHand == Spec => LostOnlyInHand
<1>1. ASSUME IInv, IInv', ReadInv, DeliveryInv, [Next]_vars, NEW e \in events'
      PROVE  \/ (OnItsWay(e) \/ Reflected(e))'
             \/ e \in events /\ ~OnItsWay(e) /\ ~Reflected(e)
             \/ FailsInHand(e)
  <2>1. CASE e \in events /\ Reflected(e)
    <3>1. e \in Event
      BY <1>1, <2>1 DEF IInv, TypeOK
    <3> QED
      BY <1>1, <2>1, <3>1, ReflectedKept
  <2>2. CASE e \in events /\ OnItsWay(e)
    BY <1>1, <2>2, StepDelivers
  <2>3. CASE e \notin events
    BY <1>1, <2>3, StepDelivers
  <2> QED
    BY <2>1, <2>2, <2>3
<1>2. IInv /\ IInv' /\ ReadInv /\ DeliveryInv /\ [Next]_vars
      => [\A e \in events' :
            \/ (OnItsWay(e) \/ Reflected(e))'
            \/ e \in events /\ ~OnItsWay(e) /\ ~Reflected(e)
            \/ FailsInHand(e)]_vars
  BY <1>1
<1> QED
  BY <1>2, DeliveryInvHolds, IInvHolds, ReadInvHolds, PTL
  DEF Spec, LostOnlyInHand

LEMMA FaultFreeIsASpec == FaultFreeSpec => Spec
<1>1. [NormalStep]_vars => [Next]_vars
  BY DEF Next
<1> QED
  BY <1>1, PTL DEF FaultFreeSpec, Spec

\* While nothing fails, every stored event is on its way to the read side or
\* has had its effect there: with the faults of AuctionService it may not be.
THEOREM NothingIsLost == FaultFreeSpec => []NothingLost
<1>1. IInv /\ IInv' /\ ReadInv /\ DeliveryInv /\ NothingLost /\ [NormalStep]_vars
      => NothingLost'
  <2> SUFFICES ASSUME IInv, IInv', ReadInv, DeliveryInv, NothingLost,
                      [NormalStep]_vars, NEW e \in events'
               PROVE  OnItsWay(e)' \/ Reflected(e)'
    BY DEF NothingLost
  <2>1. [Next]_vars
    BY DEF Next
  <2>2. CASE e \in events /\ Reflected(e)
    <3>1. e \in Event
      BY <2>2 DEF IInv, TypeOK
    <3> QED
      BY <2>1, <2>2, <3>1, ReflectedKept
  <2>3. CASE e \in events /\ OnItsWay(e)
    BY <2>3, NormalStepDelivers
  <2>4. CASE e \notin events
    BY <2>4, NormalStepDelivers
  <2> QED
    BY <2>2, <2>3, <2>4 DEF NothingLost
<1>2. Init => NothingLost
  BY InitDelivers
<1> QED
  BY <1>1, <1>2, FaultFreeIsASpec, DeliveryInvHolds, IInvHolds, ReadInvHolds, PTL
  DEF FaultFreeSpec

-----------------------------------------------------------------------------
(* What is left of HighestBidWins once deliveries are over.                *)

\* The price of an item is the amount of a stored event or starting_price.
LEMMA PriceIsOffered ==
    ASSUME IInv, ReadInv, NEW i \in Items
    PROVE  /\ current_price[i] \in {e.amount : e \in {f \in events : f.item = i}}
                                   \cup {StartingPrice[i]}
           /\ StartingPrice[i] <= current_price[i]
<1> DEFINE h == bids[i]
           n == Len(h)
<1>1. /\ h \in Seq(Bid) /\ StartingPrice[i] \in Int
      /\ current_price[i] = IF h = <<>> THEN StartingPrice[i] ELSE h[n].amount
      /\ \A k \in DOMAIN h : h[k].amount > StartingPrice[i]
  BY ItemAssumption DEF ReadInv, TablesInv, BidHistoryAscends, IInv, TypeOK,
     ReadModelTypeOK
<1>2. CASE h = <<>>
  BY <1>1, <1>2
<1>3. CASE h # <<>>
  <2>1. n \in DOMAIN h
    BY <1>1, <1>3
  <2>2. PICK e \in events : e.item = i /\ e.amount = h[n].amount
    BY <2>1 DEF ReadInv, TablesInv, BidsAreStoredEvents
  <2>3. e.amount \in Int /\ e.amount > StartingPrice[i]
    BY <1>1, <2>1, <2>2 DEF IInv, TypeOK, Event
  <2> QED
    BY <1>1, <1>3, <2>2, <2>3
<1> QED
  BY <1>2, <1>3

\* While nothing fails, an item with no event on its way stands at its highest
\* accepted bid or has been bought, whatever order the bids were handled in.
THEOREM SettledPricesAreHighest ==
    FaultFreeSpec =>
        [](\A i \in Items :
              \/ \E e \in events : e.item = i /\ OnItsWay(e)
              \/ StandsAtHighest(i))
<1>1. ASSUME IInv, ReadInv, NothingLost, NEW i \in Items,
             ~ \E e \in events : e.item = i /\ OnItsWay(e)
      PROVE  StandsAtHighest(i)
  <2> DEFINE own == {e \in events : e.item = i}
             offers == {e.amount : e \in own} \cup {StartingPrice[i]}
             p == current_price[i]
  <2> SUFFICES ASSUME ~ \E e \in own : e.kind = "BuyNowExecuted"
               PROVE  p = Max(offers)
    BY DEF StandsAtHighest
  <2>1. \A e \in own : e.amount \in Int /\ e.amount <= p
    <3> SUFFICES ASSUME NEW e \in own PROVE e.amount \in Int /\ e.amount <= p
      OBVIOUS
    <3>1. e \in Event /\ p \in Int /\ e.amount \in Int
      BY <1>1 DEF IInv, TypeOK, ReadModelTypeOK, Event
    <3>2. Reflected(e)
      BY <1>1 DEF NothingLost
    <3> QED
      BY <3>1, <3>2 DEF Reflected
  <2>2. p \in offers /\ StartingPrice[i] <= p /\ StartingPrice[i] \in Int
    BY <1>1, PriceIsOffered, ItemAssumption
  <2>3. offers \in SUBSET Int /\ \A a \in offers : a <= p
    BY <2>1, <2>2
  <2> HIDE DEF offers, p
  <2> QED
    BY <2>2, <2>3, MaxIs
<1>2. IInv /\ ReadInv /\ NothingLost
      => \A i \in Items : \/ \E e \in events : e.item = i /\ OnItsWay(e)
                          \/ StandsAtHighest(i)
  BY <1>1
<1> QED
  BY <1>2, FaultFreeIsASpec, NothingIsLost, IInvHolds, ReadInvHolds, PTL
=============================================================================
