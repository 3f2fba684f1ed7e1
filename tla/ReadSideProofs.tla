---------------------------- MODULE ReadSideProofs ----------------------------
(***************************************************************************)
(* Proofs about the tables items and bids under all the faults of          *)
(* AuctionService: where the events that are applied come from, and what   *)
(* ReadModelProofs makes of that.                                          *)
(***************************************************************************)
EXTENDS AuctionServiceProofs, ReadModelProofs

\* What holds of an event from its decision to its last copy.
Lawful(e) ==
    /\ Valid(e)
    /\ e.time <= now
    /\ status[e.item] # "SCHEDULED"

\* What a request has read of the status may be old, but auctions do not
\* return to SCHEDULED.
RequestLawful(r) ==
    /\ pc[r] = "decide" /\ seen[r].status # "SCHEDULED"
         => status[cmd[r].item] # "SCHEDULED"
    /\ pc[r] = "append" => Lawful(EventOf(r))
    /\ pc[r] = "send" => EventOf(r) \in events

\* Only stored events are under way, and all of them are lawful.
Traced ==
    /\ \A e \in events : Lawful(e)
    /\ \A r \in Requests : RequestLawful(r)
    /\ \A p \in Partitions : \A k \in DOMAIN topic[p] : topic[p][k] \in events
    /\ \A s \in Servers : inflight[s] \subseteq events
    /\ \A s \in Servers : asof[s] <= now

\* Inductive for the read side.
ReadInv == Traced /\ TablesInv

-----------------------------------------------------------------------------
(* The steps of the service are writes of ReadModelProofs.                 *)

LEMMA ServiceTypes == (IInv => TablesTypeOK) /\ (IInv' => TablesTypeOK')
BY DEF IInv, TypeOK, TablesTypeOK

LEMMA ReadModelSteps ==
    ASSUME IInv, Traced, [Next]_vars
    PROVE  TablesStep
<1>1. CASE \E s \in Servers : ApplyMessage(s)
  <2>1. PICK s \in Servers : \E e \in inflight[s] :
            /\ HandleBidPlaced(e) \/ HandleBuyNowExecuted(e)
            /\ UNCHANGED now
    BY <1>1 DEF ApplyMessage, ProcessEvent
  <2>2. \A e \in inflight[s] : e \in events /\ Lawful(e)
    BY DEF Traced
  <2> QED
    BY <2>1, <2>2 DEF HandleBidPlaced, HandleBuyNowExecuted, Recorded, Handles,
       Lawful, TablesStep, itemVars
<1>2. CASE \E s \in Servers : Schedule(s)
  <2>1. PICK s \in Servers : SchedulerStep(s) /\ UNCHANGED now
    BY <1>2 DEF Schedule
  <2>2. asof[s] \in 0 .. now
    BY DEF Traced, IInv, TypeOK, SchedulerTypeOK, ReadModelTypeOK
  <2>3. CASE StartAuctions(s)
    <3>1. Opens(Due("SCHEDULED", StartTime, asof[s]), asof[s])
      BY <2>1, <2>3 DEF StartAuctions, Opens
    <3> QED
      BY <2>2, <3>1 DEF TablesStep, Due
  <2>4. CASE EndAuctions(s)
    <3>1. Closes(Due("ACTIVE", EndTime, asof[s]), asof[s])
      BY <2>1, <2>4 DEF EndAuctions, Closes
    <3> QED
      BY <2>2, <3>1 DEF TablesStep, Due
  <2>5. CASE Wake(s)
    BY <2>1, <2>5 DEF Wake, TablesStep
  <2> QED
    BY <2>1, <2>3, <2>4, <2>5 DEF SchedulerStep
<1>3. CASE UNCHANGED itemVars /\ (now' = now \/ now' = now + 1)
  BY <1>3 DEF TablesStep
<1> QED
  BY <1>1, <1>2, <1>3
  DEF Next, NormalStep, FaultStep, ClockTicks, Tick, ServeRequest, TakeMessage,
      CommitOffset, FailRequest, DropMessage, ProcessFails, FailUpdate,
      UpdateFails, MovePartition, Crash, vars

LEMMA StepsGoForward ==
    ASSUME IInv, IInv', Traced, [Next]_vars
    PROVE  Forward
BY ServiceTypes, ReadModelSteps, TablesGoForward

\* So an event stays lawful.
LEMMA LawfulKept ==
    ASSUME IInv, IInv', Forward, NEW e \in Event, Lawful(e)
    PROVE  Lawful(e)'
<1>1. e.item \in Items /\ e.time \in Nat
  BY DEF Event
<1>2. now \in Nat /\ now' \in Nat
  BY DEF IInv, TypeOK, ReadModelTypeOK
<1> QED
  BY <1>1, <1>2 DEF Lawful, Forward

-----------------------------------------------------------------------------
(* Requests.                                                               *)

LEMMA RequestLawfulKept ==
    ASSUME IInv, IInv', Forward, NEW q \in Requests, RequestLawful(q),
           pc'[q] = pc[q], cmd'[q] = cmd[q], seen'[q] = seen[q],
           version'[q] = version[q], stamp'[q] = stamp[q],
           events \subseteq events'
    PROVE  RequestLawful(q)'
<1>1. EventOf(q)' = EventOf(q)
  BY DEF EventOf, IsBid
<1>2. PICK e \in Event : e = EventOf(q)
  BY EventOfType DEF IInv, TypeOK
<1>3. Lawful(EventOf(q)) => Lawful(EventOf(q))'
  <2>1. Lawful(e) => Lawful(e)'
    BY LawfulKept
  <2> QED
    BY <1>1, <1>2, <2>1 DEF Lawful
<1>4. cmd[q].item \in Items
  BY CommandParts DEF IInv, TypeOK
<1> QED
  BY <1>1, <1>3, <1>4 DEF RequestLawful, Forward

\* A request only stores a lawful event, and only what it has read or built
\* makes the rest of RequestLawful true.
LEMMA OwnStepLawful ==
    ASSUME IInv, IInv', Traced, NEW r \in Requests,
           ServeRequest(r) \/ FailRequest(r)
    PROVE  /\ RequestLawful(r)'
           /\ events' \subseteq events \cup {EventOf(r)}
           /\ events' # events => Lawful(EventOf(r))
<1> USE DEF IInv, TypeOK, BiddingTypeOK, Traced, RequestLawful
<1>0. UNCHANGED <<now, status>>
  BY DEF ServeRequest, FailRequest, itemVars
<1>1. CASE CheckPrice(r) \/ CheckStart(r) \/ ReadVersion(r)
  BY <1>1 DEF CheckPrice, CheckStart, ReadVersion, Finish, Goto
<1>2. CASE ReadItem(r)
  BY <1>0, <1>2 DEF ReadItem, Goto, get_item
<1>3. CASE Decide(r) /\ Goto(r, "append")
  <2> DEFINE c == cmd[r]
  <2>1. /\ ~NotStarted(c.item, seen[r], now) /\ ~Ended(c.item, seen[r], now)
        /\ stamp'[r] = now /\ cmd' = cmd /\ pc[r] = "decide"
        /\ pc'[r] = "append" /\ UNCHANGED events
    BY <1>3 DEF Decide, Finish, Goto
  <2>2. c.item \in Items /\ c.amount \in Int /\ BuyNowPrice[c.item] \in Int
    BY CommandParts, ItemAssumption
  <2>3. /\ StartTime[c.item] \in Nat /\ EndTime[c.item] \in Nat /\ now \in Nat
    BY <2>2, ItemAssumption DEF ReadModelTypeOK
  <2>4. /\ StartTime[c.item] <= now /\ now <= EndTime[c.item]
        /\ status[c.item] # "SCHEDULED"
    BY <2>1, <2>3 DEF NotStarted, Ended
  <2>5. Lawful(EventOf(r))'
    BY <1>0, <2>1, <2>2, <2>3, <2>4 DEF Lawful, Valid, EventOf, IsBid
  <2> QED
    BY <2>1, <2>5
<1>4. CASE Decide(r) /\ ~Goto(r, "append")
  BY <1>4 DEF Decide, Finish
<1>5. CASE Append_Stored(r)
  <2>1. EventOf(r)' = EventOf(r)
    BY <1>5 DEF Append_Stored, Goto, EventOf, IsBid
  <2> QED
    BY <1>5, <2>1 DEF Append_Stored, Insert, Goto
<1>6. CASE Append_Conflict(r)
  BY <1>6 DEF Append_Conflict, Finish, Goto
<1>7. CASE Send(r) \/ Confirm(r) \/ Respond(r)
  BY <1>7 DEF Send, Confirm, Respond, Finish, Goto
<1>8. CASE ReadFails(r) \/ AppendFails(r) \/ SendFails(r) \/ Dropped(r)
  BY <1>8 DEF ReadFails, AppendFails, SendFails, Dropped, Finish, Insert
<1>9. CASE SendAgain(r)
  BY <1>9 DEF SendAgain, requestVars
<1> QED
  BY <1>1, <1>2, <1>3, <1>4, <1>5, <1>6, <1>7, <1>8, <1>9
  DEF ServeRequest, FailRequest, RequestStep, RequestFault

-----------------------------------------------------------------------------
(* The way of an event.                                                    *)

\* A partition's log only grows, by events that are stored.
LEMMA TopicTraced ==
    ASSUME IInv, Traced, NEW e \in events, NEW q \in Partitions,
           topic' = [topic EXCEPT ![q] = Append(@, e)]
    PROVE  \A p \in Partitions : \A k \in DOMAIN topic'[p] : topic'[p][k] \in events
<1> SUFFICES ASSUME NEW p \in Partitions, NEW k \in DOMAIN topic'[p]
             PROVE  topic'[p][k] \in events
  OBVIOUS
<1>1. topic[p] \in Seq(Event) /\ e \in Event
  BY DEF IInv, TypeOK, BrokerTypeOK
<1>2. topic'[p] = IF p = q THEN Append(topic[p], e) ELSE topic[p]
  BY DEF IInv, TypeOK, BrokerTypeOK
<1>3. CASE k \in DOMAIN topic[p]
  BY <1>1, <1>2, <1>3 DEF Traced
<1>4. CASE k \notin DOMAIN topic[p]
  BY <1>1, <1>2, <1>4
<1> QED
  BY <1>3, <1>4

LEMMA RequestTraced ==
    ASSUME IInv, IInv', Forward, Traced, NEW r \in Requests,
           ServeRequest(r) \/ FailRequest(r)
    PROVE  Traced'
<1>1. /\ RequestLawful(r)'
      /\ events' \subseteq events \cup {EventOf(r)}
      /\ events' # events => Lawful(EventOf(r))
  BY OwnStepLawful
<1>2. events \subseteq events'
  BY DEF ServeRequest, FailRequest, RequestStep, CheckPrice, CheckStart,
     ReadVersion, ReadItem, Decide, Append_Stored, Append_Conflict, Send,
     Confirm, Respond, Insert, RequestFault, ReadFails, AppendFails, SendFails,
     SendAgain, Dropped
<1>3. ASSUME NEW q \in Requests \ {r} PROVE RequestLawful(q)'
  <2>1. /\ pc'[q] = pc[q] /\ cmd'[q] = cmd[q] /\ seen'[q] = seen[q]
        /\ version'[q] = version[q] /\ stamp'[q] = stamp[q]
    BY <1>3 DEF ServeRequest, FailRequest, RequestStep, CheckPrice, CheckStart,
       ReadVersion, ReadItem, Decide, Append_Stored, Append_Conflict, Send,
       Confirm, Respond, RequestFault, ReadFails, AppendFails, SendFails,
       SendAgain, Dropped, Finish, Goto, requestVars, IInv, TypeOK,
       BiddingTypeOK
  <2> QED
    BY <1>2, <2>1, RequestLawfulKept DEF Traced
<1>4. ASSUME NEW e \in events' PROVE Lawful(e)'
  <2>1. e \in Event /\ Lawful(e)
    BY <1>1, <1>4 DEF Traced, IInv, TypeOK
  <2> QED
    BY <2>1, LawfulKept
<1>5. \A p \in Partitions : \A k \in DOMAIN topic'[p] : topic'[p][k] \in events'
  <2>1. CASE UNCHANGED topic
    BY <1>2, <2>1 DEF Traced
  <2>2. CASE \E e \in events, q \in Partitions :
                topic' = [topic EXCEPT ![q] = Append(@, e)]
    BY <1>2, <2>2, TopicTraced
  <2>3. CASE Send(r)
    BY <2>2, <2>3 DEF Send, Produce, PartitionsFor, Traced, RequestLawful
  <2>4. CASE SendAgain(r)
    BY <2>2, <2>4 DEF SendAgain, ProduceAgain, Range, Traced
  <2> QED
    BY <2>1, <2>3, <2>4 DEF ServeRequest, FailRequest, RequestStep, CheckPrice,
       CheckStart, ReadVersion, ReadItem, Decide, Append_Stored,
       Append_Conflict, Confirm, Respond, RequestFault, ReadFails, AppendFails,
       SendFails, Dropped, brokerVars
<1>6. UNCHANGED <<inflight, asof, now>>
  BY DEF ServeRequest, FailRequest, RequestStep, CheckPrice, CheckStart,
     ReadVersion, ReadItem, Decide, Append_Stored, Append_Conflict, Send,
     Confirm, Respond, RequestFault, ReadFails, AppendFails, SendFails,
     SendAgain, Dropped, Produce, ProduceAgain, brokerVars, schedulerVars
<1> QED
  BY <1>1, <1>2, <1>3, <1>4, <1>5, <1>6 DEF Traced

LEMMA TracedKept ==
    ASSUME IInv, IInv', Traced, [Next]_vars
    PROVE  Traced'
<1>1. Forward
  BY StepsGoForward
<1>2. ASSUME UNCHANGED events PROVE \A e \in events' : Lawful(e)'
  BY <1>1, <1>2, LawfulKept DEF Traced, IInv, TypeOK
<1>3. ASSUME UNCHANGED <<events, requestVars>>
      PROVE  \A r \in Requests : RequestLawful(r)'
  BY <1>1, <1>3, RequestLawfulKept DEF Traced, requestVars
<1>4. ASSUME NEW r \in Requests, ServeRequest(r) \/ FailRequest(r) PROVE Traced'
  BY <1>1, <1>4, RequestTraced
<1>5. ASSUME UNCHANGED asof PROVE \A s \in Servers : asof'[s] <= now'
  BY <1>1, <1>5 DEF Traced, Forward, IInv, TypeOK, SchedulerTypeOK,
     ReadModelTypeOK
<1>6. CASE ClockTicks
  BY <1>2, <1>3, <1>5, <1>6 DEF ClockTicks, Traced, brokerVars, schedulerVars
<1>7. ASSUME NEW s \in Servers, TakeMessage(s) PROVE Traced'
  <2>1. \A t \in Servers : inflight'[t] \subseteq events
    <3>1. PICK p \in Partitions :
              /\ position[p] < Len(topic[p])
              /\ inflight' = [inflight EXCEPT ![s] = {topic[p][position[p] + 1]}]
      BY <1>7 DEF TakeMessage, Receive
    <3>2. topic[p] \in Seq(Event) /\ position[p] \in Nat
      BY DEF IInv, TypeOK, BrokerTypeOK
    <3>3. topic[p][position[p] + 1] \in events
      BY <3>1, <3>2 DEF Traced
    <3> QED
      BY <3>1, <3>3 DEF Traced, IInv, TypeOK, BrokerTypeOK
  <2>2. UNCHANGED <<events, requestVars, topic, asof>>
    BY <1>7 DEF TakeMessage, Receive, schedulerVars
  <2> QED
    BY <1>2, <1>3, <1>5, <2>1, <2>2 DEF Traced
<1>8. ASSUME NEW s \in Servers, ApplyMessage(s) \/ DropMessage(s) PROVE Traced'
  <2>1. UNCHANGED <<events, requestVars, topic, asof>>
    BY <1>8 DEF ApplyMessage, DropMessage, ProcessEvent, ProcessFails, Handled,
       schedulerVars
  <2>2. \A t \in Servers : inflight'[t] \subseteq inflight[t]
    BY <1>8 DEF ApplyMessage, DropMessage, ProcessEvent, ProcessFails, Handled,
       IInv, TypeOK, BrokerTypeOK
  <2> QED
    BY <1>2, <1>3, <1>5, <2>1, <2>2 DEF Traced
<1>9. ASSUME NEW p \in Partitions,
             CommitOffset(p) \/ \E s \in Servers : MovePartition(p, s)
      PROVE  Traced'
  <2>1. UNCHANGED <<events, requestVars, topic, inflight, asof>>
    BY <1>9 DEF CommitOffset, AutoCommit, MovePartition, Rebalance,
       schedulerVars
  <2> QED
    BY <1>2, <1>3, <1>5, <2>1 DEF Traced
<1>10. ASSUME NEW s \in Servers, Schedule(s) \/ FailUpdate(s) PROVE Traced'
  <2>1. UNCHANGED <<events, requestVars, topic, inflight, now>>
    BY <1>10 DEF Schedule, FailUpdate, brokerVars
  <2>2. \A t \in Servers : asof'[t] <= now
    <3>1. /\ asof \in [Servers -> Nat] /\ now \in Nat
          /\ \A t \in Servers : asof[t] <= now
      BY DEF IInv, TypeOK, SchedulerTypeOK, ReadModelTypeOK, Traced
    <3>2. \/ asof' = asof
          \/ \E t \in {0, now} : asof' = [asof EXCEPT ![s] = t]
      BY <1>10 DEF Schedule, FailUpdate, SchedulerStep, Wake, StartAuctions,
         EndAuctions, UpdateFails, Sleep
    <3> QED
      BY <3>1, <3>2
  <2> QED
    BY <1>2, <1>3, <2>1, <2>2 DEF Traced
<1>11. ASSUME NEW s \in Servers, Crash(s) PROVE Traced'
  <2>1. UNCHANGED <<events, topic, now, itemVars, cmd>>
    BY <1>11 DEF Crash, RequestsCrash, ConsumerCrash
  <2>2. ASSUME NEW r \in Requests PROVE RequestLawful(r)'
    <3>1. CASE r \in InFlight(s)
      BY <1>11, <3>1 DEF Crash, RequestsCrash, RequestLawful
    <3>2. CASE r \notin InFlight(s)
      <4>1. /\ pc'[r] = pc[r] /\ seen'[r] = seen[r]
            /\ version'[r] = version[r] /\ stamp'[r] = stamp[r]
        BY <1>11, <3>2 DEF Crash, RequestsCrash
      <4> QED
        BY <1>1, <2>1, <4>1, RequestLawfulKept DEF Traced
    <3> QED
      BY <3>1, <3>2
  <2>3. \A t \in Servers : inflight'[t] \subseteq inflight[t] /\ asof'[t] <= now
    BY <1>11 DEF Crash, ConsumerCrash, Sleep, Traced, IInv, TypeOK,
       BrokerTypeOK, SchedulerTypeOK, ReadModelTypeOK
  <2> QED
    BY <1>2, <2>1, <2>2, <2>3 DEF Traced
<1>12. CASE UNCHANGED vars
  BY <1>2, <1>3, <1>5, <1>12 DEF vars, brokerVars, schedulerVars, Traced
<1> QED
  BY <1>4, <1>6, <1>7, <1>8, <1>9, <1>10, <1>11, <1>12
  DEF Next, NormalStep, FaultStep

-----------------------------------------------------------------------------
(* The service.                                                            *)

LEMMA EventsStayValid ==
    /\ IInv /\ Traced => ValidLog(events)
    /\ IInv' /\ Traced' => ValidLog(events)'
BY DEF IInv, LogInv, OneEventPerRequest, Traced, Lawful, ValidLog, TypeOK

LEMMA InitReadInv == Init => ReadInv
<1> SUFFICES ASSUME Init PROVE ReadInv
  OBVIOUS
<1> USE DEF Init
<1>1. Traced
  BY DEF ReadModelInit, Traced, RequestLawful, EventStoreInit, BiddingInit,
     BrokerInit, SchedulerInit
<1>2. TablesInv
  BY <1>1, InitIInv, EventsStayValid, TablesInit
<1> QED
  BY <1>1, <1>2 DEF ReadInv

LEMMA NextReadInv == IInv /\ IInv' /\ ReadInv /\ [Next]_vars => ReadInv'
<1> SUFFICES ASSUME IInv, IInv', ReadInv, [Next]_vars PROVE ReadInv'
  OBVIOUS
<1>1. Traced'
  BY TracedKept DEF ReadInv
<1>2. events \subseteq events'
  BY DEF Next, NormalStep, FaultStep, ClockTicks, ServeRequest, RequestStep,
     CheckPrice, CheckStart, ReadVersion, ReadItem, Decide, Append_Stored,
     Append_Conflict, Send, Confirm, Respond, Insert, FailRequest, RequestFault,
     ReadFails, AppendFails, SendFails, SendAgain, Dropped, TakeMessage,
     ApplyMessage, CommitOffset, Schedule, DropMessage, FailUpdate,
     MovePartition, Crash, RequestsCrash, vars
<1>3. TablesTypeOK /\ TablesTypeOK' /\ TablesStep
  BY ServiceTypes, ReadModelSteps DEF ReadInv
<1>4. ValidLog(events)'
  BY <1>1, EventsStayValid
<1>5. TablesInv'
  BY <1>2, <1>3, <1>4, TablesKept DEF ReadInv
<1> QED
  BY <1>1, <1>5 DEF ReadInv

\* ReadInv is an invariant of the service.
THEOREM ReadInvHolds == Spec => []ReadInv
<1> QED
  BY InitReadInv, NextReadInv, IInvHolds, PTL DEF Spec

\* What module Transactions assumes of the log and of the events that its
\* consumers receive is what the commands of the service ensure.
THEOREM CommandsWriteValidLogs ==
    Spec => [](/\ ValidLog(events)
               /\ \A e \in events : e.time <= now /\ status[e.item] # "SCHEDULED"
               /\ \A s \in Servers : inflight[s] \subseteq events)
<1>1. IInv /\ ReadInv => /\ ValidLog(events)
                         /\ \A e \in events :
                               e.time <= now /\ status[e.item] # "SCHEDULED"
                         /\ \A s \in Servers : inflight[s] \subseteq events
  BY EventsStayValid DEF ReadInv, Traced, Lawful
<1> QED
  BY <1>1, IInvHolds, ReadInvHolds, PTL

\* Whatever order, duplicates and losses the topic adds, histories ascend and
\* current_price is the last of their amounts.
THEOREM HistoriesAscend == Spec => []BidHistoryAscends
<1>1. ReadInv => BidHistoryAscends
  BY DEF ReadInv, TablesInv
<1> QED
  BY <1>1, ReadInvHolds, PTL

\* Every row of bids is that of a stored event.
THEOREM BidsAreStored == Spec => []BidsAreStoredEvents
<1>1. ReadInv => BidsAreStoredEvents
  BY DEF ReadInv, TablesInv
<1> QED
  BY <1>1, ReadInvHolds, PTL

\* Every recorded bid was made within the hours of its auction.
THEOREM BidsAreInTime == Spec => []BidsWithinHours
<1>1. ReadInv => BidsWithinHours
  BY HoursFollow DEF ReadInv
<1> QED
  BY <1>1, ReadInvHolds, PTL

\* A status has a reason: the clock or a sale.
THEOREM StatusesHaveReasons == Spec => []StatusHasReason
<1>1. ReadInv => StatusHasReason
  BY DEF ReadInv, TablesInv
<1> QED
  BY <1>1, ReadInvHolds, PTL

\* Nothing that is applied after a sale changes the item.
THEOREM SalesAreFinal == Spec => SoldIsFinal
<1>1. IInv /\ ReadInv /\ [Next]_vars
      => [\A i \in Items : Sold(i) => /\ bids'[i] = bids[i]
                                      /\ current_price'[i] = current_price[i]
                                      /\ status'[i] = status[i]]_vars
  BY ServiceTypes, ReadModelSteps, SoldUntouched DEF ReadInv
<1> QED
  BY <1>1, IInvHolds, ReadInvHolds, PTL DEF Spec, SoldIsFinal

-----------------------------------------------------------------------------
(* What is left of AuctionsEnd without fairness.                           *)

\* Between the two statements of a scheduler, nobody finds an auction
\* SCHEDULED that the first of them had to open.
NoneLeftBehind ==
    \A s \in Servers : phase[s] = "end_due" =>
        \A i \in Items : StartTime[i] <= asof[s] => status[i] # "SCHEDULED"

LEMMA NoneLeftBehindKept ==
    ASSUME IInv, IInv', Traced, NoneLeftBehind, [Next]_vars
    PROVE  NoneLeftBehind'
<1> SUFFICES ASSUME NEW s \in Servers, phase'[s] = "end_due",
                    NEW i \in Items, StartTime[i] <= asof'[s]
             PROVE  status'[i] # "SCHEDULED"
  BY DEF NoneLeftBehind
<1> USE DEF IInv, TypeOK, SchedulerTypeOK, ReadModelTypeOK
<1>1. CASE phase'[s] = phase[s] /\ asof'[s] = asof[s]
  BY <1>1, StepsGoForward DEF NoneLeftBehind, Forward
<1>2. CASE StartAuctions(s)
  BY <1>2 DEF StartAuctions, SetStatus, Due
<1>3. CASE \E t \in Servers : Schedule(t) \/ FailUpdate(t) \/ Crash(t)
  BY <1>1, <1>2, <1>3 DEF Schedule, FailUpdate, Crash, SchedulerStep, Wake,
     StartAuctions, EndAuctions, UpdateFails, Sleep
<1>4. CASE UNCHANGED schedulerVars
  BY <1>1, <1>4 DEF schedulerVars
<1> QED
  BY <1>3, <1>4 DEF Next, NormalStep, FaultStep, ClockTicks, ServeRequest,
     TakeMessage, ApplyMessage, CommitOffset, FailRequest, DropMessage,
     MovePartition, vars

\* A scheduler that completes both statements leaves no auction behind whose
\* hours were over when it read the clock, not even one that no tick before it
\* has opened; and no step, nor any fault, takes COMPLETED back.
THEOREM PassesCatchUp ==
    Spec => [][\A i \in Items :
                  /\ status[i] = "COMPLETED" => status'[i] = "COMPLETED"
                  /\ \A s \in Servers :
                        EndAuctions(s) /\ StartTime[i] <= asof[s]
                                       /\ EndTime[i] <= asof[s]
                        => status'[i] = "COMPLETED"]_vars
<1> DEFINE Caught(i, s) == EndAuctions(s) /\ StartTime[i] <= asof[s]
                                          /\ EndTime[i] <= asof[s]
                           => status'[i] = "COMPLETED"
<1>1. Init => NoneLeftBehind
  BY DEF Init, SchedulerInit, NoneLeftBehind
<1>2. IInv /\ IInv' /\ ReadInv /\ NoneLeftBehind /\ [Next]_vars
      => NoneLeftBehind'
  BY NoneLeftBehindKept DEF ReadInv
<1>3. ASSUME NoneLeftBehind, IInv, NEW i \in Items, NEW s \in Servers
      PROVE  Caught(i, s)
  <2>1. status[i] \in Statuses
    BY <1>3 DEF IInv, TypeOK, ReadModelTypeOK
  <2> QED
    BY <1>3, <2>1 DEF NoneLeftBehind, EndAuctions, SetStatus, Due, Statuses
<1>4. IInv /\ IInv' /\ ReadInv /\ NoneLeftBehind /\ [Next]_vars
      => [\A i \in Items : /\ status[i] = "COMPLETED" => status'[i] = "COMPLETED"
                           /\ \A s \in Servers : Caught(i, s)]_vars
  BY <1>3, StepsGoForward DEF ReadInv, Forward
<1> QED
  BY <1>1, <1>2, <1>4, IInvHolds, ReadInvHolds, PTL DEF Spec
=============================================================================
