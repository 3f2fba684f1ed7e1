------------------------ MODULE AuctionServiceProofs -------------------------
(***************************************************************************)
(* Proofs of what AuctionProperties states about the command side, for any *)
(* items, requests, servers, partitions and prices.                        *)
(***************************************************************************)
EXTENDS AuctionProperties, TLAPS

\* A request that has not stored its event.
Undecided(r) == pc[r] \in {"arrive", "read_version", "read_item", "decide", "append"}

\* The versions of an item are 1, .., n.  GaplessVersions needs no more than
\* this, but MAX(version) is a number only because of it.
LogIsGapless ==
    \A i \in Items : /\ get_item_version(i) \in Nat
                     /\ Versions(i) = 1 .. get_item_version(i)

LogIsUnique ==
    \A e, f \in events : e.item = f.item /\ e.version = f.version => e = f

\* What a request has read of the version may be old but not from the future.
VersionsAreOld ==
    \A r \in Requests :
        pc[r] \in {"read_item", "decide", "append"}
            => version[r] <= get_item_version(cmd[r].item)

NotStoredYet ==
    \A r \in Requests : Undecided(r) => \A e \in events : e.bidder # r

\* Inductive for the command side.
LogInv ==
    /\ LogIsGapless
    /\ LogIsUnique
    /\ VersionsAreOld
    /\ NotStoredYet
    /\ OneEventPerRequest

-----------------------------------------------------------------------------
(* The log.                                                                *)

\* MAX(version) over the versions 1, .., n is n, and 0 if there are none.
LEMMA MaxVersion ==
    ASSUME NEW n \in Nat
    PROVE  Max((1 .. n) \cup {0}) = n
<1>1. (1 .. n) \cup {0} = 0 .. n
  OBVIOUS
<1>2. n \in 0 .. n /\ \A y \in 0 .. n : n >= y
  OBVIOUS
<1>3. \A x \in 0 .. n : (\A y \in 0 .. n : x >= y) => x = n
  OBVIOUS
<1> QED
  BY <1>1, <1>2, <1>3 DEF Max

\* The parts of a command.
LEMMA CommandParts ==
    ASSUME BiddingTypeOK, NEW r \in Requests
    PROVE  /\ cmd[r].kind \in {"bid", "buy_now"}
           /\ cmd[r].item \in Items
           /\ cmd[r].amount \in Int
<1>1. cmd[r] \in Command
  BY CommandAssumption DEF BiddingTypeOK
<1> QED
  BY <1>1 DEF Command

\* The event a request builds is a row of table events.
LEMMA EventOfType ==
    ASSUME BiddingTypeOK, NEW r \in Requests
    PROVE  /\ EventOf(r) \in Event
           /\ EventOf(r).item = cmd[r].item
           /\ EventOf(r).bidder = r
           /\ EventOf(r).version = version[r] + 1
<1>1. /\ cmd[r].item \in Items
      /\ cmd[r].amount \in Int
  BY CommandParts
<1>2. BuyNowPrice[cmd[r].item] \in Int
  BY <1>1, ItemAssumption
<1>3. version[r] + 1 \in Nat \ {0} /\ stamp[r] \in Nat
  BY DEF BiddingTypeOK
<1> QED
  BY <1>1, <1>2, <1>3 DEF EventOf, Event, IsBid

-----------------------------------------------------------------------------
(* Types, component by component.                                          *)

LEMMA NoRowType == NoRow \in Item
BY DEF NoRow, Item, Statuses

LEMMA FinishType ==
    ASSUME BiddingTypeOK, NEW r \in Requests, NEW answer \in Replies,
           Finish(r, answer)
    PROVE  BiddingTypeOK'
BY NoRowType DEF Finish, BiddingTypeOK, Labels

LEMMA GotoType ==
    ASSUME BiddingTypeOK, NEW r \in Requests, NEW label \in Labels,
           Goto(r, label)
    PROVE  /\ pc' \in [Requests -> Labels]
           /\ cmd' \in [Requests -> Commands]
           /\ home' \in [Requests -> Servers]
           /\ reply' \in [Requests -> Replies]
BY DEF Goto, BiddingTypeOK

\* The broker's log takes an event.
LEMMA ProduceType ==
    ASSUME BrokerTypeOK, NEW e \in Event, Produce(e) \/ ProduceAgain(e)
    PROVE  BrokerTypeOK'
<1>1. PICK p \in Partitions : /\ topic' = [topic EXCEPT ![p] = Append(@, e)]
                              /\ UNCHANGED <<owner, position, committed, inflight,
                                             subscribed>>
  BY DEF Produce, ProduceAgain, PartitionsFor
<1>2. Append(topic[p], e) \in Seq(Event)
  BY DEF BrokerTypeOK
<1> QED
  BY <1>1, <1>2 DEF BrokerTypeOK

LEMMA RequestStepType ==
    ASSUME TypeOK, LogIsGapless, NEW r \in Requests, RequestStep(r)
    PROVE  BiddingTypeOK' /\ events' \subseteq Event /\ BrokerTypeOK'
<1> USE DEF TypeOK
<1>1. CASE CheckPrice(r)
  BY <1>1, FinishType, GotoType DEF CheckPrice, Replies, Rejections, Labels,
     brokerVars, BrokerTypeOK, BiddingTypeOK
<1>2. CASE CheckStart(r)
  BY <1>2, FinishType, GotoType DEF CheckStart, Replies, Rejections, Labels,
     brokerVars, BrokerTypeOK, BiddingTypeOK
<1>3. CASE ReadVersion(r)
  <2>1. get_item_version(cmd[r].item) \in Nat
    BY CommandParts DEF LogIsGapless
  <2> QED
    BY <1>3, <2>1, GotoType DEF ReadVersion, Labels, brokerVars, BrokerTypeOK,
       BiddingTypeOK
<1>4. CASE ReadItem(r)
  <2>1. get_item(cmd[r].item) \in Item
    BY CommandParts DEF get_item, Item, ReadModelTypeOK
  <2> QED
    BY <1>4, <2>1, GotoType DEF ReadItem, Labels, brokerVars, BrokerTypeOK,
       BiddingTypeOK
<1>5. CASE Decide(r)
  <2>1. CASE \E answer \in Rejections : Finish(r, answer)
    BY <1>5, <2>1, FinishType DEF Decide, Replies, brokerVars, BrokerTypeOK
  <2>2. CASE /\ stamp' = [stamp EXCEPT ![r] = now]
             /\ seen' = [seen EXCEPT ![r] = NoRow]
             /\ Goto(r, "append")
             /\ UNCHANGED <<retries, version>>
    BY <1>5, <2>2, GotoType, NoRowType DEF Decide, Labels, brokerVars,
       BrokerTypeOK, BiddingTypeOK, ReadModelTypeOK
  <2> QED
    BY <1>5, <2>1, <2>2 DEF Decide, Rejections
<1>6. CASE Append_Stored(r)
  BY <1>6, EventOfType, GotoType DEF Append_Stored, Insert, Labels, brokerVars,
     BrokerTypeOK, BiddingTypeOK
<1>7. CASE Append_Conflict(r)
  <2>1. CASE Finish(r, "MAX_RETRIES_EXCEEDED")
    BY <1>7, <2>1, FinishType DEF Append_Conflict, Replies, Rejections,
       brokerVars, BrokerTypeOK
  <2>2. CASE /\ retries' = [retries EXCEPT ![r] = @ + 1]
             /\ version' = [version EXCEPT ![r] = 0]
             /\ stamp' = [stamp EXCEPT ![r] = 0]
             /\ Goto(r, "read_version")
             /\ UNCHANGED seen
    BY <1>7, <2>2, GotoType DEF Append_Conflict, Labels, brokerVars,
       BrokerTypeOK, BiddingTypeOK
  <2> QED
    BY <1>7, <2>1, <2>2 DEF Append_Conflict
<1>8. CASE Send(r)
  BY <1>8, EventOfType, ProduceType, GotoType DEF Send, Labels, BiddingTypeOK
<1>9. CASE Confirm(r)
  BY <1>9, FinishType, GotoType DEF Confirm, Replies, Labels, brokerVars,
     BrokerTypeOK, BiddingTypeOK
<1>10. CASE Respond(r)
  BY <1>10, FinishType DEF Respond, Replies, brokerVars, BrokerTypeOK
<1> QED
  BY <1>1, <1>2, <1>3, <1>4, <1>5, <1>6, <1>7, <1>8, <1>9, <1>10
     DEF RequestStep

LEMMA RequestFaultType ==
    ASSUME TypeOK, NEW r \in Requests, RequestFault(r)
    PROVE  BiddingTypeOK' /\ events' \subseteq Event /\ BrokerTypeOK'
<1> USE DEF TypeOK
<1>1. CASE ReadFails(r)
  BY <1>1, FinishType DEF ReadFails, Replies, brokerVars, BrokerTypeOK
<1>2. CASE AppendFails(r)
  BY <1>2, EventOfType, FinishType DEF AppendFails, Insert, Replies, brokerVars,
     BrokerTypeOK
<1>3. CASE SendFails(r)
  BY <1>3, FinishType DEF SendFails, Replies, brokerVars, BrokerTypeOK
<1>4. CASE SendAgain(r)
  BY <1>4, EventOfType, ProduceType DEF SendAgain, requestVars, BiddingTypeOK
<1>5. CASE Dropped(r)
  BY <1>5, FinishType DEF Dropped, Replies, brokerVars, BrokerTypeOK
<1> QED
  BY <1>1, <1>2, <1>3, <1>4, <1>5 DEF RequestFault

LEMMA SleepType ==
    ASSUME SchedulerTypeOK, NEW s \in Servers, Sleep(s)
    PROVE  SchedulerTypeOK'
BY DEF SchedulerTypeOK, Sleep

\* The consumer writes numbers and rows.
LEMMA ProcessEventType ==
    ASSUME TypeOK, NEW s \in Servers, ProcessEvent(s), UNCHANGED now
    PROVE  ReadModelTypeOK' /\ BrokerTypeOK'
<1> USE DEF TypeOK
<1>1. PICK e \in inflight[s] : HandleBidPlaced(e) \/ HandleBuyNowExecuted(e)
  BY DEF ProcessEvent
<1>2. e \in Event
  BY DEF BrokerTypeOK
<1>3. e.item \in Items /\ e.amount \in Int
  BY <1>2 DEF Event
<1>4. BrokerTypeOK'
  BY DEF ProcessEvent, Handled, BrokerTypeOK
<1>5. ASSUME RecordBid(e)
      PROVE  bids' \in [Items -> Seq(Bid)]
  <2> DEFINE row == [bidder |-> e.bidder, amount |-> e.amount, time |-> e.time]
  <2>1. row \in Bid
    BY <1>2 DEF Event, Bid
  <2>2. Append(bids[e.item], row) \in Seq(Bid)
    BY <1>3, <2>1 DEF ReadModelTypeOK
  <2>3. bids' = [bids EXCEPT ![e.item] = Append(@, row)]
    BY <1>5 DEF RecordBid
  <2> HIDE DEF row
  <2> QED
    BY <2>2, <2>3 DEF ReadModelTypeOK
<1>6. CASE HandleBidPlaced(e)
  BY <1>3, <1>4, <1>5, <1>6 DEF HandleBidPlaced, itemVars, ReadModelTypeOK
<1>7. CASE HandleBuyNowExecuted(e)
  BY <1>3, <1>4, <1>5, <1>7 DEF HandleBuyNowExecuted, itemVars,
     ReadModelTypeOK, Statuses
<1> QED
  BY <1>1, <1>6, <1>7

\* What the consumer loop, the group and a restart do to offsets.
LEMMA BrokerStepType ==
    ASSUME BrokerTypeOK,
           \/ \E s \in Servers : Receive(s) \/ Handled(s) \/ ConsumerCrash(s)
           \/ \E p \in Partitions : AutoCommit(p)
           \/ \E p \in Partitions, s \in Servers : Rebalance(p, s)
    PROVE  BrokerTypeOK'
<1>1. CASE \E s \in Servers : Receive(s)
  <2>1. PICK s \in Servers, p \in Partitions :
            /\ position[p] < Len(topic[p])
            /\ inflight' = [inflight EXCEPT ![s] = {topic[p][position[p] + 1]}]
            /\ position' = [position EXCEPT ![p] = @ + 1]
            /\ UNCHANGED <<topic, owner, committed, subscribed>>
    BY <1>1 DEF Receive
  <2>2. topic[p][position[p] + 1] \in Event
    BY <2>1 DEF BrokerTypeOK
  <2> QED
    BY <2>1, <2>2 DEF BrokerTypeOK
<1>2. CASE \E s \in Servers : Handled(s)
  BY <1>2 DEF Handled, BrokerTypeOK
<1>3. CASE \E s \in Servers : ConsumerCrash(s)
  BY <1>3 DEF ConsumerCrash, Subscribe, BrokerTypeOK
<1>4. CASE \E p \in Partitions : AutoCommit(p)
  BY <1>4 DEF AutoCommit, BrokerTypeOK
<1>5. CASE \E p \in Partitions, s \in Servers : Rebalance(p, s)
  <2>1. PICK p \in Partitions, s \in Servers : Rebalance(p, s)
    BY <1>5
  <2>2. committed' \in [Partitions -> Nat]
    BY <2>1 DEF Rebalance, BrokerTypeOK
  <2> QED
    BY <2>1, <2>2 DEF Rebalance, BrokerTypeOK
<1> QED
  BY <1>1, <1>2, <1>3, <1>4, <1>5

LEMMA SchedulerStepType ==
    ASSUME ReadModelTypeOK, SchedulerTypeOK, NEW s \in Servers,
           SchedulerStep(s) \/ UpdateFails(s), UNCHANGED now
    PROVE  ReadModelTypeOK' /\ SchedulerTypeOK'
<1>1. CASE Wake(s)
  BY <1>1 DEF Wake, itemVars, ReadModelTypeOK, SchedulerTypeOK
<1>2. CASE StartAuctions(s)
  BY <1>2 DEF StartAuctions, SetStatus, ReadModelTypeOK, SchedulerTypeOK,
     Statuses
<1>3. CASE EndAuctions(s)
  BY <1>3, SleepType DEF EndAuctions, SetStatus, ReadModelTypeOK, Statuses
<1>4. CASE UpdateFails(s)
  BY <1>4, SleepType DEF UpdateFails, itemVars, ReadModelTypeOK
<1> QED
  BY <1>1, <1>2, <1>3, <1>4 DEF SchedulerStep

LEMMA RequestsCrashType ==
    ASSUME BiddingTypeOK, NEW s \in Servers, RequestsCrash(s)
    PROVE  BiddingTypeOK'
BY NoRowType DEF RequestsCrash, InFlight, BiddingTypeOK, Labels, Replies

-----------------------------------------------------------------------------
(* The log and the requests that write to it.                              *)

\* Any step that leaves the log alone and takes a request no further back than
\* to the read of the version keeps LogInv.
LEMMA LogKept ==
    ASSUME TypeOK, LogInv, UNCHANGED <<events, cmd>>,
           \A r \in Requests :
               /\ Undecided(r)' => Undecided(r)
               /\ pc'[r] \in {"read_item", "decide", "append"}
                    => \/ /\ pc[r] \in {"read_item", "decide", "append"}
                          /\ version'[r] = version[r]
                       \/ version'[r] = get_item_version(cmd[r].item)
    PROVE  LogInv'
<1>1. \A i : get_item_version(i)' = get_item_version(i) /\ Versions(i)' = Versions(i)
  BY DEF get_item_version, Versions
<1>2. LogIsGapless' /\ LogIsUnique' /\ OneEventPerRequest'
  BY <1>1 DEF LogInv, LogIsGapless, LogIsUnique, OneEventPerRequest
<1>3. VersionsAreOld'
  <2> SUFFICES ASSUME NEW r \in Requests,
                      pc'[r] \in {"read_item", "decide", "append"}
               PROVE  version'[r] <= get_item_version(cmd[r].item)
    BY <1>1 DEF VersionsAreOld
  <2>1. get_item_version(cmd[r].item) \in Nat
    BY CommandParts DEF TypeOK, LogInv, LogIsGapless
  <2> QED
    BY <2>1 DEF LogInv, VersionsAreOld
<1>4. NotStoredYet'
  BY DEF LogInv, NotStoredYet
<1> QED
  BY <1>2, <1>3, <1>4 DEF LogInv

\* A conditional INSERT of an event whose version was computed from an old read
\* continues the versions of its item, and touches no other item.
LEMMA InsertExtends ==
    ASSUME TypeOK, LogInv, NEW r \in Requests, pc[r] = "append", Insert(EventOf(r))
    PROVE  /\ LogIsGapless' /\ LogIsUnique' /\ OneEventPerRequest'
           /\ \A i \in Items : get_item_version(i) <= get_item_version(i)'
<1>1. PICK e \in Event : /\ e = EventOf(r)
                         /\ e.item = cmd[r].item
                         /\ e.bidder = r
                         /\ e.version = version[r] + 1
  BY EventOfType DEF TypeOK
<1>2. events' = events \cup {e} /\ ~Conflicts(e)
  BY <1>1 DEF Insert
<1>3. PICK i \in Items : i = e.item
  BY DEF Event
<1>4. PICK n \in Nat : n = get_item_version(i) /\ Versions(i) = 1 .. n
  BY DEF LogInv, LogIsGapless
<1>5. e.version = n + 1
  <2>1. version[r] \in Nat /\ version[r] <= n
    BY <1>1, <1>3, <1>4 DEF TypeOK, BiddingTypeOK, LogInv, VersionsAreOld
  <2>2. e.version \notin Versions(i)
    BY <1>2, <1>3 DEF Conflicts, Versions
  <2> QED
    BY <1>1, <1>4, <2>1, <2>2
<1>6. Versions(i)' = 1 .. n + 1
  <2>1. Versions(i)' = Versions(i) \cup {e.version}
    BY <1>2, <1>3 DEF Versions
  <2> QED
    BY <1>4, <1>5, <2>1
<1>7. get_item_version(i)' = n + 1
  BY <1>6, MaxVersion DEF get_item_version
<1>8. ASSUME NEW j \in Items, j # i
      PROVE  /\ Versions(j)' = Versions(j)
             /\ get_item_version(j)' = get_item_version(j)
  <2>1. Versions(j)' = Versions(j)
    BY <1>2, <1>3, <1>8 DEF Versions
  <2> QED
    BY <2>1 DEF get_item_version
<1>9. LogIsGapless'
  BY <1>4, <1>6, <1>7, <1>8 DEF LogInv, LogIsGapless
<1>10. LogIsUnique'
  BY <1>2 DEF LogInv, LogIsUnique, Conflicts
<1>11. OneEventPerRequest'
  BY <1>1, <1>2 DEF LogInv, OneEventPerRequest, NotStoredYet, Undecided
<1>12. \A j \in Items : get_item_version(j) <= get_item_version(j)'
  BY <1>4, <1>7, <1>8 DEF LogInv, LogIsGapless
<1> QED
  BY <1>9, <1>10, <1>11, <1>12

\* So LogInv survives the INSERT, whatever the request learns of it.
LEMMA LogExtended ==
    ASSUME TypeOK, LogInv, NEW r \in Requests, pc[r] = "append", Insert(EventOf(r)),
           UNCHANGED cmd, pc'[r] \in {"send", "done"},
           \A q \in Requests \ {r} : pc'[q] = pc[q] /\ version'[q] = version[q]
    PROVE  LogInv'
<1>1. /\ LogIsGapless' /\ LogIsUnique' /\ OneEventPerRequest'
      /\ \A i \in Items : get_item_version(i) <= get_item_version(i)'
  BY InsertExtends
<1>2. VersionsAreOld'
  <2> SUFFICES ASSUME NEW q \in Requests,
                      pc'[q] \in {"read_item", "decide", "append"}
               PROVE  version'[q] <= get_item_version(cmd[q].item)'
    BY DEF VersionsAreOld
  <2>1. pc[q] \in {"read_item", "decide", "append"} /\ version'[q] = version[q]
    OBVIOUS
  <2>2. PICK i \in Items : i = cmd[q].item
    BY CommandParts DEF TypeOK
  <2>3. /\ version[q] \in Nat /\ get_item_version(i) \in Nat
        /\ get_item_version(i)' \in Nat
    BY <1>1 DEF TypeOK, BiddingTypeOK, LogInv, LogIsGapless
  <2>4. version[q] <= get_item_version(i)
    BY <2>1, <2>2 DEF LogInv, VersionsAreOld
  <2>5. version'[q] <= get_item_version(i)'
    BY <1>1, <2>1, <2>3, <2>4
  <2> QED
    BY <2>2, <2>5
<1>3. NotStoredYet'
  <2>1. events' = events \cup {EventOf(r)} /\ EventOf(r).bidder = r
    BY EventOfType DEF Insert, TypeOK
  <2>2. \A q \in Requests : Undecided(q)' => q # r /\ Undecided(q)
    BY DEF Undecided
  <2> QED
    BY <2>1, <2>2 DEF LogInv, NotStoredYet
<1> QED
  BY <1>1, <1>2, <1>3 DEF LogInv

LEMMA RequestStepLog ==
    ASSUME TypeOK, LogInv, NEW r \in Requests, RequestStep(r)
    PROVE  LogInv'
<1> USE DEF TypeOK, BiddingTypeOK
<1>1. CASE CheckPrice(r) \/ CheckStart(r)
  BY <1>1, LogKept DEF CheckPrice, CheckStart, Finish, Goto, Undecided
<1>2. CASE ReadVersion(r)
  BY <1>2, LogKept DEF ReadVersion, Goto, Undecided
<1>3. CASE ReadItem(r)
  BY <1>3, LogKept DEF ReadItem, Goto, Undecided
<1>4. CASE Decide(r)
  <2>1. CASE \E answer \in Rejections : Finish(r, answer)
    BY <1>4, <2>1, LogKept DEF Decide, Finish, Undecided
  <2>2. CASE Goto(r, "append") /\ UNCHANGED version
    BY <1>4, <2>2, LogKept DEF Decide, Goto, Undecided
  <2> QED
    BY <1>4, <2>1, <2>2 DEF Decide, Rejections
<1>5. CASE Append_Stored(r)
  BY <1>5, LogExtended DEF Append_Stored, Goto
<1>6. CASE Append_Conflict(r)
  BY <1>6, LogKept DEF Append_Conflict, Finish, Goto, Undecided
<1>7. CASE Send(r)
  BY <1>7, LogKept DEF Send, Goto, Undecided
<1>8. CASE Confirm(r) \/ Respond(r)
  BY <1>8, LogKept DEF Confirm, Respond, Finish, Goto, Undecided
<1> QED
  BY <1>1, <1>2, <1>3, <1>4, <1>5, <1>6, <1>7, <1>8 DEF RequestStep

LEMMA RequestFaultLog ==
    ASSUME TypeOK, LogInv, NEW r \in Requests, RequestFault(r)
    PROVE  LogInv'
<1> USE DEF TypeOK, BiddingTypeOK
<1>1. CASE AppendFails(r) /\ Insert(EventOf(r))
  BY <1>1, LogExtended DEF AppendFails, Finish
<1>2. CASE /\ ReadFails(r) \/ AppendFails(r) \/ SendFails(r) \/ Dropped(r)
           /\ UNCHANGED events
  BY <1>2, LogKept DEF ReadFails, AppendFails, SendFails, Dropped, Finish,
     Undecided
<1>3. CASE SendAgain(r)
  BY <1>3, LogKept DEF SendAgain, requestVars, Undecided
<1> QED
  BY <1>1, <1>2, <1>3 DEF RequestFault, ReadFails, AppendFails, SendFails,
     Dropped

LEMMA RequestsCrashLog ==
    ASSUME TypeOK, LogInv, NEW s \in Servers, RequestsCrash(s)
    PROVE  LogInv'
BY LogKept DEF RequestsCrash, InFlight, Undecided, TypeOK, BiddingTypeOK

-----------------------------------------------------------------------------
(* The service.                                                            *)

\* What every step keeps of types and log.
IInv == TypeOK /\ LogInv

LEMMA InitIInv == Init => IInv
<1> SUFFICES ASSUME Init PROVE IInv
  OBVIOUS
<1> USE DEF Init
<1>1. ReadModelTypeOK
  <2>1. <<>> \in Seq(Bid)
    OBVIOUS
  <2> QED
    BY <2>1, ItemAssumption DEF ReadModelInit, ReadModelTypeOK, Statuses
<1>2. BrokerTypeOK
  <2>1. <<>> \in Seq(Event)
    OBVIOUS
  <2> QED
    BY <2>1 DEF BrokerInit, BrokerTypeOK
<1>3. BiddingTypeOK
  BY NoRowType DEF BiddingInit, BiddingTypeOK, Labels, Replies
<1>4. SchedulerTypeOK
  BY DEF SchedulerInit, SchedulerTypeOK
<1>5. TypeOK
  BY <1>1, <1>2, <1>3, <1>4 DEF TypeOK, EventStoreInit
<1>6. \A i \in Items : Versions(i) = 1 .. 0 /\ get_item_version(i) = 0
  <2>1. \A i \in Items : Versions(i) = 1 .. 0
    BY DEF EventStoreInit, Versions
  <2> QED
    BY <2>1, MaxVersion DEF get_item_version
<1>7. LogInv
  <2>1. LogIsGapless
    BY <1>6 DEF LogIsGapless
  <2>2. VersionsAreOld
    BY DEF BiddingInit, VersionsAreOld
  <2> QED
    BY <2>1, <2>2 DEF EventStoreInit, LogInv, LogIsUnique, NotStoredYet,
       OneEventPerRequest
<1> QED
  BY <1>5, <1>7 DEF IInv

LEMMA NextIInv == IInv /\ [Next]_vars => IInv'
<1> SUFFICES ASSUME IInv, [Next]_vars PROVE IInv'
  OBVIOUS
<1>0. TypeOK /\ LogInv /\ LogIsGapless
  BY DEF IInv, LogInv
<1>1. ASSUME UNCHANGED <<events, requestVars>>
      PROVE  LogInv' /\ events' \subseteq Event /\ BiddingTypeOK'
  BY <1>0, <1>1, LogKept DEF requestVars, Undecided, TypeOK, BiddingTypeOK
<1>2. CASE ClockTicks
  BY <1>0, <1>1, <1>2 DEF ClockTicks, Tick, itemVars, brokerVars, schedulerVars,
     IInv, TypeOK, ReadModelTypeOK, BrokerTypeOK, SchedulerTypeOK
<1>3. ASSUME NEW r \in Requests, ServeRequest(r) \/ FailRequest(r)
      PROVE  IInv'
  <2>1. LogInv' /\ BiddingTypeOK' /\ events' \subseteq Event /\ BrokerTypeOK'
    BY <1>0, <1>3, RequestStepLog, RequestStepType, RequestFaultLog,
       RequestFaultType DEF ServeRequest, FailRequest
  <2>2. ReadModelTypeOK' /\ SchedulerTypeOK'
    BY <1>0, <1>3 DEF ServeRequest, FailRequest, itemVars, schedulerVars,
       TypeOK, ReadModelTypeOK, SchedulerTypeOK
  <2> QED
    BY <2>1, <2>2 DEF IInv, TypeOK
<1>4. ASSUME \/ \E s \in Servers : TakeMessage(s)
             \/ \E p \in Partitions : CommitOffset(p)
             \/ \E p \in Partitions, s \in Servers : MovePartition(p, s)
      PROVE  IInv'
  <2>1. BrokerTypeOK'
    BY <1>0, <1>4, BrokerStepType DEF TakeMessage, CommitOffset, MovePartition,
       TypeOK
  <2>2. ReadModelTypeOK' /\ SchedulerTypeOK'
    BY <1>0, <1>4 DEF TakeMessage, CommitOffset, MovePartition, itemVars,
       schedulerVars, TypeOK, ReadModelTypeOK, SchedulerTypeOK
  <2> QED
    BY <1>1, <1>4, <2>1, <2>2 DEF TakeMessage, CommitOffset, MovePartition,
       IInv, TypeOK
<1>5. ASSUME NEW s \in Servers, ApplyMessage(s) \/ DropMessage(s)
      PROVE  IInv'
  <2>1. BrokerTypeOK'
    BY <1>0, <1>5, BrokerStepType DEF ApplyMessage, DropMessage, ProcessEvent,
       ProcessFails, TypeOK
  <2>2. ReadModelTypeOK'
    BY <1>0, <1>5, ProcessEventType DEF ApplyMessage, DropMessage,
       ProcessFails, itemVars, TypeOK, ReadModelTypeOK
  <2>3. SchedulerTypeOK'
    BY <1>0, <1>5 DEF ApplyMessage, DropMessage, schedulerVars, TypeOK,
       SchedulerTypeOK
  <2> QED
    BY <1>1, <1>5, <2>1, <2>2, <2>3 DEF ApplyMessage, DropMessage, IInv, TypeOK
<1>6. ASSUME NEW s \in Servers, Schedule(s) \/ FailUpdate(s)
      PROVE  IInv'
  <2>1. ReadModelTypeOK' /\ SchedulerTypeOK'
    BY <1>0, <1>6, SchedulerStepType DEF Schedule, FailUpdate, TypeOK
  <2>2. BrokerTypeOK'
    BY <1>0, <1>6 DEF Schedule, FailUpdate, brokerVars, TypeOK, BrokerTypeOK
  <2> QED
    BY <1>1, <1>6, <2>1, <2>2 DEF Schedule, FailUpdate, IInv, TypeOK
<1>7. ASSUME NEW s \in Servers, Crash(s)
      PROVE  IInv'
  <2>1. LogInv' /\ BiddingTypeOK' /\ events' \subseteq Event
    BY <1>0, <1>7, RequestsCrashLog, RequestsCrashType DEF Crash,
       RequestsCrash, TypeOK
  <2>2. BrokerTypeOK' /\ SchedulerTypeOK'
    BY <1>0, <1>7, BrokerStepType, SleepType DEF Crash, TypeOK
  <2>3. ReadModelTypeOK'
    BY <1>0, <1>7 DEF Crash, itemVars, TypeOK, ReadModelTypeOK
  <2> QED
    BY <2>1, <2>2, <2>3 DEF IInv, TypeOK
<1>8. CASE UNCHANGED vars
  BY <1>0, <1>1, <1>8 DEF vars, itemVars, brokerVars, schedulerVars, IInv,
     TypeOK, ReadModelTypeOK, BrokerTypeOK, SchedulerTypeOK
<1> QED
  BY <1>2, <1>3, <1>4, <1>5, <1>6, <1>7, <1>8 DEF Next, NormalStep, FaultStep

\* IInv is an invariant of the service.
THEOREM IInvHolds == Spec => []IInv
<1> QED
  BY InitIInv, NextIInv, PTL DEF Spec

\* Every variable of the service keeps its type.
THEOREM TypesHold == Spec => []TypeOK
<1>1. IInv => TypeOK
  BY DEF IInv
<1> QED
  BY <1>1, IInvHolds, PTL

\* The events of an item have the versions 1, .., n, each once, whatever
\* requests race, fail or die.
THEOREM VersionsAreGapless == Spec => []GaplessVersions
<1>1. IInv => GaplessVersions
  BY DEF IInv, LogInv, LogIsGapless, LogIsUnique, GaplessVersions
<1> QED
  BY <1>1, IInvHolds, PTL

\* No request stores two events, whatever it retries.
THEOREM RequestsStoreOnce == Spec => []OneEventPerRequest
<1>1. IInv => OneEventPerRequest
  BY DEF IInv, LogInv
<1> QED
  BY <1>1, IInvHolds, PTL
=============================================================================
