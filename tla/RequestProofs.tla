---------------------------- MODULE RequestProofs -----------------------------
(***************************************************************************)
(* Proofs about single requests: what their answers say, and how often     *)
(* their loop goes round.                                                  *)
(***************************************************************************)
EXTENDS AuctionServiceProofs, FiniteSetTheorems

\* What the service knows of a request at each of its awaits.
StoredBy(r) == {e \in events : e.bidder = r}

\* The answer agrees with the log and the topic.
ReplyInv(r) ==
    /\ reply[r] = "none" <=> pc[r] # "done"
    /\ pc[r] = "send" => EventOf(r) \in events
    /\ pc[r] \in {"confirm", "respond"} \/ reply[r] = "OK"
         => \E e \in StoredBy(r) : Published(e)
    /\ reply[r] \in Rejections => StoredBy(r) = {}

\* Every turn of the loop was lost to an event that the next read will count.
RetryInv(r) ==
    /\ pc[r] = "arrive" => retries[r] = 0
    /\ pc[r] = "read_version" => retries[r] <= get_item_version(cmd[r].item)
    /\ pc[r] \in {"read_item", "decide", "append"} => retries[r] <= version[r]
    /\ reply[r] = "MAX_RETRIES_EXCEEDED"
         => MaxRetries <= get_item_version(cmd[r].item)

RequestInv == \A r \in Requests : ReplyInv(r) /\ RetryInv(r)

-----------------------------------------------------------------------------
(* What grows.                                                             *)

\* Nothing is ever removed from the log, nor from the topic.
LEMMA StoresGrow ==
    ASSUME IInv, IInv', [Next]_vars
    PROVE  /\ events \subseteq events'
           /\ \A i \in Items : get_item_version(i) <= get_item_version(i)'
           /\ \A e \in events : Published(e) => Published(e)'
<1>1. events \subseteq events'
  <2>1. ASSUME NEW r \in Requests, RequestStep(r) \/ RequestFault(r)
        PROVE  events \subseteq events'
    BY <2>1 DEF RequestStep, CheckPrice, CheckStart, ReadVersion, ReadItem,
       Decide, Append_Stored, Append_Conflict, Send, Confirm, Respond, Insert,
       RequestFault, ReadFails, AppendFails, SendFails, SendAgain, Dropped
  <2> QED
    BY <2>1 DEF Next, NormalStep, FaultStep, ClockTicks, ServeRequest,
       TakeMessage, ApplyMessage, CommitOffset, Schedule, FailRequest,
       DropMessage, FailUpdate, MovePartition, Crash, RequestsCrash, vars
<1>2. ASSUME NEW i \in Items
      PROVE  get_item_version(i) <= get_item_version(i)'
  <2>1. PICK m \in Nat, n \in Nat : /\ m = get_item_version(i)
                                    /\ n = get_item_version(i)'
                                    /\ Versions(i) = 1 .. m
                                    /\ Versions(i)' = 1 .. n
    BY DEF IInv, LogInv, LogIsGapless
  <2>2. Versions(i) \subseteq Versions(i)'
    BY <1>1 DEF Versions
  <2>3. m # 0 => m \in 1 .. m
    BY <2>1
  <2> QED
    BY <2>1, <2>2, <2>3
<1>3. ASSUME NEW p \in Partitions
      PROVE  \/ topic'[p] = topic[p]
             \/ \E e \in Event : topic'[p] = Append(topic[p], e)
  <2>1. ASSUME NEW r \in Requests, RequestStep(r) \/ RequestFault(r)
        PROVE  \/ UNCHANGED topic
               \/ Produce(EventOf(r)) \/ ProduceAgain(EventOf(r))
    BY <2>1 DEF RequestStep, CheckPrice, CheckStart, ReadVersion, ReadItem,
       Decide, Append_Stored, Append_Conflict, Send, Confirm, Respond,
       RequestFault, ReadFails, AppendFails, SendFails, SendAgain, Dropped,
       brokerVars
  <2>2. ASSUME NEW r \in Requests, Produce(EventOf(r)) \/ ProduceAgain(EventOf(r))
        PROVE  \/ topic'[p] = topic[p]
               \/ \E e \in Event : topic'[p] = Append(topic[p], e)
    <3>1. PICK q \in Partitions :
              topic' = [topic EXCEPT ![q] = Append(@, EventOf(r))]
      BY <2>2 DEF Produce, ProduceAgain, PartitionsFor
    <3>2. PICK e \in Event : e = EventOf(r)
      BY EventOfType DEF IInv, TypeOK
    <3>3. topic'[p] = IF p = q THEN Append(topic[p], e) ELSE topic[p]
      BY <3>1, <3>2 DEF IInv, TypeOK, BrokerTypeOK
    <3> QED
      BY <3>3
  <2>3. \/ UNCHANGED topic
        \/ \E r \in Requests : RequestStep(r) \/ RequestFault(r)
    BY DEF Next, NormalStep, FaultStep, ClockTicks, ServeRequest, TakeMessage,
       ApplyMessage, CommitOffset, Schedule, FailRequest, DropMessage,
       FailUpdate, MovePartition, Crash, Receive, ProcessEvent, ProcessFails,
       Handled, AutoCommit, Rebalance, ConsumerCrash, brokerVars, vars
  <2> QED
    BY <2>1, <2>2, <2>3
<1>4. ASSUME NEW e \in events, Published(e)
      PROVE  Published(e)'
  <2>1. PICK p \in Partitions : \E k \in DOMAIN topic[p] : topic[p][k] = e
    BY <1>4 DEF Published, Range
  <2>2. PICK k \in DOMAIN topic[p] : topic[p][k] = e
    BY <2>1
  <2>3. topic[p] \in Seq(Event)
    BY DEF IInv, TypeOK, BrokerTypeOK
  <2>4. k \in DOMAIN topic'[p] /\ topic'[p][k] = e
    BY <1>3, <2>2, <2>3
  <2> QED
    BY <2>4 DEF Published, Range
<1> QED
  BY <1>1, <1>2, <1>4

\* So a request that does not move keeps what is known of it, provided that
\* what others store is theirs.
LEMMA OthersKept ==
    ASSUME IInv, IInv', [Next]_vars, NEW q \in Requests, ReplyInv(q), RetryInv(q),
           pc'[q] = pc[q], cmd'[q] = cmd[q], retries'[q] = retries[q],
           version'[q] = version[q], stamp'[q] = stamp[q], reply'[q] = reply[q],
           \A e \in events' \ events : e.bidder # q
    PROVE  ReplyInv(q)' /\ RetryInv(q)'
<1>1. /\ events \subseteq events'
      /\ \A e \in events : Published(e) => Published(e)'
  BY StoresGrow
<1>2. EventOf(q)' = EventOf(q)
  BY DEF EventOf, IsBid
<1>3. StoredBy(q)' = StoredBy(q)
  BY <1>1 DEF StoredBy
<1>4. ReplyInv(q)'
  <2>1. (\E e \in StoredBy(q) : Published(e)) => (\E e \in StoredBy(q) : Published(e))'
    BY <1>1, <1>3 DEF StoredBy
  <2> QED
    BY <1>1, <1>2, <1>3, <2>1 DEF ReplyInv
<1>5. RetryInv(q)'
  <2>1. PICK i \in Items : i = cmd[q].item
    BY CommandParts DEF IInv, TypeOK
  <2>2. get_item_version(i) <= get_item_version(i)'
    BY StoresGrow
  <2>3. /\ get_item_version(i) \in Nat /\ get_item_version(i)' \in Nat
        /\ retries[q] \in Nat /\ MaxRetries \in Nat
    BY CommandAssumption DEF IInv, LogInv, LogIsGapless, TypeOK, BiddingTypeOK
  <2> QED
    BY <2>1, <2>2, <2>3 DEF RetryInv
<1> QED
  BY <1>4, <1>5

-----------------------------------------------------------------------------
(* What a request does to itself.                                          *)

\* Finish with an answer that claims nothing, or with one that is due.
LEMMA FinishKept ==
    ASSUME IInv, NEW r \in Requests, NEW answer \in Replies \ {"none"},
           Finish(r, answer),
           answer = "OK" => \E e \in StoredBy(r)' : Published(e)',
           answer \in Rejections => StoredBy(r)' = {},
           answer = "MAX_RETRIES_EXCEEDED"
             => MaxRetries <= get_item_version(cmd[r].item)'
    PROVE  ReplyInv(r)' /\ RetryInv(r)'
<1>1. pc'[r] = "done" /\ reply'[r] = answer /\ cmd' = cmd
  BY DEF Finish, IInv, TypeOK, BiddingTypeOK
<1>2. ReplyInv(r)'
  BY <1>1 DEF ReplyInv
<1>3. RetryInv(r)'
  BY <1>1 DEF RetryInv
<1> QED
  BY <1>2, <1>3

\* The conflict that makes a request give up or turn is one the log counts.
LEMMA ConflictCounts ==
    ASSUME IInv, NEW r \in Requests, pc[r] = "append", Conflicts(EventOf(r))
    PROVE  version[r] + 1 <= get_item_version(cmd[r].item)
<1>1. PICK i \in Items : i = cmd[r].item
  BY CommandParts DEF IInv, TypeOK
<1>2. version[r] + 1 \in Versions(i)
  BY <1>1, EventOfType DEF Conflicts, Versions, IInv, TypeOK
<1>3. get_item_version(i) \in Nat /\ Versions(i) = 1 .. get_item_version(i)
  BY DEF IInv, LogInv, LogIsGapless
<1> QED
  BY <1>1, <1>2, <1>3

LEMMA StepKept ==
    ASSUME IInv, IInv', NEW r \in Requests, ReplyInv(r), RetryInv(r), RequestStep(r)
    PROVE  ReplyInv(r)' /\ RetryInv(r)'
<1> USE DEF IInv, TypeOK, BiddingTypeOK
<1>1. PICK i \in Items : i = cmd[r].item
  BY CommandParts
<1>2. /\ get_item_version(i) \in Nat
      /\ UNCHANGED events => get_item_version(i)' = get_item_version(i)
  BY DEF LogInv, LogIsGapless, get_item_version, Versions
<1>3. ASSUME UNCHANGED <<events, topic>>
      PROVE  /\ StoredBy(r)' = StoredBy(r)
             /\ \A e : Published(e)' <=> Published(e)
  BY <1>3 DEF StoredBy, Published
<1>4. Undecided(r) => StoredBy(r) = {}
  BY DEF LogInv, NotStoredYet, StoredBy
<1>5. ASSUME NEW answer \in Rejections \ {"MAX_RETRIES_EXCEEDED"}, Undecided(r),
             Finish(r, answer), UNCHANGED <<events, topic>>
      PROVE  ReplyInv(r)' /\ RetryInv(r)'
  BY <1>3, <1>4, <1>5, FinishKept DEF Replies, Rejections
<1>6. ASSUME NEW label \in {"read_version", "read_item", "decide", "append"},
             Undecided(r), Goto(r, label), UNCHANGED <<events, topic>>
      PROVE  ReplyInv(r)'
  BY <1>3, <1>6 DEF Goto, ReplyInv, Undecided, Rejections
<1>7. CASE CheckPrice(r) \/ CheckStart(r)
  BY <1>1, <1>2, <1>5, <1>6, <1>7 DEF CheckPrice, CheckStart, Goto, Undecided,
     Rejections, RetryInv, ReplyInv, brokerVars
<1>8. CASE ReadVersion(r)
  BY <1>1, <1>2, <1>6, <1>8 DEF ReadVersion, Goto, Undecided, Rejections,
     RetryInv, ReplyInv, brokerVars
<1>9. CASE ReadItem(r)
  BY <1>1, <1>6, <1>9 DEF ReadItem, Goto, Undecided, Rejections, RetryInv,
     ReplyInv, brokerVars
<1>10. CASE Decide(r)
  <2>1. CASE \E answer \in Rejections \ {"MAX_RETRIES_EXCEEDED"} : Finish(r, answer)
    BY <1>5, <1>10, <2>1 DEF Decide, Undecided, brokerVars
  <2>2. CASE Goto(r, "append") /\ UNCHANGED <<retries, version>>
    BY <1>1, <1>6, <1>10, <2>2 DEF Decide, Goto, Undecided, Rejections,
       RetryInv, ReplyInv, brokerVars
  <2> QED
    BY <1>10, <2>1, <2>2 DEF Decide, Rejections
<1>11. CASE Append_Stored(r)
  <2>1. EventOf(r)' = EventOf(r) /\ EventOf(r) \in events'
    BY <1>11 DEF Append_Stored, Insert, Goto, EventOf, IsBid
  <2>2. pc'[r] = "send" /\ reply'[r] = "none"
    BY <1>11 DEF Append_Stored, Goto, ReplyInv
  <2> QED
    BY <2>1, <2>2 DEF ReplyInv, RetryInv, Rejections
<1>12. CASE Append_Conflict(r)
  <2>1. version[r] + 1 <= get_item_version(i) /\ retries[r] <= version[r]
    BY <1>1, <1>12, ConflictCounts DEF Append_Conflict, RetryInv
  <2>2. retries[r] \in Nat /\ version[r] \in Nat /\ MaxRetries \in Nat
    BY CommandAssumption
  <2>3. CASE Finish(r, "MAX_RETRIES_EXCEEDED") /\ retries[r] + 1 >= MaxRetries
    <3>1. StoredBy(r)' = {}
      BY <1>3, <1>4, <1>12 DEF Append_Conflict, Undecided, brokerVars
    <3>2. MaxRetries <= get_item_version(cmd[r].item)'
      <4>1. UNCHANGED cmd
        BY <2>3 DEF Finish
      <4> QED
        BY <1>1, <1>2, <1>12, <2>1, <2>2, <2>3, <4>1 DEF Append_Conflict
    <3> QED
      BY <2>3, <3>1, <3>2, FinishKept DEF Replies, Rejections
  <2>4. CASE /\ Goto(r, "read_version")
             /\ retries' = [retries EXCEPT ![r] = @ + 1]
    <3>1. retries'[r] <= get_item_version(i)'
      BY <1>2, <1>12, <2>1, <2>2, <2>4 DEF Append_Conflict
    <3>2. pc'[r] = "read_version" /\ cmd'[r].item = i /\ reply'[r] = "none"
      BY <1>1, <1>12, <2>4 DEF Append_Conflict, Goto, ReplyInv
    <3>3. ReplyInv(r)'
      BY <1>6, <1>12, <2>4 DEF Append_Conflict, Undecided, brokerVars
    <3> QED
      BY <3>1, <3>2, <3>3 DEF RetryInv
  <2> QED
    BY <1>12, <2>3, <2>4 DEF Append_Conflict
<1>13. CASE Send(r)
  <2>1. PICK e \in Event : e = EventOf(r) /\ e \in events /\ e.bidder = r
    BY <1>13, EventOfType DEF Send, ReplyInv
  <2>2. e \in StoredBy(r)'
    BY <1>13, <2>1 DEF Send, StoredBy
  <2>3. Published(e)'
    <3>1. PICK p \in Partitions : topic' = [topic EXCEPT ![p] = Append(@, e)]
      BY <1>13, <2>1 DEF Send, Produce, PartitionsFor
    <3>2. topic[p] \in Seq(Event)
      BY DEF BrokerTypeOK
    <3>3. /\ topic'[p] = Append(topic[p], e)
          /\ Len(topic[p]) + 1 \in DOMAIN topic'[p]
          /\ topic'[p][Len(topic[p]) + 1] = e
      BY <3>1, <3>2 DEF BrokerTypeOK
    <3> QED
      BY <3>3 DEF Published, Range
  <2>4. pc'[r] = "confirm" /\ reply'[r] = "none"
    BY <1>13 DEF Send, Goto, ReplyInv
  <2> QED
    BY <2>2, <2>3, <2>4 DEF ReplyInv, RetryInv, Rejections
<1>14. CASE Confirm(r) \/ Respond(r)
  <2>1. UNCHANGED <<events, topic>> /\ \E e \in StoredBy(r) : Published(e)
    BY <1>14 DEF Confirm, Respond, ReplyInv, brokerVars
  <2>2. \E e \in StoredBy(r)' : Published(e)'
    BY <1>3, <2>1
  <2>3. CASE Finish(r, "OK")
    BY <2>2, <2>3, FinishKept DEF Replies, Rejections
  <2>4. CASE pc[r] = "confirm" /\ Goto(r, "respond")
    <3>1. pc'[r] = "respond" /\ reply'[r] = "none"
      BY <2>4 DEF Goto, ReplyInv
    <3> QED
      BY <2>2, <3>1 DEF ReplyInv, RetryInv, Rejections
  <2> QED
    BY <1>14, <2>3, <2>4 DEF Confirm, Respond
<1> QED
  BY <1>7, <1>8, <1>9, <1>10, <1>11, <1>12, <1>13, <1>14 DEF RequestStep

LEMMA FaultKept ==
    ASSUME IInv, IInv', [Next]_vars, NEW r \in Requests, ReplyInv(r), RetryInv(r),
           RequestFault(r)
    PROVE  ReplyInv(r)' /\ RetryInv(r)'
<1>1. CASE ReadFails(r) \/ AppendFails(r) \/ SendFails(r)
  BY <1>1, FinishKept DEF ReadFails, AppendFails, SendFails, Replies, Rejections
<1>2. CASE Dropped(r)
  BY <1>2, FinishKept DEF Dropped, Replies, Rejections
<1>3. CASE SendAgain(r)
  BY <1>3, OthersKept DEF SendAgain, requestVars
<1> QED
  BY <1>1, <1>2, <1>3 DEF RequestFault

-----------------------------------------------------------------------------
(* The service.                                                            *)

LEMMA InitRequestInv == Init => RequestInv
BY DEF Init, BiddingInit, RequestInv, ReplyInv, RetryInv, Rejections

LEMMA NextRequestInv ==
    ASSUME IInv, IInv', RequestInv, [Next]_vars
    PROVE  RequestInv'
<1> SUFFICES ASSUME NEW q \in Requests
             PROVE  ReplyInv(q)' /\ RetryInv(q)'
  BY DEF RequestInv
<1>1. ReplyInv(q) /\ RetryInv(q)
  BY DEF RequestInv
<1>2. ASSUME UNCHANGED <<events, requestVars>>
      PROVE  ReplyInv(q)' /\ RetryInv(q)'
  BY <1>1, <1>2, OthersKept DEF requestVars
<1>3. ASSUME NEW r \in Requests, RequestStep(r) \/ RequestFault(r)
      PROVE  ReplyInv(q)' /\ RetryInv(q)'
  <2>1. CASE q = r
    BY <1>1, <1>3, <2>1, StepKept, FaultKept
  <2>2. CASE q # r
    <3>1. \A e \in events' \ events : e.bidder # q
      BY <1>3, <2>2, EventOfType DEF RequestStep, CheckPrice, CheckStart,
         ReadVersion, ReadItem, Decide, Append_Stored, Append_Conflict, Send,
         Confirm, Respond, Insert, RequestFault, ReadFails, AppendFails,
         SendFails, SendAgain, Dropped, IInv, TypeOK
    <3>2. /\ pc'[q] = pc[q] /\ cmd'[q] = cmd[q] /\ retries'[q] = retries[q]
          /\ version'[q] = version[q] /\ stamp'[q] = stamp[q]
          /\ reply'[q] = reply[q]
      BY <1>3, <2>2 DEF RequestStep, CheckPrice, CheckStart, ReadVersion,
         ReadItem, Decide, Append_Stored, Append_Conflict, Send, Confirm,
         Respond, RequestFault, ReadFails, AppendFails, SendFails, SendAgain,
         Dropped, Finish, Goto, requestVars, IInv, TypeOK, BiddingTypeOK
    <3> QED
      BY <1>1, <3>1, <3>2, OthersKept
  <2> QED
    BY <2>1, <2>2
<1>4. ASSUME NEW s \in Servers, RequestsCrash(s)
      PROVE  ReplyInv(q)' /\ RetryInv(q)'
  <2>1. CASE q \in InFlight(s)
    <3>1. pc'[q] = "done" /\ reply'[q] = "LOST"
      BY <1>4, <2>1 DEF RequestsCrash
    <3> QED
      BY <3>1 DEF ReplyInv, RetryInv, Rejections
  <2>2. CASE q \notin InFlight(s)
    BY <1>1, <1>4, <2>2, OthersKept DEF RequestsCrash
  <2> QED
    BY <2>1, <2>2
<1> QED
  BY <1>2, <1>3, <1>4 DEF Next, NormalStep, FaultStep, ClockTicks, ServeRequest,
     TakeMessage, ApplyMessage, CommitOffset, Schedule, FailRequest,
     DropMessage, FailUpdate, MovePartition, Crash, vars

\* RequestInv is an invariant of the service.
THEOREM RequestInvHolds == Spec => [](IInv /\ RequestInv)
<1>1. IInv /\ RequestInv /\ [Next]_vars => (IInv /\ RequestInv)'
  BY NextIInv, NextRequestInv
<1> QED
  BY <1>1, InitIInv, InitRequestInv, PTL DEF Spec

\* An OK is not given before the event is in the topic, a refusal leaves no
\* event behind, under every fault and for any number of requests.
THEOREM AnswersAreTruthful == Spec => []RepliesAreTruthful
<1>1. IInv /\ RequestInv => RepliesAreTruthful
  <2> SUFFICES ASSUME IInv, RequestInv, NEW r \in Requests
               PROVE  LET own == {e \in events : e.bidder = r}
                      IN  /\ reply[r] = "OK" => own # {} /\ \A e \in own : Published(e)
                          /\ reply[r] \in Rejections => own = {}
    BY DEF RepliesAreTruthful
  <2>1. ReplyInv(r)
    BY DEF RequestInv
  <2>2. \A e, f \in StoredBy(r) : e = f
    BY DEF IInv, LogInv, OneEventPerRequest, StoredBy
  <2> QED
    BY <2>1, <2>2 DEF ReplyInv, StoredBy
<1> QED
  BY <1>1, RequestInvHolds, PTL

\* A request that has stored nothing has a rival for every event of its item.
LEMMA RivalForEveryVersion ==
    ASSUME IInv, NEW r \in Requests, StoredBy(r) = {},
           NEW n \in Nat, n = get_item_version(cmd[r].item)
    PROVE  Cardinality(Rivals(r)) = n
<1>1. PICK i \in Items : i = cmd[r].item
  BY CommandParts DEF IInv, TypeOK
<1>2. Versions(i) = 1 .. n
  BY <1>1 DEF IInv, LogInv, LogIsGapless
<1> DEFINE at(v) == CHOOSE e \in events : e.item = i /\ e.version = v
           f == [v \in 1 .. n |-> at(v).bidder]
<1>3. \A v \in 1 .. n : at(v) \in events /\ at(v).item = i /\ at(v).version = v
  BY <1>2 DEF Versions
<1>4. f \in [1 .. n -> Rivals(r)]
  <2>1. \A v \in 1 .. n : at(v).bidder \in Requests \ {r}
    BY <1>3 DEF IInv, TypeOK, Event, StoredBy
  <2>2. \A v \in 1 .. n : at(v).bidder \in Rivals(r)
    <3> HIDE DEF at
    <3> QED
      BY <1>1, <1>3, <2>1 DEF Rivals
  <2> HIDE DEF at
  <2> QED
    BY <2>2
<1>5. f \in Injection(1 .. n, Rivals(r))
  <2>1. \A v, w \in 1 .. n : at(v).bidder = at(w).bidder => v = w
    BY <1>3 DEF IInv, LogInv, OneEventPerRequest
  <2> HIDE DEF at
  <2> QED
    BY <1>4, <2>1 DEF Injection, IsInjective
<1>6. f \in Surjection(1 .. n, Rivals(r))
  <2>1. ASSUME NEW q \in Rivals(r)
        PROVE  \E v \in 1 .. n : f[v] = q
    <3>1. PICK e \in events : e.bidder = q /\ e.item = i
      BY <1>1 DEF Rivals
    <3>2. e.version \in 1 .. n
      BY <1>2, <3>1 DEF Versions
    <3>3. at(e.version) = e
      BY <1>3, <3>1, <3>2 DEF IInv, LogInv, LogIsUnique
    <3> QED
      BY <3>1, <3>2, <3>3
  <2> HIDE DEF f
  <2> QED
    BY <1>4, <2>1 DEF Surjection
<1>7. ExistsBijection(1 .. n, Rivals(r))
  BY <1>5, <1>6 DEF ExistsBijection, Bijection
<1> QED
  BY <1>7, FS_CountingElements

\* A request gives up only after it has lost to MAX_RETRIES others.
THEOREM RivalsExhaustRetries == Spec => []RetriesSuffice
<1>1. IInv /\ RequestInv => RetriesSuffice
  <2> SUFFICES ASSUME IInv, RequestInv, NEW r \in Requests,
                      reply[r] = "MAX_RETRIES_EXCEEDED"
               PROVE  Cardinality(Rivals(r)) >= MaxRetries
    BY DEF RetriesSuffice
  <2>1. StoredBy(r) = {} /\ MaxRetries <= get_item_version(cmd[r].item)
    BY DEF RequestInv, ReplyInv, RetryInv, Rejections
  <2>2. PICK n \in Nat : n = get_item_version(cmd[r].item)
    BY CommandParts DEF IInv, TypeOK, LogInv, LogIsGapless
  <2>3. Cardinality(Rivals(r)) = n
    BY <2>1, <2>2, RivalForEveryVersion
  <2> QED
    BY <2>1, <2>2, <2>3, CommandAssumption
<1> QED
  BY <1>1, RequestInvHolds, PTL

-----------------------------------------------------------------------------
(* What is left of EveryRequestAnswered but the fairness.                  *)

\* Steps that a request still has before its answer, at most.
Rank(r) ==
    IF pc[r] = "done" THEN 0
    ELSE 4 * (MaxRetries - retries[r]) +
         (CASE pc[r] = "arrive"       -> 8
            [] pc[r] = "read_version" -> 7
            [] pc[r] = "read_item"    -> 6
            [] pc[r] = "decide"       -> 5
            [] pc[r] = "append"       -> 4
            [] pc[r] = "send"         -> 3
            [] pc[r] = "confirm"      -> 2
            [] pc[r] = "respond"      -> 1)

RunsDown(r) == Rank(r)' \in 0 .. (Rank(r) - 1)

Unmoved(r) == pc'[r] = pc[r] /\ retries'[r] = retries[r]

RetriesBounded == \A r \in Requests : retries[r] <= MaxRetries

LEMMA RanksAre ==
    ASSUME IInv, RetriesBounded, NEW r \in Requests
    PROVE  Rank(r) \in Nat /\ (pc[r] = "done" <=> Rank(r) = 0)
<1>1. /\ pc[r] \in Labels /\ retries[r] \in Nat /\ MaxRetries \in Nat
      /\ retries[r] <= MaxRetries
  BY CommandAssumption DEF IInv, TypeOK, BiddingTypeOK, RetriesBounded
<1> QED
  BY <1>1 DEF Rank, Labels

\* A step of the handler lowers its rank: it moves on to the next await, turns
\* with one retry less, or answers.
LEMMA StepRunsDown ==
    ASSUME IInv, RetriesBounded, NEW r \in Requests, RequestStep(r)
    PROVE  RunsDown(r) /\ retries'[r] <= MaxRetries
<1>1. /\ pc \in [Requests -> Labels] /\ retries \in [Requests -> Nat]
      /\ retries[r] <= MaxRetries /\ MaxRetries \in Nat
  BY CommandAssumption DEF IInv, TypeOK, BiddingTypeOK, RetriesBounded
<1>2. pc[r] # "done"
  BY DEF RequestStep, CheckPrice, CheckStart, ReadVersion, ReadItem, Decide,
     Append_Stored, Append_Conflict, Send, Confirm, Respond
<1>3. Rank(r) \in Nat \ {0}
  BY <1>2, RanksAre
<1>4. CASE \E answer \in Replies : Finish(r, answer)
  <2>1. pc'[r] = "done" /\ retries'[r] = 0
    BY <1>1, <1>4 DEF Finish
  <2>2. Rank(r)' = 0
    BY <2>1 DEF Rank
  <2> QED
    BY <1>1, <1>3, <2>1, <2>2 DEF RunsDown
<1>5. CASE /\ retries[r] + 1 < MaxRetries /\ pc[r] = "append"
           /\ retries' = [retries EXCEPT ![r] = @ + 1]
           /\ pc' = [pc EXCEPT ![r] = "read_version"]
  BY <1>1, <1>5 DEF RunsDown, Rank
<1>6. ASSUME UNCHANGED retries,
             \E labels \in {<<"arrive", "read_version">>,
                            <<"read_version", "read_item">>,
                            <<"read_item", "decide">>, <<"decide", "append">>,
                            <<"append", "send">>, <<"send", "confirm">>,
                            <<"confirm", "respond">>} :
                 pc[r] = labels[1] /\ pc'[r] = labels[2]
      PROVE  RunsDown(r) /\ retries'[r] <= MaxRetries
  BY <1>1, <1>6 DEF RunsDown, Rank
<1>7. CASE CheckPrice(r) \/ CheckStart(r)
  BY <1>1, <1>4, <1>6, <1>7 DEF CheckPrice, CheckStart, Goto, Replies, Rejections
<1>8. CASE ReadVersion(r) \/ ReadItem(r)
  BY <1>1, <1>6, <1>8 DEF ReadVersion, ReadItem, Goto
<1>9. CASE Decide(r)
  BY <1>1, <1>4, <1>6, <1>9 DEF Decide, Goto, Replies, Rejections
<1>10. CASE Append_Stored(r) \/ Send(r)
  BY <1>1, <1>6, <1>10 DEF Append_Stored, Send, Goto
<1>11. CASE Append_Conflict(r)
  BY <1>1, <1>4, <1>5, <1>11 DEF Append_Conflict, Goto, Replies, Rejections
<1>12. CASE Confirm(r) \/ Respond(r)
  BY <1>1, <1>4, <1>6, <1>12 DEF Confirm, Respond, Goto, Replies
<1> QED
  BY <1>7, <1>8, <1>9, <1>10, <1>11, <1>12 DEF RequestStep

\* A fault ends the request, or leaves it where it is.
LEMMA FaultRunsDown ==
    ASSUME IInv, RetriesBounded, NEW r \in Requests,
           \/ RequestFault(r)
           \/ \E s \in Servers : RequestsCrash(s)
    PROVE  (RunsDown(r) \/ Unmoved(r)) /\ retries'[r] <= MaxRetries
<1>1. /\ pc \in [Requests -> Labels] /\ retries \in [Requests -> Nat]
      /\ retries[r] <= MaxRetries /\ MaxRetries \in Nat
  BY CommandAssumption DEF IInv, TypeOK, BiddingTypeOK, RetriesBounded
<1>2. ASSUME pc[r] # "done", pc'[r] = "done", retries'[r] = 0
      PROVE  RunsDown(r) /\ retries'[r] <= MaxRetries
  <2>1. Rank(r) \in Nat \ {0} /\ Rank(r)' = 0
    BY <1>2, RanksAre DEF Rank
  <2> QED
    BY <1>1, <1>2, <2>1 DEF RunsDown
<1>3. CASE ReadFails(r) \/ AppendFails(r) \/ SendFails(r) \/ Dropped(r)
  BY <1>1, <1>2, <1>3 DEF ReadFails, AppendFails, SendFails, Dropped, Finish
<1>4. CASE SendAgain(r)
  BY <1>1, <1>4 DEF SendAgain, requestVars, Unmoved
<1>5. ASSUME NEW s \in Servers, RequestsCrash(s)
      PROVE  (RunsDown(r) \/ Unmoved(r)) /\ retries'[r] <= MaxRetries
  <2>1. CASE r \in InFlight(s)
    BY <1>2, <1>5, <2>1 DEF RequestsCrash, InFlight
  <2>2. CASE r \notin InFlight(s)
    BY <1>1, <1>5, <2>2 DEF RequestsCrash, Unmoved
  <2> QED
    BY <2>1, <2>2
<1> QED
  BY <1>3, <1>4, <1>5 DEF RequestFault

LEMMA NextRunsDown ==
    ASSUME IInv, RetriesBounded, [Next]_vars
    PROVE  /\ RetriesBounded'
           /\ \A r \in Requests : /\ ServeRequest(r) => RunsDown(r)
                                  /\ RunsDown(r) \/ Unmoved(r)
<1> SUFFICES ASSUME NEW r \in Requests
             PROVE  /\ retries'[r] <= MaxRetries
                    /\ ServeRequest(r) => RunsDown(r)
                    /\ RunsDown(r) \/ Unmoved(r)
  BY DEF RetriesBounded
<1>1. retries[r] <= MaxRetries
  BY DEF RetriesBounded
<1>2. CASE RequestStep(r)
  BY <1>2, StepRunsDown DEF ServeRequest
<1>3. CASE RequestFault(r) \/ \E s \in Servers : RequestsCrash(s)
  BY <1>2, <1>3, FaultRunsDown DEF ServeRequest
<1>4. CASE UNCHANGED requestVars
  BY <1>1, <1>2, <1>4 DEF requestVars, Unmoved, ServeRequest
<1>5. ASSUME NEW q \in Requests \ {r}, RequestStep(q) \/ RequestFault(q)
      PROVE  Unmoved(r)
  BY <1>5 DEF RequestStep, CheckPrice, CheckStart, ReadVersion, ReadItem,
     Decide, Append_Stored, Append_Conflict, Send, Confirm, Respond,
     RequestFault, ReadFails, AppendFails, SendFails, SendAgain, Dropped,
     Finish, Goto, requestVars, Unmoved, IInv, TypeOK, BiddingTypeOK
<1>6. \/ UNCHANGED requestVars
      \/ \E q \in Requests : RequestStep(q) \/ RequestFault(q)
      \/ \E s \in Servers : RequestsCrash(s)
  BY DEF Next, NormalStep, FaultStep, ClockTicks, ServeRequest, TakeMessage,
     ApplyMessage, CommitOffset, Schedule, FailRequest, DropMessage,
     FailUpdate, MovePartition, Crash, vars
<1>7. Unmoved(r) => retries'[r] <= MaxRetries
  BY <1>1 DEF Unmoved
<1> QED
  BY <1>2, <1>3, <1>4, <1>5, <1>6, <1>7 DEF ServeRequest

\* A request makes at most 4 * MAX_RETRIES + 8 steps before its answer: each
\* lowers its rank, and neither rivals nor faults raise it again.  That it
\* makes them at all is what fairness adds for EveryRequestAnswered.
THEOREM RequestsRunDown ==
    Spec => [][\A r \in Requests : /\ ServeRequest(r) => RunsDown(r)
                                   /\ RunsDown(r) \/ Unmoved(r)]_vars
<1>1. Init => RetriesBounded
  BY CommandAssumption DEF Init, BiddingInit, RetriesBounded
<1>2. IInv /\ RetriesBounded /\ [Next]_vars => RetriesBounded'
  BY NextRunsDown
<1>3. IInv /\ RetriesBounded /\ [Next]_vars
      => [\A r \in Requests : /\ ServeRequest(r) => RunsDown(r)
                              /\ RunsDown(r) \/ Unmoved(r)]_vars
  BY NextRunsDown
<1> QED
  BY <1>1, <1>2, <1>3, IInvHolds, PTL DEF Spec
=============================================================================
