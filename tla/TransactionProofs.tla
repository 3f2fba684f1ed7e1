--------------------------- MODULE TransactionProofs ---------------------------
(***************************************************************************)
(* Proofs of what TransactionProperties states, for any number of servers, *)
(* items and events and for pools of any size: statement by statement,     *)
(* under row locks, the tables see the writes of ReadModelProofs only.     *)
(***************************************************************************)
EXTENDS TransactionProperties, ReadModelProofs, FiniteSetTheorems

\* Consumers have a connection and a message exactly between BEGIN and the end
\* of the transaction, and a lock only on a row that the UPDATE still finds.
ConsumerInv(s) ==
    /\ stage[s] = "idle" <=> conn[Consumer(s)] = "none"
    /\ stage[s] = "idle" <=> job[s] = {}
    /\ stage[s] \in {"insert", "commit"} => conn[Consumer(s)] = "held"
    /\ \A e, f \in job[s] : e = f
    /\ \A e \in job[s] : Stored(e)
    /\ locked[Consumer(s)] # {} =>
           /\ stage[s] \in {"insert", "commit"}
           /\ \A e \in job[s] : locked[Consumer(s)] = {e.item} /\ Hits(e)

\* The due times that the statement of a scheduler compares.
DueTimes(s) == IF phase[s] = "start_due" THEN StartTime ELSE EndTime

\* A scheduler has visited, or is about to visit, items that are due only; and
\* the first UPDATE misses none of them, since none becomes SCHEDULED.
SchedulerInv(s) ==
    /\ phase[s] = "asleep" <=> conn[Updater(s)] = "none"
    /\ asof[s] <= now
    /\ conn[Updater(s)] # "held" => todo[s] = {} /\ locked[Updater(s)] = {}
    /\ \A i \in todo[s] \cup locked[Updater(s)] : DueTimes(s)[i] <= asof[s]
    /\ conn[Updater(s)] = "held" /\ phase[s] = "start_due" =>
           Due("SCHEDULED", StartTime, asof[s])
               \subseteq todo[s] \cup locked[Updater(s)]

\* Readers lock nothing and do not queue for a connection with one in hand.
ReaderInv(s) == locked[Reader(s)] = {} /\ conn[Reader(s)] # "wanted"

LocksExclude == \A t, u \in Tasks : t # u => locked[t] \cap locked[u] = {}

\* Nobody has been shown more than the price.
ShownBelowPrice == \A i \in Items : told[i] <= current_price[i]

\* Inductive for the statements.
TxInv ==
    /\ TypeOK
    /\ TablesInv
    /\ LocksExclude
    /\ \A s \in Servers : ConsumerInv(s) /\ SchedulerInv(s) /\ ReaderInv(s)
    /\ ShownBelowPrice

-----------------------------------------------------------------------------
(* Tasks and their connections.                                            *)

\* Every server has three tasks.
LEMMA TasksOf ==
    /\ \A s \in Servers : /\ Consumer(s) \in Tasks /\ Consumer(s).server = s
                          /\ Updater(s) \in Tasks /\ Updater(s).server = s
                          /\ Reader(s) \in Tasks /\ Reader(s).server = s
    /\ \A s, u : /\ Consumer(s) # Updater(u)
                 /\ Consumer(s) # Reader(u)
                 /\ Updater(s) # Reader(u)
                 /\ s # u => /\ Consumer(s) # Consumer(u)
                             /\ Updater(s) # Updater(u)
                             /\ Reader(s) # Reader(u)
    /\ \A t \in Tasks : /\ t.server \in Servers
                        /\ t \in {Consumer(t.server), Updater(t.server),
                                  Reader(t.server)}
<1>1. \A s \in Servers : /\ Consumer(s) \in Tasks /\ Consumer(s).server = s
                         /\ Updater(s) \in Tasks /\ Updater(s).server = s
                         /\ Reader(s) \in Tasks /\ Reader(s).server = s
  BY DEF Tasks, Consumer, Updater, Reader
<1>2. \A s : /\ Consumer(s).role = "consumer" /\ Consumer(s).server = s
             /\ Updater(s).role = "scheduler" /\ Updater(s).server = s
             /\ Reader(s).role = "reader" /\ Reader(s).server = s
  BY DEF Consumer, Updater, Reader
<1>3. \A t \in Tasks : /\ t.server \in Servers
                       /\ t \in {Consumer(t.server), Updater(t.server),
                                 Reader(t.server)}
  BY DEF Tasks, Consumer, Updater, Reader
<1> QED
  BY <1>1, <1>2, <1>3

Held(s) == {t \in Tasks : t.server = s /\ conn[t] = "held"}

LEMMA HeldFinite ==
    ASSUME NEW s \in Servers
    PROVE  IsFiniteSet(Held(s)) /\ IsFiniteSet(Held(s)')
<1> DEFINE three == {Consumer(s), Updater(s), Reader(s)}
<1>1. IsFiniteSet(three)
  <2>1. IsFiniteSet({Consumer(s)})
    BY FS_Singleton
  <2>2. IsFiniteSet({Consumer(s)} \cup {Updater(s)})
    BY <2>1, FS_AddElement
  <2>3. IsFiniteSet(({Consumer(s)} \cup {Updater(s)}) \cup {Reader(s)})
    BY <2>2, FS_AddElement
  <2>4. three = ({Consumer(s)} \cup {Updater(s)}) \cup {Reader(s)}
    OBVIOUS
  <2> QED
    BY <2>3, <2>4
<1>2. Held(s) \in SUBSET three /\ Held(s)' \in SUBSET three
  BY TasksOf DEF Held
<1> HIDE DEF three
<1> QED
  BY <1>1, <1>2, FS_Subset

Connections == [Tasks -> {"none", "wanted", "held"}]

PoolOK ==
    /\ conn \in Connections
    /\ \A s \in Servers : Cardinality(Held(s)) <= PoolSize

\* A pool never gives out more connections than it has.
LEMMA PoolKept ==
    ASSUME PoolOK, NEW t \in Tasks, NEW v \in {"none", "wanted", "held"},
           conn' = [conn EXCEPT ![t] = v],
           v = "held" => ~PoolFull(t.server)
    PROVE  PoolOK'
<1> USE DEF PoolOK
<1>1. conn' \in Connections
  BY DEF Connections
<1>2. ASSUME NEW s \in Servers PROVE Cardinality(Held(s)') <= PoolSize
  <2>1. /\ IsFiniteSet(Held(s)) /\ Cardinality(Held(s)) \in Nat
        /\ IsFiniteSet(Held(s)') /\ Cardinality(Held(s)') \in Nat
    BY HeldFinite, FS_CardinalityType
  <2>2. CASE v = "held" /\ s = t.server
    <3>1. Held(s)' = Held(s) \cup {t}
      BY <2>2 DEF Held, Connections
    <3>2. Cardinality(Held(s)') <= Cardinality(Held(s)) + 1
      BY <2>1, <3>1, FS_AddElement
    <3>3. Cardinality(Held(s)) < PoolSize
      BY <2>1, <2>2, PoolAssumption DEF PoolFull, Held
    <3> QED
      BY <2>1, <3>2, <3>3, PoolAssumption
  <2>3. CASE ~(v = "held" /\ s = t.server)
    <3>1. Held(s)' \in SUBSET Held(s)
      BY <2>3 DEF Held, Connections
    <3>2. Cardinality(Held(s)') <= Cardinality(Held(s))
      BY <2>1, <3>1, FS_Subset
    <3> QED
      BY <2>1, <3>2, PoolAssumption
  <2> QED
    BY <2>2, <2>3
<1> QED
  BY <1>1, <1>2

-----------------------------------------------------------------------------
(* The answers of the read side.                                           *)

\* No answer shows more than current_price, and each shows that of an item
\* with bids, which only the endpoints of bids do not show without any.
LEMMA PricesAreUpToDate ==
    ASSUME TablesTypeOK, BidHistoryAscends, NEW ep \in Endpoints, NEW i \in Items
    PROVE  /\ \A p \in PricesShown(ep, i) : p \in Int /\ p <= current_price[i]
           /\ PricesShown(ep, i) = {} \/ current_price[i] \in PricesShown(ep, i)
           /\ bids[i] # <<>> => current_price[i] \in PricesShown(ep, i)
           /\ bids[i] = <<>> => current_price[i] = StartingPrice[i]
<1> DEFINE h == bids[i]
           p == current_price[i]
<1>1. p \in Int /\ h \in Seq(Bid)
  BY DEF TablesTypeOK, ReadModelTypeOK
<1>2. \A k \in DOMAIN h : h[k].amount \in Int /\ h[k].amount <= p
  BY LastIsHighest
<1>3. h = <<>> => p = StartingPrice[i]
  BY DEF BidHistoryAscends
<1>4. h # <<>> => Len(h) \in DOMAIN h /\ h[Len(h)].amount = p
  BY <1>1 DEF BidHistoryAscends
<1>5. Amounts(i) = {h[k].amount : k \in DOMAIN h}
  BY DEF Amounts, Range
<1>6. /\ \A a \in Amounts(i) : a \in Int /\ a <= p
      /\ h # <<>> => p \in Amounts(i)
      /\ h = <<>> => Amounts(i) = {}
  <2> HIDE DEF h, p
  <2> QED
    BY <1>2, <1>4, <1>5
<1>7. /\ \A a \in get_highest_bid(i) : a \in Int /\ a <= p
      /\ h # <<>> => p \in get_highest_bid(i)
      /\ h = <<>> => get_highest_bid(i) = {}
  BY <1>6 DEF get_highest_bid
<1>8. CASE ep \in ItemEndpoints
  <2>1. PricesShown(ep, i) = {p}
    BY <1>8 DEF PricesShown, get_item, ItemEndpoints, BidEndpoints
  <2> QED
    BY <1>1, <1>3, <2>1
<1>9. CASE ep \in BidEndpoints
  <2>1. PricesShown(ep, i) = Amounts(i)
    BY <1>9 DEF PricesShown, ItemEndpoints, BidEndpoints
  <2> QED
    BY <1>3, <1>6, <2>1
<1>10. CASE ep = "highest_bid"
  <2>1. PricesShown(ep, i) = get_highest_bid(i)
    BY <1>10 DEF PricesShown, ItemEndpoints, BidEndpoints
  <2> QED
    BY <1>3, <1>7, <2>1
<1> QED
  BY <1>8, <1>9, <1>10 DEF Endpoints

LEMMA TypeGives ==
    ASSUME TypeOK
    PROVE  TablesTypeOK
BY StoredEventsAssumption DEF ValidLog, TypeOK, TablesTypeOK

\* What a client is shown is a price, and not more than the current one.
LEMMA AnswerShows ==
    ASSUME TypeOK, TablesInv, ShownBelowPrice,
           NEW s \in Servers, Answer(s), UNCHANGED itemVars
    PROVE  told' \in [Items -> Int] /\ broken' \subseteq Asked /\ ShownBelowPrice'
<1>1. CASE UNCHANGED told /\ \E ep \in Asked : broken' = broken \cup {ep}
  BY <1>1 DEF TypeOK, ShownBelowPrice, itemVars
<1>2. ASSUME NEW ep \in Asked, NEW i \in Items, UNCHANGED broken,
             told' = [told EXCEPT ![i] = Max({@} \cup PricesShown(ep, i))]
      PROVE  told' \in [Items -> Int] /\ broken' \subseteq Asked /\ ShownBelowPrice'
  <2> DEFINE shown == PricesShown(ep, i)
             p == current_price[i]
             top == Max({told[i]} \cup shown)
  <2>1. /\ told[i] \in Int /\ p \in Int /\ told[i] <= p
        /\ shown \subseteq Int /\ \A a \in shown : a <= p
        /\ shown = {} \/ p \in shown
    <3>1. ep \in Endpoints
      BY AskedAssumption
    <3>2. /\ \A a \in shown : a \in Int /\ a <= p
          /\ shown = {} \/ p \in shown
      BY <3>1, TypeGives, PricesAreUpToDate DEF TablesInv
    <3> QED
      BY <3>2 DEF TypeOK, ReadModelTypeOK, ShownBelowPrice
  <2> HIDE DEF shown, p
  <2>2. top \in Int /\ top <= p
    <3>1. shown = {} => top = told[i]
      <4>1. Max({told[i]}) = told[i]
        BY <2>1, MaxIs
      <4> QED
        BY <4>1
    <3>2. p \in shown => top = p
      BY <2>1, MaxIs
    <3> QED
      BY <2>1, <3>1, <3>2
  <2>3. told' = [told EXCEPT ![i] = top]
    BY <1>2 DEF shown
  <2> HIDE DEF top
  <2> QED
    BY <1>2, <2>2, <2>3 DEF TypeOK, ShownBelowPrice, itemVars, p
<1> QED
  BY <1>1, <1>2 DEF Answer

-----------------------------------------------------------------------------
(* What the statements write.                                              *)

\* A transaction of a consumer that has a lock amounts to its handler, and one
\* that has none to nothing: the row still is as its UPDATE found it.
LEMMA ConsumerWrites ==
    ASSUME TxInv, NEW s \in Servers, ConsumerStep(s)
    PROVE  UNCHANGED itemVars \/ \E e \in events : Handles(e)
<1>1. CASE Commit(s)
  <2>1. PICK e \in job[s] :
            \/ locked[Consumer(s)] = {} /\ UNCHANGED itemVars
            \/ /\ locked[Consumer(s)] # {}
               /\ current_price' = [current_price EXCEPT ![e.item] = e.amount]
               /\ status' = [status EXCEPT ![e.item] =
                                IF e.kind = "BuyNowExecuted" THEN "COMPLETED" ELSE @]
               /\ RecordBid(e)
    BY <1>1 DEF Commit, Written, RecordBid
  <2>2. /\ e \in events /\ e \in Event /\ e.item \in Items
        /\ e.kind \in {"BidPlaced", "BuyNowExecuted"}
        /\ status \in [Items -> Statuses]
    BY <2>1, StoredEventsAssumption
    DEF ValidLog, TxInv, TypeOK, ReadModelTypeOK, Event
  <2>3. CASE locked[Consumer(s)] # {}
    <3>1. Hits(e) /\ Stored(e)
      BY <2>1, <2>3 DEF TxInv, ConsumerInv
    <3>2. Recorded(e)
      BY <2>1, <2>3, <3>1 DEF Recorded, Hits
    <3>3. CASE e.kind = "BidPlaced"
      <4>1. status' = status
        BY <2>1, <2>2, <2>3, <3>3
      <4> QED
        BY <3>1, <3>2, <3>3, <4>1 DEF Handles, Stored, ConsumerStep
    <3>4. CASE e.kind = "BuyNowExecuted"
      <4>1. status' = [status EXCEPT ![e.item] = "COMPLETED"]
        BY <2>1, <2>3, <3>4
      <4> QED
        BY <3>1, <3>2, <3>4, <4>1 DEF Handles, Stored, Hits, ConsumerStep
    <3> QED
      BY <2>2, <3>3, <3>4, <3>1, <3>2
  <2> QED
    BY <2>1, <2>3
<1> QED
  BY <1>1 DEF ConsumerStep, Begin, BeginAcquires, UpdateRow, InsertBid,
     Rollback

\* The rows that an UPDATE of a scheduler has locked and found again are due;
\* for the first UPDATE they are all that are.
LEMMA SchedulerWrites ==
    ASSUME TxInv, NEW s \in Servers, StatementStep(s)
    PROVE  \/ UNCHANGED itemVars
           \/ /\ asof[s] \in 0 .. now
              /\ \/ Opens(Due("SCHEDULED", StartTime, asof[s]), asof[s])
                 \/ \E S \in SUBSET Items : Closes(S, asof[s])
<1>1. CASE StatementEnds(s)
  <2>1. asof[s] \in 0 .. now
    BY DEF TxInv, SchedulerInv, TypeOK, SchedulerTypeOK, ReadModelTypeOK
  <2>2. /\ \A i \in locked[Updater(s)] : DueTimes(s)[i] <= asof[s]
        /\ locked[Updater(s)] \subseteq Items
        /\ SetStatus(StillSelected(s), Target(s)[2])
        /\ UNCHANGED <<current_price, bids, now>>
    BY <1>1, TasksOf DEF TxInv, SchedulerInv, TypeOK, StatementEnds, StatementStep
  <2>3. CASE phase[s] = "start_due"
    <3>1. Target(s) = <<"SCHEDULED", "ACTIVE">> /\ DueTimes(s) = StartTime
      BY <2>3 DEF Target, DueTimes
    <3>2. Due("SCHEDULED", StartTime, asof[s]) \subseteq locked[Updater(s)]
      BY <1>1, <2>3 DEF TxInv, SchedulerInv, StatementEnds
    <3>3. StillSelected(s) = Due("SCHEDULED", StartTime, asof[s])
      BY <2>2, <3>1, <3>2 DEF StillSelected, Due
    <3> QED
      BY <2>1, <2>2, <3>1, <3>3 DEF Opens
  <2>4. CASE phase[s] = "end_due"
    <3>1. Target(s) = <<"ACTIVE", "COMPLETED">> /\ DueTimes(s) = EndTime
      BY <2>4 DEF Target, DueTimes
    <3>2. StillSelected(s) \subseteq Due("ACTIVE", EndTime, asof[s])
      BY <2>2, <3>1 DEF StillSelected, Due
    <3>3. StillSelected(s) \in SUBSET Items
      BY <2>2 DEF StillSelected
    <3>4. Closes(StillSelected(s), asof[s])
      BY <2>2, <3>1, <3>2 DEF Closes
    <3> QED
      BY <2>1, <3>3, <3>4
  <2> QED
    BY <1>1, <2>3, <2>4 DEF StatementEnds
<1> QED
  BY <1>1 DEF StatementStep, TickFires, Wake, StatementStarts, VisitRow,
     StatementFails

\* So nothing but the writes of ReadModelProofs happens to the tables.
LEMMA StatementsAreTablesSteps ==
    ASSUME TxInv, Next
    PROVE  TablesStep /\ events' = events
<1>1. CASE Tick /\ UNCHANGED <<events, schedulerVars, txVars, clientVars>>
  BY <1>1 DEF Tick, TablesStep
<1>2. ASSUME NEW s \in Servers, ConsumerStep(s) PROVE TablesStep /\ events' = events
  BY <1>2, ConsumerWrites DEF TablesStep, ConsumerStep
<1>3. ASSUME NEW s \in Servers, StatementStep(s) PROVE TablesStep /\ events' = events
  <2>1. \A t : Due("SCHEDULED", StartTime, t) \in SUBSET Items
    BY DEF Due
  <2> QED
    BY <1>3, <2>1, SchedulerWrites DEF TablesStep, StatementStep
<1>4. ASSUME NEW s \in Servers, QueryStep(s) PROVE TablesStep /\ events' = events
  BY <1>4 DEF TablesStep, QueryStep
<1> QED
  BY <1>1, <1>2, <1>3, <1>4 DEF Next

\* Their type and their invariant survive, and they go forward.
LEMMA StatementsKeepTables ==
    ASSUME TxInv, Next
    PROVE  TablesTypeOK' /\ TablesInv' /\ Forward
<1>1. TablesStep /\ events' = events
  BY StatementsAreTablesSteps
<1>2. TablesTypeOK
  BY TypeGives DEF TxInv
<1>3. TablesTypeOK'
  BY <1>1, <1>2, TablesTypeKept DEF TablesTypeOK
<1>4. ValidLog(events)'
  BY <1>1 DEF TxInv, TablesInv, ValidLog, Valid
<1> QED
  BY <1>1, <1>2, <1>3, <1>4, TablesKept, TablesGoForward DEF TxInv

-----------------------------------------------------------------------------
(* What a statement does to the tasks.                                     *)

\* The part of the type that is about tasks.
TasksTypeOK ==
    /\ SchedulerTypeOK
    /\ PoolOK
    /\ job \in [Servers -> SUBSET StoredEvents]
    /\ stage \in [Servers -> {"idle", "update", "insert", "commit"}]
    /\ locked \in [Tasks -> SUBSET Items]
    /\ todo \in [Servers -> SUBSET Items]

LEMMA TypeParts ==
    TypeOK <=> /\ ReadModelTypeOK
               /\ TasksTypeOK
               /\ events = StoredEvents
               /\ told \in [Items -> Int]
               /\ broken \subseteq Asked
BY DEF TypeOK, TasksTypeOK, PoolOK, Held, Connections

\* A step of task t leaves alone what the others have, their rows included.
Apart(t) ==
    /\ \A u \in Tasks \ {t} : conn'[u] = conn[u] /\ locked'[u] = locked[u]
    /\ \A i \in Items \ locked[t] :
          current_price'[i] = current_price[i] /\ status'[i] = status[i]
    /\ \A s \in Servers :
          /\ Consumer(s) # t => stage'[s] = stage[s] /\ job'[s] = job[s]
          /\ Updater(s) # t =>
                phase'[s] = phase[s] /\ asof'[s] = asof[s] /\ todo'[s] = todo[s]

\* So their part of the invariant survives it.
LEMMA OthersKept ==
    ASSUME TxInv, Forward, TablesTypeOK', events' = events,
           NEW t \in Tasks, Apart(t), NEW s \in Servers
    PROVE  /\ Consumer(s) # t => ConsumerInv(s)'
           /\ Updater(s) # t => SchedulerInv(s)'
           /\ Reader(s) # t => ReaderInv(s)'
<1>1. now \in Nat /\ now' \in Nat /\ now <= now' /\ StoredEvents \subseteq Event
  BY StoredEventsAssumption
  DEF ValidLog, TxInv, TypeOK, TablesTypeOK, ReadModelTypeOK, Forward
<1>2. ASSUME Consumer(s) # t PROVE ConsumerInv(s)'
  <2>1. /\ stage'[s] = stage[s] /\ job'[s] = job[s]
        /\ conn'[Consumer(s)] = conn[Consumer(s)]
        /\ locked'[Consumer(s)] = locked[Consumer(s)]
        /\ ConsumerInv(s)
    BY <1>2, TasksOf DEF Apart, TxInv
  <2>2. \A e \in job[s] : e \in Event /\ e.item \in Items /\ e.time \in Nat
    BY <1>1 DEF TxInv, TypeOK, Event
  <2>3. \A e \in job[s] : Stored(e) => Stored(e)'
    BY <1>1, <2>2 DEF Stored, Forward
  <2>4. ASSUME NEW e \in job[s], locked[Consumer(s)] = {e.item}, Hits(e)
        PROVE  Hits(e)'
    <3>1. e.item \notin locked[t]
      BY <1>2, <2>4, TasksOf DEF TxInv, LocksExclude
    <3>2. current_price'[e.item] = current_price[e.item] /\ status'[e.item] = status[e.item]
      BY <2>2, <3>1 DEF Apart
    <3> QED
      BY <2>4, <3>2 DEF Hits
  <2> QED
    BY <2>1, <2>3, <2>4 DEF ConsumerInv
<1>3. ASSUME Updater(s) # t PROVE SchedulerInv(s)'
  <2>1. /\ phase'[s] = phase[s] /\ asof'[s] = asof[s] /\ todo'[s] = todo[s]
        /\ conn'[Updater(s)] = conn[Updater(s)]
        /\ locked'[Updater(s)] = locked[Updater(s)]
        /\ SchedulerInv(s) /\ asof[s] \in Nat
    BY <1>3, TasksOf DEF Apart, TxInv, TypeOK, SchedulerTypeOK
  <2>2. Due("SCHEDULED", StartTime, asof[s])' \subseteq Due("SCHEDULED", StartTime, asof[s])
    BY <2>1 DEF Due, Forward
  <2>3. DueTimes(s)' = DueTimes(s)
    BY <2>1 DEF DueTimes
  <2> QED
    BY <1>1, <2>1, <2>2, <2>3 DEF SchedulerInv
<1>4. ASSUME Reader(s) # t PROVE ReaderInv(s)'
  BY <1>4, TasksOf DEF Apart, TxInv, ReaderInv
<1> QED
  BY <1>2, <1>3, <1>4

\* Locks exclude each other as long as they are taken on free rows.
LEMMA LocksKept ==
    ASSUME LocksExclude, NEW t \in Tasks,
           \A u \in Tasks \ {t} : locked'[u] = locked[u],
           \A i \in locked'[t] \ locked[t] : RowFree(t, i)
    PROVE  LocksExclude'
<1> SUFFICES ASSUME NEW u \in Tasks, NEW v \in Tasks, u # v
             PROVE  locked'[u] \cap locked'[v] = {}
  BY DEF LocksExclude
<1>1. ASSUME NEW w \in Tasks \ {t} PROVE locked'[t] \cap locked'[w] = {}
  BY DEF LocksExclude, RowFree
<1> QED
  BY <1>1 DEF LocksExclude

LEMMA ConsumerTypes ==
    ASSUME TxInv, NEW s \in Servers, ConsumerStep(s)
    PROVE  TasksTypeOK'
<1> DEFINE c == Consumer(s)
<1>1. c \in Tasks /\ c.server = s /\ TasksTypeOK /\ events = StoredEvents
  BY TasksOf, TypeParts DEF TxInv
<1>2. \A v \in {"none", "wanted"} : conn' = [conn EXCEPT ![c] = v] => PoolOK'
  BY <1>1, PoolKept DEF TasksTypeOK
<1>3. conn' = conn => PoolOK'
  BY <1>1 DEF TasksTypeOK, PoolOK, Held
<1> HIDE DEF c
<1>4. SchedulerTypeOK' /\ todo' \in [Servers -> SUBSET Items]
  BY <1>1 DEF ConsumerStep, Begin, BeginAcquires, UpdateRow, InsertBid, Commit,
     Rollback, EndJob, TasksTypeOK, SchedulerTypeOK, schedulerVars
<1>5. PoolOK'
  <2>1. CASE Begin(s)
    BY <1>2, <2>1 DEF Begin, Want, c
  <2>2. CASE BeginAcquires(s)
    BY <1>1, <2>2, PoolKept DEF BeginAcquires, Acquire, TasksTypeOK, c
  <2>3. CASE UpdateRow(s) \/ InsertBid(s)
    BY <1>3, <2>3 DEF UpdateRow, InsertBid
  <2>4. CASE Commit(s) \/ Rollback(s)
    BY <1>2, <2>4 DEF Commit, Rollback, EndJob, Release, c
  <2> QED
    BY <2>1, <2>2, <2>3, <2>4 DEF ConsumerStep
<1>6. /\ job' \in [Servers -> SUBSET StoredEvents]
      /\ stage' \in [Servers -> {"idle", "update", "insert", "commit"}]
  BY <1>1 DEF ConsumerStep, Begin, BeginAcquires, UpdateRow, InsertBid, Commit,
     Rollback, EndJob, TasksTypeOK
<1>7. locked' \in [Tasks -> SUBSET Items]
  <2>1. CASE UpdateRow(s)
    <3>1. \A e \in job[s] : e.item \in Items
      BY <1>1, StoredEventsAssumption DEF ValidLog, TasksTypeOK, Event
    <3> QED
      BY <1>1, <2>1, <3>1 DEF UpdateRow, Lock, TasksTypeOK, c
  <2> QED
    BY <1>1, <2>1 DEF ConsumerStep, Begin, BeginAcquires, InsertBid, Commit,
       Rollback, EndJob, Release, TasksTypeOK, c
<1> QED
  BY <1>4, <1>5, <1>6, <1>7 DEF TasksTypeOK

LEMMA ConsumerApart ==
    ASSUME TxInv, NEW s \in Servers, ConsumerStep(s)
    PROVE  Apart(Consumer(s)) /\ LocksExclude'
<1> DEFINE c == Consumer(s)
<1>1. /\ c \in Tasks /\ c.server = s /\ TasksTypeOK
      /\ \A u \in Servers : /\ Updater(u) # c
                            /\ Consumer(u) # c => u # s
  BY TasksOf, TypeParts DEF TxInv
<1>2. /\ conn \in [Tasks -> {"none", "wanted", "held"}]
      /\ locked \in [Tasks -> SUBSET Items]
      /\ job \in [Servers -> SUBSET StoredEvents]
      /\ stage \in [Servers -> {"idle", "update", "insert", "commit"}]
      /\ current_price \in [Items -> Int] /\ status \in [Items -> Statuses]
  BY DEF TxInv, TypeOK, ReadModelTypeOK
<1> HIDE DEF c
<1>3. \A u \in Tasks \ {c} : conn'[u] = conn[u] /\ locked'[u] = locked[u]
  BY <1>1, <1>2 DEF ConsumerStep, Begin, BeginAcquires, UpdateRow, InsertBid,
     Commit, Rollback, EndJob, Release, Want, Acquire, Lock, c
<1>4. \A u \in Servers :
          /\ Consumer(u) # c => stage'[u] = stage[u] /\ job'[u] = job[u]
          /\ Updater(u) # c =>
                phase'[u] = phase[u] /\ asof'[u] = asof[u] /\ todo'[u] = todo[u]
  BY <1>1, <1>2 DEF ConsumerStep, Begin, BeginAcquires, UpdateRow, InsertBid,
     Commit, Rollback, EndJob, schedulerVars
<1>5. ASSUME NEW i \in Items \ locked[c]
      PROVE  current_price'[i] = current_price[i] /\ status'[i] = status[i]
  <2>1. CASE Commit(s)
    <3>1. PICK e \in job[s] :
              \/ locked[c] = {} /\ UNCHANGED itemVars
              \/ /\ locked[c] # {}
                 /\ current_price' = [current_price EXCEPT ![e.item] = e.amount]
                 /\ status' = [status EXCEPT ![e.item] =
                                  IF e.kind = "BuyNowExecuted" THEN "COMPLETED" ELSE @]
      BY <2>1 DEF Commit, Written, c
    <3>2. locked[c] # {} => i # e.item
      BY <1>5, <3>1 DEF TxInv, ConsumerInv, c
    <3> QED
      BY <1>2, <3>1, <3>2 DEF itemVars
  <2> QED
    BY <2>1 DEF ConsumerStep, Begin, BeginAcquires, UpdateRow, InsertBid,
       Rollback, itemVars
<1>6. \A i \in locked'[c] \ locked[c] : RowFree(c, i)
  BY <1>1, <1>2 DEF ConsumerStep, Begin, BeginAcquires, UpdateRow, InsertBid,
     Commit, Rollback, EndJob, Release, Lock, c
<1>7. LocksExclude'
  BY <1>1, <1>3, <1>6, LocksKept DEF TxInv
<1> QED
  BY <1>3, <1>4, <1>5, <1>7 DEF Apart, c

LEMMA ConsumerKept ==
    ASSUME TxInv, NEW s \in Servers, ConsumerStep(s)
    PROVE  ConsumerInv(s)'
<1> DEFINE c == Consumer(s)
<1>1. /\ c \in Tasks /\ ConsumerInv(s)
      /\ conn \in [Tasks -> {"none", "wanted", "held"}]
      /\ locked \in [Tasks -> SUBSET Items]
      /\ job \in [Servers -> SUBSET StoredEvents]
      /\ stage \in [Servers -> {"idle", "update", "insert", "commit"}]
  BY TasksOf DEF TxInv, TypeOK
<1> USE DEF ConsumerInv
<1>2. CASE Begin(s)
  <2>1. PICK e \in events : Stored(e) /\ job' = [job EXCEPT ![s] = {e}]
    BY <1>2 DEF Begin
  <2>2. Stored(e)'
    BY <1>2, <2>1 DEF ConsumerStep, Begin, Stored, itemVars
  <2>3. /\ job'[s] = {e} /\ conn'[c] = "wanted" /\ stage'[s] = "update"
        /\ locked'[c] = {}
    BY <1>1, <1>2, <2>1 DEF Begin, Want
  <2> QED
    BY <2>2, <2>3
<1>3. UNCHANGED itemVars =>
          \A e : (Stored(e) => Stored(e)') /\ (Hits(e) => Hits(e)')
  BY DEF ConsumerStep, Stored, Hits, itemVars
<1>4. CASE BeginAcquires(s)
  <2>1. /\ conn[c] = "wanted" /\ conn'[c] = "held" /\ stage'[s] = stage[s]
        /\ job'[s] = job[s] /\ locked'[c] = locked[c]
    BY <1>1, <1>4 DEF BeginAcquires, Acquire
  <2> QED
    BY <1>1, <1>3, <1>4, <2>1 DEF BeginAcquires
<1>5. CASE UpdateRow(s)
  <2>1. PICK e \in job[s] :
            \/ stage' = [stage EXCEPT ![s] = "commit"] /\ UNCHANGED locked
            \/ /\ Hits(e)
               /\ Lock(c, e.item)
               /\ stage' = [stage EXCEPT ![s] = "insert"]
    BY <1>5 DEF UpdateRow
  <2>2. /\ stage[s] = "update" /\ locked[c] = {} /\ conn[c] = "held"
        /\ job' = job /\ conn' = conn /\ UNCHANGED itemVars
        /\ stage'[s] \in {"insert", "commit"}
    BY <1>1, <1>5, <2>1 DEF UpdateRow
  <2>3. locked'[c] # {} => locked'[c] = {e.item} /\ Hits(e)
    BY <1>1, <2>1, <2>2 DEF Lock
  <2>4. \A f \in job[s] : f = e
    BY <1>1, <2>1
  <2> QED
    BY <1>1, <1>3, <2>1, <2>2, <2>3, <2>4
<1>6. CASE InsertBid(s)
  <2>1. /\ stage[s] = "insert" /\ stage'[s] = "commit"
        /\ UNCHANGED <<itemVars, conn, job, locked>>
    BY <1>1, <1>6 DEF InsertBid
  <2> QED
    BY <1>1, <1>3, <2>1
<1>7. CASE Commit(s) \/ Rollback(s)
  <2>1. /\ job'[s] = {} /\ stage'[s] = "idle"
        /\ conn'[c] = "none" /\ locked'[c] = {}
    BY <1>1, <1>7 DEF Commit, Rollback, EndJob, Release
  <2> QED
    BY <2>1
<1> QED
  BY <1>2, <1>4, <1>5, <1>6, <1>7 DEF ConsumerStep

LEMMA SchedulerTypes ==
    ASSUME TxInv, NEW s \in Servers, StatementStep(s)
    PROVE  TasksTypeOK'
<1> DEFINE c == Updater(s)
<1>1. /\ c \in Tasks /\ c.server = s /\ TasksTypeOK
      /\ now \in Nat
  BY TasksOf, TypeParts DEF TxInv, ReadModelTypeOK
<1>2. \A v \in {"none", "wanted"} : conn' = [conn EXCEPT ![c] = v] => PoolOK'
  BY <1>1, PoolKept DEF TasksTypeOK
<1>3. conn' = conn => PoolOK'
  BY <1>1 DEF TasksTypeOK, PoolOK, Held
<1> HIDE DEF c
<1>4. SchedulerTypeOK'
  BY <1>1 DEF StatementStep, TickFires, Wake, StatementStarts, VisitRow,
     StatementEnds, StatementFails, Sleep, TasksTypeOK, SchedulerTypeOK,
     schedulerVars
<1>5. PoolOK'
  <2>1. CASE TickFires(s)
    BY <1>2, <2>1 DEF TickFires, Want, c
  <2>2. CASE StatementStarts(s)
    BY <1>1, <2>2, PoolKept DEF StatementStarts, Acquire, TasksTypeOK, c
  <2>3. CASE VisitRow(s)
    BY <1>3, <2>3 DEF VisitRow
  <2>4. CASE StatementEnds(s) \/ StatementFails(s)
    BY <1>2, <2>4 DEF StatementEnds, StatementFails, Release, Want, c
  <2> QED
    BY <2>1, <2>2, <2>3, <2>4 DEF StatementStep
<1>6. /\ job' \in [Servers -> SUBSET StoredEvents]
      /\ stage' \in [Servers -> {"idle", "update", "insert", "commit"}]
  BY <1>1 DEF StatementStep, TickFires, StatementStarts, VisitRow,
     StatementEnds, StatementFails, TasksTypeOK
<1>7. locked' \in [Tasks -> SUBSET Items] /\ todo' \in [Servers -> SUBSET Items]
  BY <1>1 DEF StatementStep, TickFires, StatementStarts, VisitRow, Selects, Due,
     StatementEnds, StatementFails, Release, Lock, TasksTypeOK, c
<1> QED
  BY <1>4, <1>5, <1>6, <1>7 DEF TasksTypeOK

LEMMA SchedulerApart ==
    ASSUME TxInv, NEW s \in Servers, StatementStep(s)
    PROVE  Apart(Updater(s)) /\ LocksExclude'
<1> DEFINE c == Updater(s)
<1>1. /\ c \in Tasks /\ TasksTypeOK
      /\ \A u \in Servers : /\ Consumer(u) # c
                            /\ Updater(u) # c => u # s
  BY TasksOf, TypeParts DEF TxInv
<1>2. /\ conn \in [Tasks -> {"none", "wanted", "held"}]
      /\ locked \in [Tasks -> SUBSET Items]
      /\ todo \in [Servers -> SUBSET Items]
      /\ phase \in [Servers -> {"asleep", "start_due", "end_due"}]
      /\ asof \in [Servers -> Nat]
  BY DEF TxInv, TypeOK, SchedulerTypeOK
<1> HIDE DEF c
<1>3. \A u \in Tasks \ {c} : conn'[u] = conn[u] /\ locked'[u] = locked[u]
  BY <1>1, <1>2 DEF StatementStep, TickFires, StatementStarts, VisitRow,
     StatementEnds, StatementFails, Release, Want, Acquire, Lock, c
<1>4. \A u \in Servers :
          /\ Consumer(u) # c => stage'[u] = stage[u] /\ job'[u] = job[u]
          /\ Updater(u) # c =>
                phase'[u] = phase[u] /\ asof'[u] = asof[u] /\ todo'[u] = todo[u]
  BY <1>1, <1>2 DEF StatementStep, TickFires, Wake, StatementStarts, VisitRow,
     StatementEnds, StatementFails, Sleep, schedulerVars
<1>5. \A i \in Items \ locked[c] :
          current_price'[i] = current_price[i] /\ status'[i] = status[i]
  BY DEF StatementStep, TickFires, Wake, StatementStarts, VisitRow,
     StatementEnds, SetStatus, StillSelected, StatementFails, itemVars, c
<1>6. \A i \in locked'[c] \ locked[c] : RowFree(c, i)
  BY <1>1, <1>2 DEF StatementStep, TickFires, StatementStarts, VisitRow,
     StatementEnds, StatementFails, Release, Lock, c
<1>7. LocksExclude'
  BY <1>1, <1>3, <1>6, LocksKept DEF TxInv
<1> QED
  BY <1>3, <1>4, <1>5, <1>7 DEF Apart, c

LEMMA SchedulerKept ==
    ASSUME TxInv, NEW s \in Servers, StatementStep(s)
    PROVE  SchedulerInv(s)'
<1> DEFINE c == Updater(s)
<1>1. /\ c \in Tasks /\ SchedulerInv(s)
      /\ conn \in [Tasks -> {"none", "wanted", "held"}]
      /\ locked \in [Tasks -> SUBSET Items]
      /\ todo \in [Servers -> SUBSET Items]
      /\ phase \in [Servers -> {"asleep", "start_due", "end_due"}]
      /\ asof \in [Servers -> Nat] /\ now \in Nat /\ now' = now
  BY TasksOf DEF TxInv, TypeOK, SchedulerTypeOK, ReadModelTypeOK, StatementStep
<1> USE DEF SchedulerInv
<1>2. CASE TickFires(s)
  <2>1. /\ phase[s] = "asleep" /\ phase'[s] = "start_due" /\ asof'[s] = now
        /\ conn'[c] = "wanted" /\ todo'[s] = todo[s] /\ locked'[c] = locked[c]
    BY <1>1, <1>2 DEF TickFires, Wake, Want
  <2> QED
    BY <1>1, <2>1
<1>3. CASE StatementStarts(s)
  <2>1. /\ phase'[s] = phase[s] /\ asof'[s] = asof[s]
        /\ conn[c] = "wanted" /\ conn'[c] = "held"
        /\ todo'[s] = Selects(s) /\ locked[c] = {} /\ locked'[c] = {}
        /\ status' = status
    BY <1>1, <1>3 DEF StatementStarts, Acquire, schedulerVars, itemVars
  <2>2. \A i \in Selects(s) : DueTimes(s)[i] <= asof[s]
    BY DEF Selects, Due, DueTimes
  <2>3. DueTimes(s)' = DueTimes(s)
    BY <2>1 DEF DueTimes
  <2>4. phase[s] = "start_due" => Due("SCHEDULED", StartTime, asof[s])' = Selects(s)
    BY <2>1 DEF Selects, Target, Due
  <2> QED
    BY <1>1, <2>1, <2>2, <2>3, <2>4
<1>4. CASE VisitRow(s)
  <2>1. PICK i \in todo[s] : locked'[c] = locked[c] \cup {i} /\ todo'[s] = todo[s] \ {i}
    BY <1>1, <1>4 DEF VisitRow, Lock
  <2>2. /\ phase'[s] = phase[s] /\ asof'[s] = asof[s] /\ status' = status
        /\ conn[c] = "held" /\ conn'[c] = "held"
    BY <1>4 DEF VisitRow, schedulerVars, itemVars
  <2>3. /\ DueTimes(s)' = DueTimes(s)
        /\ Due("SCHEDULED", StartTime, asof[s])' = Due("SCHEDULED", StartTime, asof[s])
    BY <2>2 DEF DueTimes, Due
  <2>4. todo'[s] \cup locked'[c] = todo[s] \cup locked[c]
    BY <2>1
  <2> QED
    BY <1>1, <2>1, <2>2, <2>3, <2>4
<1>5. CASE StatementEnds(s)
  <2>1. /\ todo'[s] = {} /\ locked'[c] = {}
        /\ \/ phase'[s] = "end_due" /\ conn'[c] = "wanted" /\ asof'[s] = asof[s]
           \/ phase'[s] = "asleep" /\ conn'[c] = "none" /\ asof'[s] = 0
    BY <1>1, <1>5 DEF StatementEnds, Want, Sleep
  <2> QED
    BY <1>1, <2>1
<1>6. CASE StatementFails(s)
  <2>1. /\ todo'[s] = {} /\ locked'[c] = {}
        /\ phase'[s] = "asleep" /\ conn'[c] = "none" /\ asof'[s] = 0
    BY <1>1, <1>6 DEF StatementFails, Release, Sleep
  <2> QED
    BY <1>1, <2>1
<1> QED
  BY <1>2, <1>3, <1>4, <1>5, <1>6 DEF StatementStep

LEMMA ReaderKept ==
    ASSUME TxInv, NEW s \in Servers, QueryStep(s)
    PROVE  TasksTypeOK' /\ Apart(Reader(s)) /\ LocksExclude' /\ ReaderInv(s)'
<1> DEFINE c == Reader(s)
<1>1. /\ c \in Tasks /\ c.server = s /\ TasksTypeOK /\ ReaderInv(s)
      /\ conn \in [Tasks -> {"none", "wanted", "held"}]
  BY TasksOf, TypeParts DEF TxInv, TypeOK
<1>2. \/ conn' = [conn EXCEPT ![c] = "none"]
      \/ conn' = [conn EXCEPT ![c] = "held"] /\ ~PoolFull(s)
  BY DEF QueryStep, Ask, Answer, AskFails
<1>3. PoolOK'
  BY <1>1, <1>2, PoolKept DEF TasksTypeOK
<1>4. UNCHANGED <<itemVars, schedulerVars, job, stage, locked, todo>>
  BY DEF QueryStep
<1>5. TasksTypeOK'
  BY <1>1, <1>3, <1>4 DEF TasksTypeOK, SchedulerTypeOK, schedulerVars
<1>6. Apart(c)
  BY <1>1, <1>2, <1>4 DEF Apart, itemVars, schedulerVars
<1>7. LocksExclude'
  BY <1>4 DEF TxInv, LocksExclude
<1>8. ReaderInv(s)'
  BY <1>1, <1>2, <1>4 DEF ReaderInv
<1> QED
  BY <1>5, <1>6, <1>7, <1>8

-----------------------------------------------------------------------------
(* The invariant.                                                          *)

LEMMA TxInitially ==
    ASSUME Init
    PROVE  TxInv
<1>1. /\ ReadModelInit /\ SchedulerInit /\ events = StoredEvents
      /\ conn = [t \in Tasks |-> "none"]
      /\ job = [s \in Servers |-> {}]
      /\ stage = [s \in Servers |-> "idle"]
      /\ locked = [t \in Tasks |-> {}]
      /\ todo = [s \in Servers |-> {}]
      /\ told = StartingPrice
      /\ broken = {}
  BY DEF Init
<1>2. ReadModelTypeOK
  <2>1. \A i \in Items : <<>> \in Seq(Bid)
    OBVIOUS
  <2> QED
    BY <1>1, <2>1, ItemAssumption DEF ReadModelInit, ReadModelTypeOK, Statuses
<1>3. TypeOK
  <2>1. SchedulerTypeOK
    BY <1>1 DEF SchedulerInit, SchedulerTypeOK
  <2>2. \A s \in Servers : Held(s) = {}
    BY <1>1 DEF Held
  <2>3. PoolOK
    BY <1>1, <2>2, FS_EmptySet, PoolAssumption DEF PoolOK, Connections
  <2>4. TasksTypeOK
    BY <1>1, <2>1, <2>3 DEF TasksTypeOK
  <2> QED
    BY <1>1, <1>2, <2>4, TypeParts, ItemAssumption
<1>4. TablesInv
  <2>1. ValidLog(events)
    BY <1>1, StoredEventsAssumption
  <2> QED
    BY <1>1, <2>1, TablesInit
<1>5. LocksExclude
  BY <1>1 DEF LocksExclude
<1>6. ASSUME NEW s \in Servers
      PROVE  ConsumerInv(s) /\ SchedulerInv(s) /\ ReaderInv(s)
  <2>1. ConsumerInv(s)
    BY <1>1, TasksOf DEF ConsumerInv
  <2>2. SchedulerInv(s)
    BY <1>1, <1>2, TasksOf DEF SchedulerInv, SchedulerInit, ReadModelTypeOK
  <2>3. ReaderInv(s)
    BY <1>1, TasksOf DEF ReaderInv
  <2> QED
    BY <2>1, <2>2, <2>3
<1>7. ShownBelowPrice
  BY <1>1, ItemAssumption DEF ShownBelowPrice, ReadModelInit
<1> QED
  BY <1>3, <1>4, <1>5, <1>6, <1>7 DEF TxInv

LEMMA TxKept ==
    ASSUME TxInv, Next
    PROVE  TxInv'
<1>1. /\ TablesTypeOK' /\ TablesInv' /\ Forward /\ events' = events
      /\ events = StoredEvents /\ TasksTypeOK
  BY StatementsKeepTables, StatementsAreTablesSteps, TypeParts DEF TxInv
<1>2. UNCHANGED <<told, broken>> =>
          told' \in [Items -> Int] /\ broken' \subseteq Asked /\ ShownBelowPrice'
  <2>1. ASSUME UNCHANGED told PROVE ShownBelowPrice'
    <3>1. \A i \in Items : /\ told[i] \in Int /\ told[i] <= current_price[i]
                           /\ current_price[i] \in Int /\ current_price'[i] \in Int
                           /\ current_price[i] <= current_price'[i]
      BY <1>1 DEF TxInv, TypeOK, ReadModelTypeOK, TablesTypeOK, ShownBelowPrice,
         Forward
    <3> QED
      BY <2>1, <3>1 DEF ShownBelowPrice
  <2> QED
    BY <2>1 DEF TxInv, TypeOK
\* What is left to show of a step of each kind.
<1>3. ASSUME TasksTypeOK', LocksExclude',
             told' \in [Items -> Int] /\ broken' \subseteq Asked /\ ShownBelowPrice',
             \A s \in Servers : (ConsumerInv(s) /\ SchedulerInv(s) /\ ReaderInv(s))'
      PROVE  TxInv'
  <2>1. TypeOK'
    BY <1>1, <1>3, TypeParts DEF TablesTypeOK, TypeOK, TasksTypeOK, PoolOK, Held,
       Connections
  <2> QED
    BY <1>1, <1>3, <2>1 DEF TxInv
<1>4. CASE Tick /\ UNCHANGED <<events, schedulerVars, txVars, clientVars>>
  <2>1. TasksTypeOK' /\ LocksExclude' /\ \A t : Apart(t)
    BY <1>1, <1>4 DEF Tick, TasksTypeOK, SchedulerTypeOK, PoolOK, Held, TxInv,
       LocksExclude, Apart, itemVars, schedulerVars, txVars
  <2>2. ASSUME NEW s \in Servers
        PROVE  (ConsumerInv(s) /\ SchedulerInv(s) /\ ReaderInv(s))'
    <3>1. ConsumerInv(s)' /\ SchedulerInv(s)'
      BY <1>1, <2>1, OthersKept, TasksOf
    <3>2. ReaderInv(s)'
      BY <1>1, <2>1, OthersKept, TasksOf
    <3> QED
      BY <3>1, <3>2
  <2> QED
    BY <1>2, <1>3, <1>4, <2>1, <2>2 DEF clientVars
<1>5. ASSUME NEW s \in Servers, ConsumerStep(s) PROVE TxInv'
  <2>1. TasksTypeOK' /\ LocksExclude' /\ Apart(Consumer(s)) /\ ConsumerInv(s)'
    BY <1>5, ConsumerTypes, ConsumerApart, ConsumerKept
  <2>2. ASSUME NEW u \in Servers
        PROVE  (ConsumerInv(u) /\ SchedulerInv(u) /\ ReaderInv(u))'
    BY <1>1, <2>1, OthersKept, TasksOf
  <2> QED
    BY <1>2, <1>3, <1>5, <2>1, <2>2 DEF ConsumerStep, clientVars
<1>6. ASSUME NEW s \in Servers, StatementStep(s) PROVE TxInv'
  <2>1. TasksTypeOK' /\ LocksExclude' /\ Apart(Updater(s)) /\ SchedulerInv(s)'
    BY <1>6, SchedulerTypes, SchedulerApart, SchedulerKept
  <2>2. ASSUME NEW u \in Servers
        PROVE  (ConsumerInv(u) /\ SchedulerInv(u) /\ ReaderInv(u))'
    BY <1>1, <2>1, OthersKept, TasksOf
  <2> QED
    BY <1>2, <1>3, <1>6, <2>1, <2>2 DEF StatementStep, clientVars
<1>7. ASSUME NEW s \in Servers, QueryStep(s) PROVE TxInv'
  <2>1. TasksTypeOK' /\ LocksExclude' /\ Apart(Reader(s)) /\ ReaderInv(s)'
    BY <1>7, ReaderKept
  <2>2. ASSUME NEW u \in Servers
        PROVE  (ConsumerInv(u) /\ SchedulerInv(u) /\ ReaderInv(u))'
    BY <1>1, <2>1, OthersKept, TasksOf
  <2>3. told' \in [Items -> Int] /\ broken' \subseteq Asked /\ ShownBelowPrice'
    <3>1. CASE Answer(s)
      BY <1>7, <3>1, AnswerShows DEF QueryStep, TxInv
    <3>2. CASE Ask(s) \/ AskFails(s)
      BY <1>2, <3>2 DEF Ask, AskFails, clientVars
    <3> QED
      BY <1>7, <3>1, <3>2 DEF QueryStep
  <2> QED
    BY <1>3, <2>1, <2>2, <2>3
<1> QED
  BY <1>4, <1>5, <1>6, <1>7 DEF Next

LEMMA TxStutters ==
    ASSUME TxInv, UNCHANGED vars
    PROVE  TxInv'
<1> USE DEF vars, itemVars, schedulerVars, txVars, clientVars
<1>1. TypeOK'
  BY DEF TxInv, TypeOK, ReadModelTypeOK, SchedulerTypeOK
<1>2. TablesInv'
  BY DEF TxInv, TablesInv, ValidLog, Valid, BidHistoryAscends,
     BidsAreStoredEvents, StatusHasReason, Sold
<1>3. LocksExclude' /\ ShownBelowPrice'
  BY DEF TxInv, LocksExclude, ShownBelowPrice
<1>4. ASSUME NEW s \in Servers
      PROVE  (ConsumerInv(s) /\ SchedulerInv(s) /\ ReaderInv(s))'
  BY DEF TxInv, ConsumerInv, Stored, Hits, SchedulerInv, DueTimes, Due, ReaderInv
<1> QED
  BY <1>1, <1>2, <1>3, <1>4 DEF TxInv

\* Whatever statements of the servers interleave, and however often they fail,
\* the invariant of tables, tasks and answers holds.
THEOREM StatementsKeepInvariant == Spec => []TxInv
<1>1. Init => TxInv
  BY TxInitially
<1>2. TxInv /\ [Next]_vars => TxInv'
  BY TxKept, TxStutters
<1> QED
  BY <1>1, <1>2, PTL DEF Spec

-----------------------------------------------------------------------------
(* What follows from it.                                                   *)

\* Every variable keeps its type: in particular no server ever holds more
\* connections than its pool has.
THEOREM StatementsTyped == Spec => []TypeOK
<1>1. TxInv => TypeOK
  BY DEF TxInv
<1> QED
  BY <1>1, StatementsKeepInvariant, PTL

\* A price some client was shown is shown by every endpoint from then on: if
\* it is above starting_price the item has bids, and whoever reads them sees
\* current_price, which never falls.
THEOREM ShownPricesStay == Spec => []AnswersNeverGoBack
<1>1. ASSUME TxInv PROVE AnswersNeverGoBack
  <2> SUFFICES ASSUME NEW i \in Items, NEW ep \in Asked, told[i] > StartingPrice[i]
               PROVE  \E p \in PricesShown(ep, i) : p >= told[i]
    BY DEF AnswersNeverGoBack
  <2>1. /\ told[i] \in Int /\ current_price[i] \in Int /\ StartingPrice[i] \in Int
        /\ told[i] <= current_price[i]
    BY <1>1, ItemAssumption DEF TxInv, TypeOK, ReadModelTypeOK, ShownBelowPrice
  <2>2. /\ bids[i] # <<>> => current_price[i] \in PricesShown(ep, i)
        /\ bids[i] = <<>> => current_price[i] = StartingPrice[i]
    <3>1. ep \in Endpoints /\ TablesTypeOK /\ BidHistoryAscends
      BY <1>1, TypeGives, AskedAssumption DEF TxInv, TablesInv
    <3> QED
      BY <3>1, PricesAreUpToDate
  <2>3. current_price[i] \in PricesShown(ep, i)
    BY <2>1, <2>2
  <2> QED
    BY <2>1, <2>3
<1> QED
  BY <1>1, StatementsKeepInvariant, PTL

\* In a knot only schedulers have locks: a consumer that has one never waits
\* again and a reader has none.
LEMMA LockedInKnot ==
    ASSUME TxInv, NEW K \in SUBSET Tasks, Knot(K),
           NEW u \in K, locked[u] # {}
    PROVE  u.role = "scheduler" /\ WaitsForRow(u, K)
<1> DEFINE s == u.server
<1>1. s \in Servers /\ u \in {Consumer(s), Updater(s), Reader(s)}
  BY TasksOf
<1>2. ConsumerInv(s) /\ SchedulerInv(s) /\ ReaderInv(s)
  BY <1>1 DEF TxInv
<1>3. WaitsForRow(u, K) \/ WaitsForPool(u, K)
  BY DEF Knot
<1>4. CASE u = Consumer(s)
  <2>1. stage[s] \in {"insert", "commit"} /\ conn[u] = "held"
    BY <1>2, <1>4 DEF ConsumerInv
  <2>2. WantedRows(u) = {}
    BY <1>4, <2>1 DEF WantedRows, Consumer
  <2> QED
    BY <1>3, <2>1, <2>2 DEF WaitsForRow, WaitsForPool
<1>5. CASE u = Updater(s)
  <2>1. conn[u] = "held" /\ u.role = "scheduler"
    <3>1. conn[u] = "held"
      BY <1>2, <1>5 DEF SchedulerInv
    <3>2. Updater(s).role = "scheduler"
      BY DEF Updater
    <3> QED
      BY <1>5, <3>1, <3>2
  <2> QED
    BY <1>3, <2>1 DEF WaitsForPool
<1>6. CASE u = Reader(s)
  BY <1>2, <1>6 DEF ReaderInv
<1> QED
  BY <1>1, <1>4, <1>5, <1>6

\* A wait for connections ends at a task of the knot that has one, so at a row.
LEMMA KnotHasRowWait ==
    ASSUME NEW K \in SUBSET Tasks, Knot(K)
    PROVE  \E t \in K : WaitsForRow(t, K)
<1>1. PICK t \in K : WaitsForRow(t, K) \/ WaitsForPool(t, K)
  BY DEF Knot
<1>2. CASE WaitsForPool(t, K)
  <2> DEFINE holders == {u \in Tasks : u.server = t.server /\ conn[u] = "held"}
  <2>1. holders \subseteq K /\ Cardinality(holders) >= PoolSize
    BY <1>2 DEF WaitsForPool, PoolFull
  <2>2. holders # {}
    BY <2>1, FS_EmptySet, PoolAssumption
  <2>3. PICK u \in holders : TRUE
    BY <2>2
  <2>4. WaitsForRow(u, K)
    BY <2>1, <2>3 DEF Knot, WaitsForPool
  <2> QED
    BY <2>1, <2>4
<1> QED
  BY <1>1, <1>2

\* However large pools and tables are, tasks that wait for each other include
\* schedulers that wait for each other's rows, which PostgreSQL can see.
THEOREM KnotsHaveSchedulers == Spec => []OnlySchedulersDeadlock
<1>1. ASSUME TxInv PROVE OnlySchedulersDeadlock
  <2> SUFFICES ASSUME NEW K \in SUBSET Tasks, Knot(K)
               PROVE  \E L \in SUBSET {t \in K : t.role = "scheduler"} :
                         L # {} /\ \A t \in L : WaitsForRow(t, L)
    BY DEF OnlySchedulersDeadlock
  <2> DEFINE L == {t \in K : locked[t] # {}}
  <2>1. \A t \in L : t.role = "scheduler" /\ WaitsForRow(t, K)
    BY <1>1, LockedInKnot
  <2>2. ASSUME NEW t \in K, WaitsForRow(t, K)
        PROVE  WaitsForRow(t, L) /\ L # {}
    <3>1. conn[t] = "held" /\ \E i \in WantedRows(t), u \in K \ {t} : i \in locked[u]
      BY <2>2 DEF WaitsForRow
    <3>2. PICK i \in WantedRows(t), u \in K \ {t} : i \in locked[u]
      BY <3>1
    <3>3. u \in L \ {t}
      BY <3>2
    <3> QED
      BY <3>1, <3>2, <3>3 DEF WaitsForRow
  <2>3. L # {}
    BY <2>2, KnotHasRowWait
  <2> QED
    BY <2>1, <2>2, <2>3
<1> QED
  BY <1>1, StatementsKeepInvariant, PTL

\* The statements of a transaction are one step of EventHandlers or Scheduler,
\* as AuctionService has them.
THEOREM StatementsAreAtomic == Spec => WritesAreAtomic
<1> DEFINE A == \/ \E e \in events : HandleBidPlaced(e) \/ HandleBuyNowExecuted(e)
                \/ \E t \in 0 .. now :
                     /\ \/ SetStatus(Due("SCHEDULED", StartTime, t), "ACTIVE")
                        \/ \E S \in SUBSET Due("ACTIVE", EndTime, t) :
                              SetStatus(S, "COMPLETED")
                     /\ UNCHANGED <<current_price, bids>>
<1>1. TxInv /\ [Next]_vars => [A]_itemVars
  <2> SUFFICES ASSUME TxInv, Next PROVE A \/ UNCHANGED itemVars
    BY DEF vars
  <2>1. ASSUME NEW e \in events, Handles(e) PROVE A
    <3>1. HandleBidPlaced(e) \/ HandleBuyNowExecuted(e)
      BY <2>1 DEF Handles, Recorded, HandleBidPlaced, HandleBuyNowExecuted
    <3> QED
      BY <3>1
  <2>2. CASE Tick
    BY <2>2 DEF Tick
  <2>3. ASSUME NEW s \in Servers, ConsumerStep(s) PROVE A \/ UNCHANGED itemVars
    BY <2>1, <2>3, ConsumerWrites
  <2>4. ASSUME NEW s \in Servers, StatementStep(s) PROVE A \/ UNCHANGED itemVars
    BY <2>4, SchedulerWrites DEF Opens, Closes
  <2>5. ASSUME NEW s \in Servers, QueryStep(s) PROVE UNCHANGED itemVars
    BY <2>5 DEF QueryStep
  <2> QED
    BY <2>2, <2>3, <2>4, <2>5 DEF Next
<1> QED
  BY <1>1, StatementsKeepInvariant, PTL DEF Spec, WritesAreAtomic

\* Statement by statement, the tables are an auction as module Auction promises
\* it to those who read them.
THEOREM StatementsAreAuction == Spec => ImplementsAuction
<1>1. Init => Contract!Init
  BY TablesInitAllowed DEF Init
<1>2. TxInv /\ TxInv' /\ [Next]_vars => [Contract!Next]_Contract!vars
  <2>1. ASSUME TxInv, Next PROVE [Contract!Next]_Contract!vars
    BY <2>1, StatementsAreTablesSteps, StatementsKeepTables, TypeGives,
       TablesStepAllowed DEF TxInv
  <2>2. ASSUME UNCHANGED vars PROVE UNCHANGED Contract!vars
    BY <2>2 DEF vars, itemVars, Contract!vars, AuctionPhase, Sold
  <2> QED
    BY <2>1, <2>2
<1> QED
  BY <1>1, <1>2, StatementsKeepInvariant, PTL DEF Spec, ImplementsAuction,
     Contract!Spec

\* A server that is alone cannot tie itself up: its tasks never form a knot.
THEOREM LoneServerUntied ==
    ASSUME \A s, u \in Servers : s = u
    PROVE  Spec => [](\A K \in SUBSET Tasks : ~Knot(K))
<1>1. ASSUME OnlySchedulersDeadlock, NEW K \in SUBSET Tasks, Knot(K)
      PROVE  FALSE
  <2>1. PICK L \in SUBSET {t \in K : t.role = "scheduler"} :
                L # {} /\ \A t \in L : WaitsForRow(t, L)
    BY <1>1 DEF OnlySchedulersDeadlock
  <2>2. PICK t \in L : \E u \in L : u # t
    BY <2>1 DEF WaitsForRow
  <2>3. \A u \in L : u = t
    BY <2>1, <2>2 DEF Tasks
  <2> QED
    BY <2>2, <2>3
<1>2. OnlySchedulersDeadlock => \A K \in SUBSET Tasks : ~Knot(K)
  BY <1>1
<1> QED
  BY <1>2, KnotsHaveSchedulers, PTL
=============================================================================
