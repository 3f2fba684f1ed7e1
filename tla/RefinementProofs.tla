--------------------------- MODULE RefinementProofs ---------------------------
(***************************************************************************)
(* Proofs that the service implements its two abstract specifications:     *)
(* EventLog on the command side, Auction on the read side.                 *)
(***************************************************************************)
EXTENDS ReadSideProofs, SequenceTheorems

-----------------------------------------------------------------------------
(* The read side implements Auction.                                       *)

\* The service implements Auction: whoever watches items and bids sees an
\* ascending auction that is sold at most once.
THEOREM ServiceIsAuction == Spec => ImplementsAuction
<1>1. Init => Contract!Init
  BY TablesInitAllowed DEF Init
<1>2. IInv /\ IInv' /\ ReadInv /\ ReadInv' /\ [Next]_vars
      => [Contract!Next]_Contract!vars
  BY ServiceTypes, ReadModelSteps, TablesStepAllowed DEF ReadInv
<1> QED
  BY <1>1, <1>2, IInvHolds, ReadInvHolds, PTL
  DEF Spec, ImplementsAuction, Contract!Spec

-----------------------------------------------------------------------------
(* The command side implements EventLog.                                   *)

\* The request behind a version of an item, in a set of events.
EntryOf(S, i, v) == (CHOOSE e \in S : e.item = i /\ e.version = v).bidder

\* EventLog's variables, as the refinement mapping computes them.
MappedLog ==
    [i \in Items |->
        [v \in 1 .. get_item_version(i) |-> EntryOf(events, i, v)]]
MappedAppended == {e.bidder : e \in events}

\* Versions are unique, so the choice of an entry is none.
LEMMA EntryIsUnique ==
    ASSUME NEW S, NEW e \in S,
           \A f \in S : f.item = e.item /\ f.version = e.version => f = e
    PROVE  EntryOf(S, e.item, e.version) = e.bidder
<1>1. (CHOOSE f \in S : f.item = e.item /\ f.version = e.version) = e
  OBVIOUS
<1> QED
  BY <1>1 DEF EntryOf

\* Every version has its entry.
LEMMA EntryExists ==
    ASSUME IInv, NEW i \in Items, NEW v \in 1 .. get_item_version(i)
    PROVE  \E e \in events : e.item = i /\ e.version = v
<1>1. v \in Versions(i)
  BY DEF IInv, LogInv, LogIsGapless
<1> QED
  BY <1>1 DEF Versions

\* The mapping yields a sequence for every item.
LEMMA MappedLogType ==
    ASSUME IInv, NEW i \in Items
    PROVE  /\ MappedLog[i] \in Seq(Requests)
           /\ Len(MappedLog[i]) = get_item_version(i)
           /\ get_item_version(i) \in Nat
<1> DEFINE n == get_item_version(i)
<1>1. n \in Nat
  BY DEF IInv, LogInv, LogIsGapless
<1>2. MappedLog[i] = [v \in 1 .. n |-> EntryOf(events, i, v)]
  BY DEF MappedLog
<1>3. ASSUME NEW v \in 1 .. n PROVE EntryOf(events, i, v) \in Requests
  <2>1. PICK e \in events : e.item = i /\ e.version = v
    BY EntryExists
  <2>2. EntryOf(events, i, v) = e.bidder
    BY <2>1, EntryIsUnique DEF IInv, LogInv, LogIsUnique
  <2> QED
    BY <2>2 DEF IInv, TypeOK, Event
<1> HIDE DEF n
<1>4. MappedLog[i] \in [1 .. n -> Requests]
  BY <1>2, <1>3
<1>5. MappedLog[i] \in Seq(Requests)
  BY <1>1, <1>4, SeqDef
<1>6. Len(MappedLog[i]) = n
  BY <1>1, <1>4, <1>5
<1> QED
  BY <1>1, <1>5, <1>6 DEF n

\* An INSERT that succeeds is an atomic append of the request that issues it.
LEMMA InsertIsAllowed ==
    ASSUME IInv, IInv', NEW r \in Requests, pc[r] = "append", Insert(EventOf(r))
    PROVE  Log!Next
<1>1. PICK e \in Event : /\ e = EventOf(r)
                         /\ e.item = cmd[r].item
                         /\ e.bidder = r
  BY EventOfType DEF IInv, TypeOK
<1>2. PICK i \in Items : i = e.item
  BY DEF Event
<1>3. events' = events \cup {e} /\ ~Conflicts(e)
  BY <1>1 DEF Insert
<1>4. r \notin MappedAppended
  BY DEF IInv, LogInv, NotStoredYet, Undecided, MappedAppended
<1>5. MappedAppended' = MappedAppended \cup {r}
  BY <1>1, <1>3 DEF MappedAppended
<1> DEFINE n == get_item_version(i)
<1>6. e.version = n + 1 /\ get_item_version(i)' = n + 1 /\ n \in Nat
  <2>1. PICK m \in Nat : /\ m = n /\ Versions(i) = 1 .. m
                         /\ get_item_version(i)' \in Nat
                         /\ Versions(i)' = 1 .. get_item_version(i)'
    BY DEF IInv, LogInv, LogIsGapless
  <2>2. Versions(i)' = Versions(i) \cup {e.version} /\ e.version \notin Versions(i)
    BY <1>2, <1>3 DEF Versions, Conflicts
  <2>3. e.version \in Nat \ {0}
    BY DEF Event
  <2>4. PICK k \in Nat : k = get_item_version(i)'
    BY <2>1
  <2>5. 1 .. k = (1 .. m) \cup {e.version} /\ e.version \notin 1 .. m
    BY <2>1, <2>2, <2>4
  <2>6. e.version > m /\ e.version \in 1 .. k
    BY <2>3, <2>5
  <2>7. m + 1 \in 1 .. k
    BY <2>3, <2>4, <2>6
  <2>8. e.version = m + 1
    BY <2>5, <2>7
  <2>9. k = m + 1
    <3>1. k \in 1 .. k
      BY <2>4, <2>7
    <3> QED
      BY <2>4, <2>5, <2>7, <2>8, <3>1
  <2> QED
    BY <2>1, <2>4, <2>8, <2>9
<1>7. \A j \in Items \ {i} : get_item_version(j)' = get_item_version(j)
  <2>1. \A j \in Items \ {i} : Versions(j)' = Versions(j)
    BY <1>2, <1>3 DEF Versions
  <2> QED
    BY <2>1 DEF get_item_version
\* Entries that exist do not change.
<1>8. ASSUME NEW j \in Items, NEW v \in 1 .. get_item_version(j)
      PROVE  EntryOf(events', j, v) = EntryOf(events, j, v)
  <2>1. PICK f \in events : f.item = j /\ f.version = v
    BY EntryExists
  <2>2. /\ f \in events'
        /\ \A g \in events : g.item = f.item /\ g.version = f.version => g = f
        /\ \A g \in events' : g.item = f.item /\ g.version = f.version => g = f
    BY <1>3 DEF IInv, LogInv, LogIsUnique
  <2>3. EntryOf(events, j, v) = f.bidder
    BY <2>1, <2>2, EntryIsUnique
  <2>4. EntryOf(events', j, v) = f.bidder
    BY <2>1, <2>2, EntryIsUnique
  <2> QED
    BY <2>3, <2>4
<1>9. EntryOf(events', i, n + 1) = r
  <2>1. e \in events' /\ \A g \in events' :
            g.item = e.item /\ g.version = e.version => g = e
    BY <1>3 DEF IInv, LogInv, LogIsUnique
  <2> QED
    BY <1>1, <1>2, <1>6, <2>1, EntryIsUnique
<1>10. MappedLog[i] \in Seq(Requests) /\ Len(MappedLog[i]) = n
  BY MappedLogType
<1>11. \A v \in 1 .. n : MappedLog[i][v] = EntryOf(events, i, v)
  BY DEF MappedLog
<1> HIDE DEF n
<1>12. (MappedLog[i])' = Append(MappedLog[i], r)
  <2>1. (MappedLog[i])' = [v \in 1 .. n + 1 |-> EntryOf(events', i, v)]
    BY <1>6 DEF MappedLog
  <2>2. Append(MappedLog[i], r) =
            [v \in 1 .. n + 1 |-> IF v = n + 1 THEN r ELSE MappedLog[i][v]]
    BY <1>6, <1>10
  <2>3. ASSUME NEW v \in 1 .. n + 1
        PROVE  EntryOf(events', i, v) = IF v = n + 1 THEN r ELSE MappedLog[i][v]
    <3>1. CASE v = n + 1
      BY <1>9, <3>1
    <3>2. CASE v # n + 1
      <4>1. v \in 1 .. n
        BY <1>6, <3>2
      <4> QED
        BY <1>8, <1>11, <3>2, <4>1 DEF n
    <3> QED
      BY <3>1, <3>2
  <2> QED
    BY <2>1, <2>2, <2>3
<1>13. \A j \in Items \ {i} : (MappedLog[j])' = MappedLog[j]
  BY <1>7, <1>8 DEF MappedLog
<1>14. MappedLog' = [MappedLog EXCEPT ![i] = Append(@, r)]
  BY <1>12, <1>13 DEF MappedLog
<1>15. Log!AppendOnce(i, r)
  BY <1>4, <1>5, <1>14 DEF Log!AppendOnce, MappedLog, MappedAppended, EntryOf
<1> QED
  BY <1>15 DEF Log!Next

LEMMA NextLogged == IInv /\ IInv' /\ [Next]_vars => [Log!Next]_Log!vars
<1> SUFFICES ASSUME IInv, IInv', [Next]_vars PROVE [Log!Next]_Log!vars
  OBVIOUS
<1>1. CASE UNCHANGED events
  <2>1. MappedLog' = MappedLog /\ MappedAppended' = MappedAppended
    BY <1>1 DEF MappedLog, MappedAppended, get_item_version, Versions, EntryOf
  <2> QED
    BY <2>1 DEF MappedLog, MappedAppended, EntryOf, Log!vars
<1>2. CASE \E r \in Requests : pc[r] = "append" /\ Insert(EventOf(r))
  BY <1>2, InsertIsAllowed
<1> QED
  BY <1>1, <1>2
  DEF Next, NormalStep, FaultStep, ClockTicks, ServeRequest, RequestStep,
      CheckPrice, CheckStart, ReadVersion, ReadItem, Decide, Append_Stored,
      Append_Conflict, Send, Confirm, Respond, FailRequest, RequestFault,
      ReadFails, AppendFails, SendFails, SendAgain, Dropped, TakeMessage,
      ApplyMessage, CommitOffset, Schedule, DropMessage, FailUpdate,
      MovePartition, Crash, RequestsCrash, vars

LEMMA InitLogged == Init => Log!Init
<1> SUFFICES ASSUME Init PROVE Log!Init
  OBVIOUS
<1>1. IInv
  BY InitIInv
<1>2. events = {}
  BY DEF Init, EventStoreInit
<1>3. MappedAppended = {}
  BY <1>2 DEF MappedAppended
<1>4. ASSUME NEW i \in Items PROVE MappedLog[i] = <<>>
  <2>1. Versions(i) = {}
    BY <1>2 DEF Versions
  <2>2. get_item_version(i) = 0
    BY <2>1, MaxVersion DEF get_item_version
  <2> QED
    BY <1>1, <2>2, MappedLogType, EmptySeq
<1>5. MappedLog = [i \in Items |-> <<>>]
  BY <1>4 DEF MappedLog
<1> QED
  BY <1>3, <1>5 DEF MappedLog, MappedAppended, EntryOf, Log!Init

\* Commands and event store implement EventLog: two reads and a conditional
\* INSERT, repeated on conflict, amount to one atomic append.
THEOREM CommandsAreAppends == Spec => ImplementsEventLog
<1> QED
  BY InitLogged, NextLogged, IInvHolds, PTL
  DEF Spec, ImplementsEventLog, Log!Spec
=============================================================================
