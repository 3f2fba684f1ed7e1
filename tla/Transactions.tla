---------------------------- MODULE Transactions -----------------------------
(***************************************************************************)
(* The statements behind the atomic steps of EventHandlers and Scheduler,  *)
(* and the queries of the read side next to them, as PostgreSQL runs them  *)
(* at READ COMMITTED.  DatabaseManager::transaction takes a connection of  *)
(* the server's pool for BEGIN .. COMMIT, a single statement takes one for *)
(* itself.  An UPDATE locks a row until its transaction ends; it waits for *)
(* a row another transaction has locked and then looks at it again.        *)
(* The table events is given, and its messages come any number of times.   *)
(***************************************************************************)
EXTENDS Queries, Scheduler, ReadModelProperties

CONSTANTS
    StoredEvents,   \* the rows of table events
    PoolSize,       \* max_connections of the pool of each server
    Asked           \* the endpoints that clients ask

\* Bidding writes no other log.
ASSUME StoredEventsAssumption == ValidLog(StoredEvents)
ASSUME PoolAssumption == PoolSize \in Nat \ {0}
ASSUME AskedAssumption == Asked \subseteq Endpoints

\* The tasks of a server that use its pool.
Tasks == [server : Servers, role : {"consumer", "scheduler", "reader"}]

VARIABLES
    conn,       \* what a task has of the pool: "none", "wanted" or "held"
    job,        \* the event a consumer is handling, if any
    stage,      \* the statement of its transaction that comes next
    locked,     \* the rows of items locked by a task's transaction
    todo,       \* the rows that the statement of a scheduler has yet to visit
    told,       \* the highest price of an item that a client has been shown
    broken      \* endpoints that found the item and answered 500

txVars == <<conn, job, stage, locked, todo>>
clientVars == <<told, broken>>
vars == <<now, itemVars, events, schedulerVars, txVars, clientVars>>

TypeOK ==
    /\ ReadModelTypeOK
    /\ SchedulerTypeOK
    /\ events = StoredEvents
    /\ conn \in [Tasks -> {"none", "wanted", "held"}]
    /\ \A s \in Servers :
          Cardinality({t \in Tasks : t.server = s /\ conn[t] = "held"}) <= PoolSize
    /\ job \in [Servers -> SUBSET StoredEvents]
    /\ stage \in [Servers -> {"idle", "update", "insert", "commit"}]
    /\ locked \in [Tasks -> SUBSET Items]
    /\ todo \in [Servers -> SUBSET Items]
    /\ told \in [Items -> Int]
    /\ broken \subseteq Asked

Init ==
    /\ ReadModelInit
    /\ SchedulerInit
    /\ events = StoredEvents
    /\ conn = [t \in Tasks |-> "none"]
    /\ job = [s \in Servers |-> {}]
    /\ stage = [s \in Servers |-> "idle"]
    /\ locked = [t \in Tasks |-> {}]
    /\ todo = [s \in Servers |-> {}]
    /\ told = StartingPrice
    /\ broken = {}

-----------------------------------------------------------------------------
(* The pool and the row locks.                                             *)

Consumer(s) == [server |-> s, role |-> "consumer"]
Updater(s) == [server |-> s, role |-> "scheduler"]
Reader(s) == [server |-> s, role |-> "reader"]

PoolFull(s) ==
    Cardinality({t \in Tasks : t.server = s /\ conn[t] = "held"}) >= PoolSize

Want(t) == conn' = [conn EXCEPT ![t] = "wanted"]

\* The transaction ends: its locks and its connection are free again.
Release(t) ==
    /\ conn' = [conn EXCEPT ![t] = "none"]
    /\ locked' = [locked EXCEPT ![t] = {}]

\* Mutant of RowFree: nothing is locked between the check and the write.
NoRowLock(t, i) == TRUE

RowFree(t, i) == \A u \in Tasks \ {t} : i \notin locked[u]

Lock(t, i) == locked' = [locked EXCEPT ![t] = @ \cup {i}]

\* Mutant of Acquire: a connection is opened whenever one is wanted.
AcquireUnbounded(t) ==
    /\ conn[t] = "wanted"
    /\ conn' = [conn EXCEPT ![t] = "held"]

Acquire(t) ==
    /\ conn[t] = "wanted"
    /\ ~PoolFull(t.server)
    /\ conn' = [conn EXCEPT ![t] = "held"]

-----------------------------------------------------------------------------
(* DatabaseManager::transaction as both handlers of the consumer use it.   *)

\* Bidding has stored e by now: its auction has started, by the clock and by
\* the status (Decide and NotStarted of Bidding).
Stored(e) == e \in events /\ e.time <= now /\ status[e.item] # "SCHEDULED"

\* recv() returned e and BEGIN needs a connection.
Begin(s) ==
    /\ stage[s] = "idle"
    /\ \E e \in events : Stored(e) /\ job' = [job EXCEPT ![s] = {e}]
    /\ Want(Consumer(s))
    /\ stage' = [stage EXCEPT ![s] = "update"]
    /\ UNCHANGED <<itemVars, schedulerVars, locked, todo>>

BeginAcquires(s) ==
    /\ Acquire(Consumer(s))
    /\ UNCHANGED <<itemVars, schedulerVars, job, stage, locked, todo>>

\* The WHERE clauses of the two UPDATEs, on the committed row.
Hits(e) ==
    /\ current_price[e.item] < e.amount
    /\ e.kind = "BuyNowExecuted" => status[e.item] # "COMPLETED"

\* Mutant of UpdateRow: the UPDATE runs on the pool and not in the transaction.
UpdateOutside(s) ==
    /\ stage[s] = "update" /\ conn[Consumer(s)] = "held"
    /\ \E e \in job[s] :
        \/ /\ ~Hits(e)
           /\ stage' = [stage EXCEPT ![s] = "commit"]
           /\ UNCHANGED <<current_price, locked>>
        \/ /\ Hits(e) /\ RowFree(Consumer(s), e.item)
           /\ Lock(Consumer(s), e.item)
           /\ current_price' = [current_price EXCEPT ![e.item] = e.amount]
           /\ stage' = [stage EXCEPT ![s] = "insert"]
    /\ UNCHANGED <<status, bids, schedulerVars, conn, job, todo>>

\* UPDATE items .. RETURNING current_price: no row, or a row that is locked.
\* While another transaction holds it the statement waits.
UpdateRow(s) ==
    /\ stage[s] = "update" /\ conn[Consumer(s)] = "held"
    /\ \E e \in job[s] :
        \/ /\ ~Hits(e)
           /\ stage' = [stage EXCEPT ![s] = "commit"]
           /\ UNCHANGED locked
        \/ /\ Hits(e) /\ RowFree(Consumer(s), e.item)
           /\ Lock(Consumer(s), e.item)
           /\ stage' = [stage EXCEPT ![s] = "insert"]
    /\ UNCHANGED <<itemVars, schedulerVars, conn, job, todo>>

InsertBid(s) ==
    /\ stage[s] = "insert"
    /\ stage' = [stage EXCEPT ![s] = "commit"]
    /\ UNCHANGED <<itemVars, schedulerVars, conn, job, locked, todo>>

EndJob(s) ==
    /\ job' = [job EXCEPT ![s] = {}]
    /\ stage' = [stage EXCEPT ![s] = "idle"]
    /\ Release(Consumer(s))
    /\ UNCHANGED <<schedulerVars, todo>>

\* What a committed transaction has written, if its UPDATE had a row.
Written(s) ==
    \E e \in job[s] :
        \/ locked[Consumer(s)] = {} /\ UNCHANGED itemVars
        \/ /\ locked[Consumer(s)] # {}
           /\ current_price' = [current_price EXCEPT ![e.item] = e.amount]
           /\ status' = [status EXCEPT ![e.item] =
                            IF e.kind = "BuyNowExecuted" THEN "COMPLETED" ELSE @]
           /\ bids' = [bids EXCEPT ![e.item] =
                          Append(@, [bidder |-> e.bidder, amount |-> e.amount,
                                     time |-> e.time])]

\* Mutant of Commit: one transaction for a batch of messages.
CommitBatch(s) ==
    /\ stage[s] = "commit"
    /\ \/ Written(s) /\ EndJob(s)
       \/ /\ \E e \in events \ job[s] :
                Stored(e) /\ job' = [job EXCEPT ![s] = {e}]
          /\ stage' = [stage EXCEPT ![s] = "update"]
          /\ UNCHANGED <<itemVars, schedulerVars, conn, locked, todo>>

Commit(s) ==
    /\ stage[s] = "commit"
    /\ Written(s)
    /\ EndJob(s)

\* The pool times out, a statement or the COMMIT fails, or the server dies:
\* nothing of the transaction remains.
Rollback(s) ==
    /\ stage[s] # "idle"
    /\ EndJob(s)
    /\ UNCHANGED itemVars

-----------------------------------------------------------------------------
(* update_auction_statuses: each UPDATE on a connection and a transaction  *)
(* of its own.  It visits the rows its snapshot selects in any order.      *)

Target(s) == IF phase[s] = "start_due" THEN <<"SCHEDULED", "ACTIVE">>
                                       ELSE <<"ACTIVE", "COMPLETED">>
Selects(s) == Due(Target(s)[1],
                  IF phase[s] = "start_due" THEN StartTime ELSE EndTime,
                  asof[s])

TickFires(s) ==
    /\ Wake(s)
    /\ Want(Updater(s))
    /\ UNCHANGED <<job, stage, locked, todo>>

\* The statement starts; no other step can tell when after the acquisition.
StatementStarts(s) ==
    /\ Acquire(Updater(s))
    /\ todo' = [todo EXCEPT ![s] = Selects(s)]
    /\ UNCHANGED <<itemVars, schedulerVars, job, stage, locked>>

VisitRow(s) ==
    /\ conn[Updater(s)] = "held"
    /\ \E i \in todo[s] :
        /\ RowFree(Updater(s), i)
        /\ Lock(Updater(s), i)
        /\ todo' = [todo EXCEPT ![s] = @ \ {i}]
    /\ UNCHANGED <<itemVars, schedulerVars, conn, job, stage>>

\* Mutant of StillSelected: a row is not looked at again after a wait.
Snapshot(s) == locked[Updater(s)]

\* A row that changed between snapshot and lock is checked again.
StillSelected(s) == {i \in locked[Updater(s)] : status[i] = Target(s)[1]}

\* The statement ends and commits; the second one follows the first.
StatementEnds(s) ==
    /\ conn[Updater(s)] = "held" /\ todo[s] = {}
    /\ SetStatus(StillSelected(s), Target(s)[2])
    /\ locked' = [locked EXCEPT ![Updater(s)] = {}]
    /\ \/ /\ phase[s] = "start_due"
          /\ phase' = [phase EXCEPT ![s] = "end_due"]
          /\ Want(Updater(s))
          /\ UNCHANGED asof
       \/ /\ phase[s] = "end_due"
          /\ Sleep(s)
          /\ conn' = [conn EXCEPT ![Updater(s)] = "none"]
    /\ UNCHANGED <<current_price, bids, job, stage, todo>>

\* As Rollback; also what the deadlock detector does to one of two schedulers.
StatementFails(s) ==
    /\ phase[s] # "asleep"
    /\ Sleep(s)
    /\ Release(Updater(s))
    /\ todo' = [todo EXCEPT ![s] = {}]
    /\ UNCHANGED <<itemVars, job, stage>>

-----------------------------------------------------------------------------
(* A GET request: one SELECT in a transaction.                             *)

\* A request that waits for a connection has not asked yet.
Ask(s) ==
    /\ conn[Reader(s)] = "none" /\ ~PoolFull(s)
    /\ conn' = [conn EXCEPT ![Reader(s)] = "held"]
    /\ UNCHANGED clientVars

Answer(s) ==
    /\ conn[Reader(s)] = "held"
    /\ \E ep \in Asked, i \in Items :
        \/ /\ Decodes(ep)
           /\ told' = [told EXCEPT ![i] = Max({@} \cup PricesShown(ep, i))]
           /\ UNCHANGED broken
        \/ /\ ~Decodes(ep)
           /\ broken' = broken \cup {ep}
           /\ UNCHANGED told
    /\ conn' = [conn EXCEPT ![Reader(s)] = "none"]

AskFails(s) ==
    /\ conn[Reader(s)] # "none"
    /\ conn' = [conn EXCEPT ![Reader(s)] = "none"]
    /\ UNCHANGED clientVars

-----------------------------------------------------------------------------

ConsumerStep(s) ==
    /\ \/ Begin(s) \/ BeginAcquires(s) \/ UpdateRow(s) \/ InsertBid(s)
       \/ Commit(s) \/ Rollback(s)
    /\ UNCHANGED <<now, events, clientVars>>

StatementStep(s) ==
    /\ \/ TickFires(s) \/ StatementStarts(s) \/ VisitRow(s)
       \/ StatementEnds(s) \/ StatementFails(s)
    /\ UNCHANGED <<now, events, clientVars>>

QueryStep(s) ==
    /\ Ask(s) \/ Answer(s) \/ AskFails(s)
    /\ UNCHANGED <<now, itemVars, events, schedulerVars, job, stage, locked, todo>>

Next ==
    \/ Tick /\ UNCHANGED <<events, schedulerVars, txVars, clientVars>>
    \/ \E s \in Servers : ConsumerStep(s) \/ StatementStep(s) \/ QueryStep(s)

Spec == Init /\ [][Next]_vars
=============================================================================
