# A formal model of auction-service

`auction-service` is an auction back end in Rust: commands (bid, buy now) are
appended to an event store in PostgreSQL, published through Kafka and applied to
a read model by a consumer; a scheduler opens and closes auctions by the clock.
Everything that can go wrong in it goes wrong *between* two awaits, so the model
keeps every await of the command path, every statement of the scheduler and
every hand-over of a message as a step of its own. There are three models:

* `AuctionService`, the whole service with its commands, its topic and its faults;
* `Transactions`, the read side alone but statement by statement, with row locks,
  connections and GET requests: it justifies the atomic steps of the first model;
* `Startup`, what instances do to the database and to the broker before they serve.

Paths below are relative to the repository (`src/bidding/commands.rs`, ...);
in `PROJECT.json` they carry the prefix `src/`.

## 1. Inventory

| component | code | state | operations | interacts with |
|---|---|---|---|---|
| bidding commands | `src/handlers.rs`, `src/bidding/commands.rs` | locals of each request: retries, version, item row, `now` | `POST /bid`, `POST /buy-now`, the retry loop | read model (queries), event store (append), producer |
| event store | `src/event_store/mod.rs`, `events` in `src/sql/01-create-schema.sql` | table `events`, `UNIQUE (aggregate_id, version)` | conditional INSERT, `MAX(version)` | commands |
| message broker | `src/message_broker/mod.rs` | topics `events` (5 partitions) and `init-topic`, offsets of `events-group` | send, recv, auto-commit; start-up handshake, `create_topic` | commands, event consumer, start-up |
| event consumer | `EventConsumer` in `src/event_store/mod.rs` | none (a loop over `recv`) | apply `BidPlaced` and `BuyNowExecuted` | broker, read model |
| read model | tables `items`, `bids` | price, status, bid rows | UPDATEs of consumer and scheduler | everyone reads it |
| scheduler | `src/scheduler/mod.rs` | its reading of the clock | SCHEDULED -> ACTIVE, ACTIVE -> COMPLETED, every second | read model |
| query service | `src/query/` | none | six GET endpoints, the queries of the commands | read model, event store |
| database manager | `src/database/mod.rs`, `src/sql/` | pool of 5 connections | `transaction`, `initialize_database` | all of the above |
| composition | `src/main.rs` | - | prepares database and broker, starts consumer, scheduler and HTTP server | - |
| test page, tests, deployment | `script.js`, `tests/`, `docker/` | - | - | HTTP |

What makes each of them correct, and which behaviours are hard:

* **commands and event store.** Two reads (version, row) precede a conditional
  INSERT, with any number of other commands in between. The events of an item
  must still be numbered 1..n without gaps, a request must be stored at most
  once, its answer must say what happened, and the loop must end.
* **broker and consumer.** The key of a message is the serial id of its row, so
  events of one item may be handled in any order; offsets are committed
  automatically, so a message may be handled again or not at all; an error in the
  handler is swallowed. The bid history must still ascend, contain only stored
  events, each once, and a sale must stay final.
* **scheduler.** It shares the `status` column with the consumer and runs in every
  instance. A status must have a reason, and every auction must end.
* **transactions and queries.** A handler is an UPDATE and an INSERT, the scheduler's
  UPDATE locks several rows one after the other, and all tasks of a server share one
  pool. Readers and other servers must see all of a transaction or nothing, no task may
  lose its place for good, and what a client has been shown must not be taken back.
* **start-up.** Every instance drops and creates the same database and role, statement
  by statement and outside of a transaction, and waits for a message in a consumer
  group it shares with the others. Instances must not keep each other, nor must the
  debris of an aborted start keep them, from getting through.
* **composition.** Commands judge an item by a read model that lags behind the log.

The complete list, at the line where each bites, is `hazards` in `PROJECT.json`.

## 2. Modules

```
ReadModel <- EventStore <- MessageBroker <- Bidding
EventStore <- EventHandlers;   MessageBroker, EventHandlers <- EventConsumer
ReadModel <- Scheduler
Bidding + EventConsumer + Scheduler -> AuctionService        (Spec, fairness)
EventStore <- Queries;   Queries + Scheduler -> Transactions (Spec)
ReadModel <- ReadModelProperties --INSTANCE--> Auction       (abstract specification)
AuctionService, ReadModelProperties <- AuctionProperties --INSTANCE--> EventLog
AuctionProperties <- DocumentedClaims <- MCAuctionService    (TLC)
Transactions, EventHandlers <- TransactionProperties <- MCTransactions   (TLC)
AuctionProperties <- AuctionServiceProofs <- RequestProofs   (TLAPS)
ReadModelProperties, EventHandlers, Scheduler <- ReadModelProofs         (TLAPS)
AuctionServiceProofs, ReadModelProofs <- ReadSideProofs      (TLAPS)
ReadSideProofs <- RefinementProofs, DeliveryProofs           (TLAPS)
TransactionProperties, ReadModelProofs <- TransactionProofs  (TLAPS)
Startup (Spec, fairness, TLC) <- StartupProofs               (TLAPS)
```

| module | models | remarks |
|---|---|---|
| `ReadModel` | tables `items`, `bids`, the clock | columns no statement updates are CONSTANTS |
| `EventStore` | table `events`, the conditional INSERT, `get_item_version` | `events` is a set of records; the serial id matters only as Kafka key |
| `MessageBroker` | topic, consumer group, producer retries, auto-commit, rebalancing, restart | `inflight[s]` is the message between `recv` and the end of the handler; `position` moves at `recv`; `subscribed` are the servers whose consumer has not ended at `subscribe` |
| `Bidding` | both handlers and the loop | `pc[r]` names the await at which request `r` is suspended |
| `EventHandlers` | `handle_bid_placed`, `handle_buy_now_executed` | one transaction, one step |
| `EventConsumer` | `process_event` between `recv` and the next one | |
| `Scheduler` | `update_auction_statuses` | each of the two UPDATEs is a step; `asof` is the local `now` |
| `AuctionService` | `main` | adds to each component's action what it leaves alone; `Next == NormalStep \/ FaultStep` |
| `EventLog` | - | what commands and store promise: an atomic append per command, at most once |
| `Auction` | - | what readers of `items` and `bids` may rely on: an ascending auction with a fixed selling price |
| `Queries` | the six GET endpoints | an answer is the prices it shows of an item |
| `Transactions` | `DatabaseManager::transaction`, its pool, the statements of handlers and scheduler, GET requests | `conn`, `locked`: what each task holds; `job`, `stage`: where a consumer's transaction is |
| `Startup` | `main` up to `axum::serve`: `initialize_database`, `initialize`, `create_topic` | `pc[s]` names the statement or call that comes next |
| `ReadModelProperties` | - | what readers may rely on, shared by both models of the read side, and what they assume of the log (`ValidLog`) |
| `AuctionProperties` | - | the properties of the service, and the mapping to `EventLog` |
| `TransactionProperties` | - | the properties of `Transactions` |
| `DocumentedClaims` | - | claims of README that the service does not keep |

### How the command path is cut into steps

`handle_bid` / `process_buy_now` and the loop they call, with the value of `pc` while
the code waits at the await:

| `pc` | action(s) | code |
|---|---|---|
| `arrive` | `CheckPrice`, `CheckStart` | `get_item_current_price`; `get_item` + `get_item_buy_now_price` |
| `read_version` | `ReadVersion` | `get_item_version` |
| `read_item` | `ReadItem` | `get_item` |
| `decide` | `Decide` | `Utc::now()`, the checks, the event |
| `append` | `Append_Stored`, `Append_Conflict` | `INSERT .. ON CONFLICT DO NOTHING RETURNING id` |
| `send` | `Send` | `FutureProducer::send`, up to the log of the partition |
| `confirm` | `Confirm` | the delivery report |
| `respond` | `Respond` | `get_item` for the answer (bids only) |
| `done` | - | `reply[r]` holds the code of the answer |

Both loops of `commands.rs` are the same text but for the price check and the event;
`Decide` and `EventOf` tell them apart. A bid of at least `buy_now_price` becomes a
purchase at that price.

### Statements, locks and connections

`Transactions` models PostgreSQL at READ COMMITTED, the level sqlx leaves in place:

* An UPDATE that finds no row takes no lock (`UpdateRow`, `~Hits`). One that finds a row
  locks it until its transaction ends; if somebody else holds it, it waits and checks
  the WHERE clause again (`UpdateRow` is enabled only when the row is free, and looks at
  the committed row; `StillSelected` for the scheduler).
* What a transaction writes becomes visible at its COMMIT: `Written` applies it there.
  `Rollback` covers a failed statement or commit, a pool that timed out, a closure that
  is dropped, and a server that dies.
* `update_auction_statuses` runs each UPDATE on the pool, so each is a transaction and
  takes a connection of its own. It visits the rows its snapshot selected in any order
  (`VisitRow`), which is how two schedulers come to wait for each other.
* The snapshot is taken in the step in which the connection is acquired, and a reader
  takes its connection only when one is free. Neither can be told apart by another task.
* Events are given (`StoredEvents`) and are delivered to any consumer any number of
  times, in any order, once they can exist: that is weaker than what broker and
  consumer group do. `StoredEventsAssumption` and `Stored` say what `Bidding`
  guarantees of an event; `CommandsWriteValidLogs` proves that it does.
* The requests of the command path are not among the tasks: each of their statements
  takes a connection and gives it back without waiting for a row that somebody else
  may hold for long, exactly as a reader does.

### Start-up

`Startup` executes the two scripts as `execute_multi_query` does, statement by statement:
the DROPs and CREATEs of `00-recreate-db.sql` each by an action of its own, the 10 CREATEs
and 3 INSERTs of `01-create-schema.sql` by `CreateObject` and `InsertRow` (`Objects` and `Rows`),
of which an instance has executed `line[s]`. `Init` allows every combination of database,
role and a first part of the schema that earlier deployments may have left; a start that
dies leaves one too. No statement drops an object of the schema and all create them in
the same order, so what exists is always such a first part (`created`). Of several instances at the same statement, one wins and another may
fail although the statement says `IF [NOT] EXISTS` (`Collides`): PostgreSQL checks first and
inserts into the catalogue afterwards. All messages of `init-topic` have the key `init-key`, so of its
partitions (6 by `KAFKA_NUM_PARTITIONS` of `docker-compose.yaml`) one is used. It is held by one
member of `events-group`, possibly one that has died (`holder`), and passes to another with
any offset between the last commit and the last position (`Assign`); an instance that is
started again is a new member and gets it in the same way. An instance is
content with any `init-message`, also that of another one or of an earlier start. After
`create_topics`, which returns `Ok` also if the result of the topic is "exists already",
the instance subscribes to `events` and leaves `init-topic`. An error that `recv` returns
(`RecvFails`) starts another turn of the loop without counting an attempt (`TurnAgain`).

The scripts are about a database `auction` and a role `demo`, whereas `DATABASE_URL` of the
deployment names `postgres`: the DROP does not touch the tables that serve, and
`01-create-schema.sql` uses `IF NOT EXISTS`. So tables survive a restart, as
`AuctionService` assumes, and each start adds the sample items once more; new items are
what that model's `Items` start with.

### Abstractions

* A request is its own bidder: nothing looks into `bidder_id`, and clients may
  choose it freely.
* Amounts and times are small integers; the code only compares them, so the width
  of `i64` plays no role.
* One clock for all servers: the code calls `Utc::now()` everywhere and PostgreSQL's
  clock enters only timestamps that nothing reads.
* An unknown item makes a query fail, as does a lost connection: `ReadFails`.
  (The handlers answer 404 or 400 instead of 500; both are `"ERROR"`.)
* `INVALID_STATUS` is not reachable: only three statuses are ever written, and the
  other two are dealt with before.
* Only events that this code produces are in the topic, so the branches for unknown
  types and malformed payloads of `process_event` are left out.
* A message that is in the producer's queue when its request is dropped is sent all
  the same; this is `Dropped` after `Send`. A record that reaches the log after its
  time-out was reported is `Send` followed by `SendFails`. In both cases the record
  is placed a little earlier than in reality, which no other step can tell apart
  except through the answer, and the answer is the same.

### Faults

`ReadFails`, `AppendFails` (with or without effect), `SendFails`, `SendAgain` (a producer
retry whose first attempt had succeeded), `Dropped` (the client hung up, or the
`unwrap` in `handle_bid` panicked), `ProcessFails` (logged and swallowed), `UpdateFails`,
`Rebalance` (with and without the revoked owner's commit, also while it still handles
a message), `Crash` (of a server with its requests, its message and its scheduler), after which
`subscribe` may fail (`Subscribe`): then the server runs without a consumer until its next crash.
`Transactions` adds `Rollback`, `StatementFails` and `AskFails`; `Startup` adds
`SendInitFails`, `TimesOut`, `RecvFails`, `Collides` and `Die`. There is no bound on the number of
faults; only starts are counted (`MaxStarts`).

## 3. Runs

Runs of the service use `MCAuctionService`, those of the read side `MCTransactions`, and
`startup` uses `Startup` itself. Bounds: `MaxTime` on the clock, `MaxCopies` on the copies
of a record, `MaxStarts` on starts, finite sets of requests, servers, partitions and
instances. `MaxRetries` is `MAX_RETRIES` (100 in the code); 2 is the smallest value with
which a request both retries and gives up, and `progress` and `servers`, whose two
requests conflict at most once, use 1. `PoolSize` is `max_connections` (5 in the code); 1 is
the value with which tasks wait for each other's connections, and with 3 or more the model's
three tasks of a server never do. `MaxAttempts` is `max_attempts` (10 in the code), `Objects` and
`Rows` are the statements of `01-create-schema.sql` (10 and 3; the proofs take any number).
In `faults`, `servers` and `rivals` the clock stands still and no auction is due, so the schedulers
change nothing; `SchedulersAsleep` leaves out the states in which they are awake.
Symmetry (requests, servers, partitions) is used in runs without liveness properties only.

| run | instance | shows |
|---|---|---|
| `rivals` | 3 requests, no faults | `GaplessVersions`, `OneEventPerRequest`, `RetriesSuffice`, `NothingLost`; the commands implement `EventLog` |
| `faults` | 2 requests, 2 partitions, 2 copies, all faults | `TypeOK`, `BidHistoryAscends`, `BidsAreStoredEvents`, `RepliesAreTruthful` |
| `hours` | 2 requests, times 0..3 around an auction over [1, 2], all faults | `BidsWithinHours`, `StatusHasReason`; the service implements `Auction` |
| `servers` | 2 servers, all faults | `SoldIsFinal`, `LostOnlyInHand` |
| `answers` | 2 requests, all faults, fairness | `EveryRequestAnswered` |
| `progress` | 2 bids, 2 partitions, times 0..2, no faults, fairness | `HighestBidWins`, `AuctionsEnd` |
| `readside` | 2 servers with 1 connection each, 2 items, 3 events repeated at will | `TypeOK`, `WritesAreAtomic`, `AnswersNeverGoBack`, `OnlySchedulersDeadlock`; the statements implement `Auction` too |
| `startup` | 3 instances, 3 starts, all faults, fairness | `TypeOK`, `NotAllFail`, `LoneStartGetsThrough`, `ServesOnFullSchema`, `MessageForEveryone`, `StartSettles` |

Why the bounds are enough for the cases in question:

* A request gives up only after `MaxRetries` conflicts, so 3 requests and
  `MaxRetries = 2` reach `MAX_RETRIES_EXCEEDED`, and a third request that
  appends between the reads and the INSERT of another exists.
* 2 partitions suffice for an inversion of two events, 2 copies for a duplicate, and a
  rebalance for a repetition of a whole prefix.
* Times 0..3 contain "before", both ends of [`start_time`, `end_time`] and "after".
  At `end_time` itself a bid is still accepted by `Ended` while `EndAuctions` is due.
* In `progress` the auction lasts from 1 to 2: the scheduler can miss the moment at which it
  starts and has to catch up with it.
* The commands are: a bid of 1, a bid of 2, a bid above `buy_now_price` (which is 3)
  and a purchase; the starting price is 0.
* 2 servers suffice for a message handled by the old and the new owner of a partition,
  and for one scheduler overtaking the other between its two statements.
* 2 items whose UPDATEs visit them in opposite order make schedulers deadlock; the
  auction of the first is over when that of the second begins, so both UPDATEs have
  rows to change at the same time. A bid and a purchase of one item compete, a bid on
  the other one keeps a second consumer busy. `readside` leaves out `GET /auction/:id`, which
  shows no price (see `auction_state`).
* With 2 objects and 1 row a start can die before, within and after the CREATEs and
  another one overtake it there.
* 3 starts are an instance with two others, or one that starts again twice. With 2
  attempts an instance both waits on after a time-out and gives up. `startup` sets
  `CHECK_DEADLOCK FALSE` because instances may all have stopped for good when the bound
  on starts is reached.

Every property is accompanied by a mutant of the code (operators named "Mutant of .."
next to the definition they change) under which its run fails.

### Fairness

`FairSpec` and `FaultFreeSpec` assume weak fairness of the clock, of each request, and of
each server's consumer loop and scheduler. Tokio polls every task that is ready; the
database and the broker answer every query, possibly with an error (the producer gives
up after `message.timeout.ms`); the interval of the scheduler fires each second. A single
request's fairness covers all its actions, so nothing is assumed about who wins a
conflict. No fairness is assumed of auto-commit or of any fault.

`Startup` assumes weak fairness of each instance's own steps: every statement, send and
admin request returns, and so does `time::timeout`. Nothing is assumed about what `recv`
returns: it may report errors for ever, which the code does not count (a broker that is down
does so), and then a start goes on waiting. `StartSettles` says that this is the only way for a
start not to come to an end. Nor is anything assumed about who gets the partition, so an instance may give up although a message waits for it.

`Transactions` is about safety only: a task waits as long as its row or its connection is
held, and what it may wait for is `OnlySchedulersDeadlock`. The knot it allows is real:
two schedulers wait for each other's rows, and PostgreSQL ends one of them.

### Claims that fail

Each of these runs refutes one statement of the README, with the fault-free
specification where possible:

| run | claim | counterexample |
|---|---|---|
| `two_sales` | purchases keep the data consistent (`README.md`:10) | two purchases pass the status check before the consumer handles either; both get 200, the second is dropped by `status != 'COMPLETED'` |
| `sale_undone` | the same of one purchase | a purchase is accepted at `end_time`; the scheduler completes the item; the consumer drops the purchase |
| `unpublished` | stored events are published (`README.md`:99) | the send fails after the INSERT; nothing repeats it |
| `auction_state` | the state of an auction can be looked up (`README.md`:30) | the SELECT of `GET /auction/:id` lacks `buy_now_price`, which decoding into `Item` requires; the answer is 500 for every existing item |

What readers see stays a correct auction in all these cases (`ImplementsAuction`); what
fails is the link between an answer and the read side. (Two more statements that do
not agree with the code have no run: `README.md`:116 says that the topic is partitioned by
item, but the key is the serial id of the row, whence the reordering in `faults` and
`progress`; and `tests/integration_tests.rs`:66 expects a confirmed bid in the price, which
one failing transaction of the consumer prevents, as its error is swallowed and the
offset committed.)

## 4. Proofs

TLAPS proves the following of `Spec` (two of them, as marked, of `FaultFreeSpec`), that is under all
faults and for every value of the constants that the named assumptions allow
(`ItemAssumption`, `BrokerAssumption`, `CommandAssumption`; for `Transactions` also
`StoredEventsAssumption`, `PoolAssumption` and `AskedAssumption`; for `Startup`
`StartupAssumption`). `MaxTime`, `MaxCopies` and `MaxStarts` are arbitrary, sets may be
infinite.

| theorem | module | property |
|---|---|---|
| `TypesHold` | `AuctionServiceProofs` | `TypeOK` |
| `VersionsAreGapless` | `AuctionServiceProofs` | `GaplessVersions` |
| `RequestsStoreOnce` | `AuctionServiceProofs` | `OneEventPerRequest` |
| `AnswersAreTruthful` | `RequestProofs` | `RepliesAreTruthful` |
| `RivalsExhaustRetries` | `RequestProofs` | `RetriesSuffice` |
| `RequestsRunDown` | `RequestProofs` | the safety half of `EveryRequestAnswered` |
| `CommandsWriteValidLogs` | `ReadSideProofs` | the log is as `Transactions` assumes |
| `HistoriesAscend` | `ReadSideProofs` | `BidHistoryAscends` |
| `BidsAreStored` | `ReadSideProofs` | `BidsAreStoredEvents` |
| `BidsAreInTime` | `ReadSideProofs` | `BidsWithinHours` |
| `StatusesHaveReasons` | `ReadSideProofs` | `StatusHasReason` |
| `SalesAreFinal` | `ReadSideProofs` | `SoldIsFinal` |
| `PassesCatchUp` | `ReadSideProofs` | the safety half of `AuctionsEnd` |
| `ServiceIsAuction` | `RefinementProofs` | `ImplementsAuction` |
| `CommandsAreAppends` | `RefinementProofs` | `ImplementsEventLog` |
| `LossesAreInHand` | `DeliveryProofs` | `LostOnlyInHand` |
| `NothingIsLost` | `DeliveryProofs` | `NothingLost`, of `FaultFreeSpec` |
| `SettledPricesAreHighest` | `DeliveryProofs` | what `HighestBidWins` says of an item without events on their way, of `FaultFreeSpec` |
| `StatementsTyped` | `TransactionProofs` | `TypeOK` of `Transactions` |
| `ShownPricesStay` | `TransactionProofs` | `AnswersNeverGoBack` |
| `KnotsHaveSchedulers` | `TransactionProofs` | `OnlySchedulersDeadlock` |
| `LoneServerUntied` | `TransactionProofs` | no `Knot` at all with a single server |
| `StatementsAreAtomic` | `TransactionProofs` | `WritesAreAtomic` |
| `StatementsAreAuction` | `TransactionProofs` | `ImplementsAuction`, of `Transactions` |
| `StartupTypes` | `StartupProofs` | `TypeOK` of `Startup` |
| `SomeStartSurvives` | `StartupProofs` | `NotAllFail` |
| `LoneStartsSurvive` | `StartupProofs` | `LoneStartGetsThrough` |
| `NobodyRunsOut` | `StartupProofs` | `MessageForEveryone` |
| `FullSchema` | `StartupProofs` | `ServesOnFullSchema` |
| `StartsRunDown` | `StartupProofs` | the safety half of `StartSettles` |

**The log.** `GaplessVersions` is not inductive: nothing in it says that a version a
request holds exists, or that a request at its INSERT has not stored before.
`IInv == TypeOK /\ LogInv` adds both: the log of each item is numbered by an initial
segment of the naturals, a request holds a version that the log has reached, and
a request has no event up to its INSERT and never more than one. It also settles a point
one would overlook: `MAX(version)` is written with `Max` of a set, which means something
only because the versions are 1..n. The lemmas about `get_item_version` state its value
from that, and the steps of the proof are the actions of `AuctionService`.

**The answers.** `RequestInv == ReplyInv /\ RetryInv`. `ReplyInv` says what each `pc` and each
`reply` implies about the log and the topic. `RetryInv` says that a
request has failed at most as often as the version it has read says: a conflict means
that the log of the item has grown past that version since. So a request that
gives up has seen the log reach `MAX_RETRIES`; by `GaplessVersions` there are as many
events, by `OneEventPerRequest` they belong to as many requests, and by `ReplyInv` the
request is none of them. This holds for an infinite set of requests too.
`RequestsRunDown` is about the end of the loop: the `Rank` of a request, four for each retry it
has left and one for each await, is at most `4 * MAX_RETRIES + 8`, falls with each of its
steps and is raised by no rival and no fault.

**The tables.** `ReadModelProofs` is about `items` and `bids` whoever writes them. They see
three kinds of writes (`TablesStep`): a handler whose UPDATE has found a row (`Handles`), and
the two UPDATEs of the scheduler (`Opens`, `Closes`), each with a reading of the clock that
may be old and on any part of what is due. `TablesInv` survives them: `BidHistoryAscends`,
`BidsAreStoredEvents` and `StatusHasReason`, over a log that is valid (`ValidLog`: every event
within its auction's hours, a bid below `buy_now_price`, a purchase at it, one per request).
They hold together only: a sold item has the highest price any event can offer
(`SoldPrice`), so no UPDATE of a handler finds it (`SoldUntouched`), and only the recording of a
purchase makes an item sold (`SoldAfter`). Each write is a Raise, a Sell, an Open or a Close of
`Auction` (`TablesStepAllowed`); that a bidder is recorded once (`RecordedOnce`) is where the
command side enters: a second copy of an event does not exceed the price that its first one
has left, and in a valid log there is no other event of that bidder.

**The service as a writer.** Why the log is valid depends on the commands. `Traced` says that
nothing is in a partition or in the hands of a consumer that is not stored, and that each
stored event is `Lawful`: valid, not from the future, and its auction has started.
`RequestLawful` extends this back to the request that builds the event. It relies on
`Forward`: what a request has read of the status may be old, but an auction does not return
to SCHEDULED. `ReadModelSteps` reduces the steps of the service to `TablesStep`, and
`ReadInv == Traced /\ TablesInv` gives the invariants and `ServiceIsAuction`. `PassesCatchUp` adds
`NoneLeftBehind`: between its two statements a scheduler finds no auction SCHEDULED that
its reading of the clock had opened, whoever runs in between, so the second statement
completes even an auction whose start and end both were missed.

**The statements as a writer.** `Transactions` never updates a table before COMMIT, so what
has to be shown is that at COMMIT the row still is as the UPDATE found it. `TxInv` says: locks
exclude each other (`LocksExclude`); a consumer has a lock only after its UPDATE, only on the
row of its event, and that row still satisfies the WHERE clauses (`ConsumerInv`); the rows
a scheduler has locked or still has to visit are due by its reading of the clock, and those of
the first UPDATE are all that are, because nothing becomes SCHEDULED (`SchedulerInv`). A step of
one task leaves the rest of it alone (`Apart`, `OthersKept`), because it writes only rows it
has locked. So a COMMIT is a `Handles`, the end of an UPDATE an `Opens` of all that is due or a
`Closes` of some of it, and the results about the tables apply (`StatementsKeepTables`).
`WritesAreAtomic` and `ImplementsAuction` follow. For the answers, `ShownBelowPrice` says that
nobody was shown more than `current_price`; an item with a price above `starting_price` has bids,
and then every endpoint shows `current_price` (`PricesAreUpToDate`). For the knots: a task that
holds a lock has its connection, so it waits for a row or not at all; a consumer with a lock
does not wait (`LockedInKnot`); and a wait for connections ends at somebody who holds one
(`KnotHasRowWait`). The tasks of the knot that hold locks are therefore schedulers, and wait
for each other. One of a single server would wait for itself.

**The log as atomic appends.** For `EventLog`, versions are unique and gapless, so the mapping
chooses the only event of each version (`EntryIsUnique`, `EntryExists`), and a successful INSERT
adds exactly one entry at the end of one log (`InsertIsAllowed`), whether or not the request
learns of it (`AppendFails`).

**Delivery.** `LostOnlyInHand` is proved of `Spec`, `NothingLost` of `FaultFreeSpec`. Both need
three facts about the consumers (`DeliveryInv`): a position never exceeds the log
(`PositionsInLog`), a commit never exceeds the position (`CommitsBehind`), so that a rebalance
or a restart only moves back, and a loop handles one message at a time (`OneAtATime`), as
otherwise the end of a handler could lose another message. `StepDelivers` goes through the
normal steps and the faults one by one. What has had its effect keeps it because prices do not fall and COMPLETED is final
(`ReflectedKept`), for which `ReadInv` is used again. `SettledPricesAreHighest` is the safety half
of `HighestBidWins`: if no event of an item is on its way, all have been reflected, so the price
is at least every accepted bid, and it is one of them (`PriceIsOffered`). That deliveries come to
an end is what TLC adds.

**The start.** `NotAllFail` is not inductive: instances that are all about to fail satisfy
it. `Ahead` adds what keeps the last one from failing: whatever would make somebody's
next statement fail (the database exists at DROP USER, the role exists at CREATE USER or
is missing at CREATE DATABASE) was done by an instance that has got past that statement
since, or one that has not begun. `Undisturbed` is the same for a single instance: as long as
nobody has interfered with it, database and role are what its script has left them.
`MessageForEveryone` becomes inductive with the finiteness of the set of waiting
instances (`Enough`): each of them has sent before it waits, a receipt takes one message
and one waiting instance, and a rebalance only moves the position back. `ServesOnFullSchema`
follows from `Executed`: what an instance has executed of the schema exists. `StartsRunDown`
ranks an instance by the statements of its scripts and the attempts it has left, as
`RequestsRunDown` does for requests. Its rank falls with each of its steps but those of a turn in
which `recv` returns an error (`ReportsError`), which leave it as it is: the code bounds
everything about a start except the number of these turns.

**Only model-checked.** Liveness: `EveryRequestAnswered`, `HighestBidWins`, `AuctionsEnd` and
`StartSettles` stay with TLC, because the prover does not deal with `ENABLED`. The safety half of
each is proved (`RequestsRunDown`, `SettledPricesAreHighest`, `PassesCatchUp`, `StartsRunDown`);
what TLC adds is that, under fairness, the steps are taken, and for `HighestBidWins` also that
deliveries come to an end. Every invariant
and every action property of a passing run is a theorem.

## 5. Plan

Every run's safety property is a theorem. What is left is to tie the pieces closer together:

1. The rank of an event under way in `FaultFreeSpec` (its request, its partition, its consumer)
   as the third run-down theorem, for `HighestBidWins`.
2. The statements of `Transactions` as an implementation of the handlers' and the
   scheduler's actions with their own variables, not only of their writes.

**Not modelled, and why.** HTTP parsing, routing, CORS and logging have no state. The
test page (`script.js`, `index.html`) is a manual client: the service relies on nothing it
does, and the handlers repeat each of its checks. Tests and deployment files are sources
of claims and of configuration. Deletion of rows by the tests' clean-up is not an
operation of the service.
