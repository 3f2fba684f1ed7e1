---------------------------- MODULE MessageBroker ----------------------------
(***************************************************************************)
(* The Kafka topic "events" and the consumer group "events-group", as      *)
(* src/message_broker/mod.rs configures and drives them: several           *)
(* partitions, a producer with at-least-once retries, and a consumer with  *)
(* enable.auto.commit, whose position moves when a message is handed to    *)
(* the loop of consume_events and not when the handler has finished.  The  *)
(* broker itself is outside the repository.                                *)
(***************************************************************************)
EXTENDS EventStore

CONSTANTS
    Partitions,     \* partitions of topic "events"
    MaxCopies       \* bound on the copies a producer retry may leave

ASSUME BrokerAssumption == MaxCopies \in Nat \ {0}

VARIABLES
    topic,      \* the log of each partition
    owner,      \* the group member each partition is assigned to
    position,   \* number of messages of a partition handed to its owner
    committed,  \* committed offset of the group
    inflight,   \* the message a server's consumer loop is handling, if any
    subscribed  \* the servers that run a consumer

brokerVars == <<topic, owner, position, committed, inflight, subscribed>>

BrokerTypeOK ==
    /\ topic \in [Partitions -> Seq(Event)]
    /\ owner \in [Partitions -> Servers]
    /\ position \in [Partitions -> Nat]
    /\ committed \in [Partitions -> Nat]
    /\ inflight \in [Servers -> SUBSET Event]
    /\ subscribed \subseteq Servers

BrokerInit ==
    /\ topic = [p \in Partitions |-> <<>>]
    /\ owner \in [Partitions -> Servers]
    /\ position = [p \in Partitions |-> 0]
    /\ committed = [p \in Partitions |-> 0]
    /\ inflight = [s \in Servers |-> {}]
    /\ subscribed = Servers

Published(e) == \E p \in Partitions : e \in Range(topic[p])

\* The key of a message is the serial id of its events row, so its hash may
\* send the event of any item to any partition.
PartitionsFor(e) == Partitions

\* The broker appends the record of FutureProducer::send.
Produce(e) ==
    \E p \in PartitionsFor(e) :
        /\ topic' = [topic EXCEPT ![p] = Append(@, e)]
        /\ UNCHANGED <<owner, position, committed, inflight, subscribed>>

\* A retry whose first attempt had reached the log after all: the same
\* partition gets a second copy.
ProduceAgain(e) ==
    \E p \in Partitions :
        /\ e \in Range(topic[p])
        /\ Cardinality({k \in DOMAIN topic[p] : topic[p][k] = e}) < MaxCopies
        /\ topic' = [topic EXCEPT ![p] = Append(@, e)]
        /\ UNCHANGED <<owner, position, committed, inflight, subscribed>>

\* Mutant of Receive: auto.offset.reset is "latest".
ReceiveLatest(s) ==
    /\ s \in subscribed /\ inflight[s] = {}
    /\ \E p \in Partitions :
        /\ owner[p] = s
        /\ position[p] < Len(topic[p])
        /\ inflight' = [inflight EXCEPT ![s] = {topic[p][Len(topic[p])]}]
        /\ position' = [position EXCEPT ![p] = Len(topic[p])]
    /\ UNCHANGED <<topic, owner, committed, subscribed>>

\* consumer.recv() returns; the offset is stored for the next auto-commit.
Receive(s) ==
    /\ s \in subscribed /\ inflight[s] = {}
    /\ \E p \in Partitions :
        /\ owner[p] = s
        /\ position[p] < Len(topic[p])
        /\ inflight' = [inflight EXCEPT ![s] = {topic[p][position[p] + 1]}]
        /\ position' = [position EXCEPT ![p] = @ + 1]
    /\ UNCHANGED <<topic, owner, committed, subscribed>>

\* The handler returned, whatever came of it.
Handled(s) ==
    /\ inflight' = [inflight EXCEPT ![s] = {}]
    /\ UNCHANGED <<topic, owner, position, committed, subscribed>>

\* Mutant of AutoCommit: the offset of the last message is off by one.
CommitPrevious(p) ==
    /\ committed' = [committed EXCEPT ![p] = position[p] - 1]
    /\ UNCHANGED <<topic, owner, position, inflight, subscribed>>

\* enable.auto.commit: the client library commits stored offsets.
AutoCommit(p) ==
    /\ committed' = [committed EXCEPT ![p] = position[p]]
    /\ UNCHANGED <<topic, owner, position, inflight, subscribed>>

\* A partition moves to another server, which resumes at the committed offset.
\* A revoked owner commits first, one whose session timed out does not.
Rebalance(p, s) ==
    /\ s \in subscribed /\ owner[p] # s
    /\ owner' = [owner EXCEPT ![p] = s]
    /\ \/ committed' = [committed EXCEPT ![p] = position[p]]
       \/ UNCHANGED committed
    /\ position' = [position EXCEPT ![p] = committed'[p]]
    /\ UNCHANGED <<topic, inflight, subscribed>>

\* EventConsumer::start of a new process: an error of subscribe ends it for
\* good, while the server goes on without a consumer.
Subscribe(s) == subscribed' \in {subscribed \cup {s}, subscribed \ {s}}

\* The process dies and its successor resumes at the committed offsets.
ConsumerCrash(s) ==
    /\ Subscribe(s)
    /\ inflight' = [inflight EXCEPT ![s] = {}]
    /\ position' = [p \in Partitions |->
                        IF owner[p] = s THEN committed[p] ELSE position[p]]
    /\ UNCHANGED <<topic, owner, committed>>
=============================================================================
