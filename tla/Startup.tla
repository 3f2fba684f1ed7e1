------------------------------- MODULE Startup -------------------------------
(***************************************************************************)
(* What an instance does before it serves (main, initialize_database of    *)
(* src/database/mod.rs, initialize and create_topic of                     *)
(* src/message_broker/mod.rs).  It runs two SQL scripts, statement by      *)
(* statement and outside of any transaction, then reads a message back     *)
(* that it has sent itself, through the consumer group of all instances,   *)
(* and creates the topic.  Instances start at the same time, die anywhere  *)
(* and are started again.                                                  *)
(***************************************************************************)
EXTENDS Integers, FiniteSets

CONSTANTS
    Instances,
    Objects,        \* CREATE .. IF NOT EXISTS statements of 01-create-schema.sql
    Rows,           \* INSERT INTO items statements after them
    MaxAttempts,    \* max_attempts
    MaxStarts       \* bound on the number of starts

ASSUME StartupAssumption ==
    /\ Instances # {}
    /\ {Objects, Rows, MaxAttempts} \subseteq Nat \ {0}
    /\ MaxStarts \in Nat

VARIABLES
    pc,         \* the statement or call of an instance that comes next
    starts,     \* number of starts so far
    lone,       \* no other instance has executed a statement since the start
    database,   \* the database auction exists, owned by demo
    user,       \* the role demo exists
    created,    \* how many of the objects exist: a first part of them, since
                \* every script creates them in order and none drops them
    line,       \* statements of 01-create-schema.sql that an instance at
                \* create_schema has executed, 0 elsewhere
    sent,       \* length of the log of init-topic
    committed,  \* committed offset of the group
    position,   \* next offset that the holder is handed
    holder,     \* the instance the partition is assigned to, maybe a dead one
    attempts    \* timeouts of an instance so far

databaseVars == <<database, user, created, line>>
topicVars == <<sent, committed, position, holder, attempts>>
vars == <<pc, starts, lone, databaseVars, topicVars>>

Script == {"drop_database", "drop_user", "create_user", "create_database",
           "create_schema"}
Subscribed == {"send", "wait", "report", "create_topic"}
\* The process is over: "failed" by an error of initialize_database.
Ended == {"stopped", "failed"}
Labels == Script \cup Subscribed \cup Ended \cup {"serving"}

TypeOK ==
    /\ pc \in [Instances -> Labels]
    /\ starts \in Nat
    /\ lone \in [Instances -> BOOLEAN]
    /\ database \in BOOLEAN /\ user \in BOOLEAN
    /\ created \in 0 .. Objects
    /\ line \in [Instances -> 0 .. (Objects + Rows - 1)]
    /\ {sent, committed, position} \subseteq Nat
    /\ committed <= position /\ position <= sent
    /\ holder \in SUBSET Instances
    /\ attempts \in [Instances -> 0 .. MaxAttempts]

\* Earlier deployments may have left anything; a database has an owner.
Init ==
    /\ pc = [s \in Instances |-> "stopped"]
    /\ starts = 0
    /\ lone = [s \in Instances |-> TRUE]
    /\ database \in BOOLEAN /\ user \in BOOLEAN
    /\ database => user
    /\ created \in 0 .. Objects
    /\ line = [s \in Instances |-> 0]
    /\ sent = 0 /\ committed = 0 /\ position = 0
    /\ holder = {}
    /\ attempts = [s \in Instances |-> 0]

\* A new process; it is a new member of the consumer group.
Start(s) ==
    /\ pc[s] \in Ended /\ starts < MaxStarts
    /\ pc' = [pc EXCEPT ![s] = "drop_database"]
    /\ starts' = starts + 1
    /\ lone' = [lone EXCEPT ![s] = TRUE]
    /\ holder' = holder \ {s}
    /\ UNCHANGED <<databaseVars, sent, committed, position, attempts>>

-----------------------------------------------------------------------------
(* initialize_database: the first error ends the process.                  *)

\* An instance is done with a statement and goes on with the next step.
Executes(s, statement, next) ==
    /\ pc[s] = statement
    /\ pc' = [pc EXCEPT ![s] = next]
    /\ lone' = [t \in Instances |-> lone[t] /\ (t = s \/ pc[t] \notin Script)]
    /\ UNCHANGED <<starts, topicVars>>

\* Mutant of DropDatabase: the script is about another name.
DropOther(s) ==
    /\ Executes(s, "drop_database", "drop_user")
    /\ UNCHANGED databaseVars

\* DROP DATABASE IF EXISTS auction
DropDatabase(s) ==
    /\ Executes(s, "drop_database", "drop_user")
    /\ database' = FALSE
    /\ UNCHANGED <<user, created, line>>

\* DROP USER IF EXISTS demo: an error while demo owns the database.
DropUser(s) ==
    \/ /\ ~database
       /\ Executes(s, "drop_user", "create_user")
       /\ user' = FALSE
       /\ UNCHANGED <<database, created, line>>
    \/ /\ database
       /\ Executes(s, "drop_user", "failed")
       /\ UNCHANGED databaseVars

\* CREATE USER demo: an error if it exists.
CreateUser(s) ==
    \/ /\ ~user
       /\ Executes(s, "create_user", "create_database")
       /\ user' = TRUE
       /\ UNCHANGED <<database, created, line>>
    \/ /\ user
       /\ Executes(s, "create_user", "failed")
       /\ UNCHANGED databaseVars

\* CREATE DATABASE auction owner demo: an error if it exists or demo does not.
CreateDatabase(s) ==
    \/ /\ user /\ ~database
       /\ Executes(s, "create_database", "create_schema")
       /\ database' = TRUE
       /\ UNCHANGED <<user, created, line>>
    \/ /\ ~user \/ database
       /\ Executes(s, "create_database", "failed")
       /\ UNCHANGED databaseVars

\* The next statement of 01-create-schema.sql; after the last one, initialize
\* subscribes.
NextLine(s) ==
    /\ \/ /\ line[s] + 1 < Objects + Rows
          /\ Executes(s, "create_schema", "create_schema")
          /\ line' = [line EXCEPT ![s] = @ + 1]
       \/ /\ line[s] + 1 = Objects + Rows
          /\ Executes(s, "create_schema", "send")
          /\ line' = [line EXCEPT ![s] = 0]
    /\ UNCHANGED <<database, user>>

\* Mutant of CreateObject: without IF NOT EXISTS.
CreateObjectAnew(s) ==
    \/ /\ line[s] < Objects /\ created = line[s]
       /\ NextLine(s)
       /\ created' = created + 1
    \/ /\ line[s] < Objects /\ created > line[s]
       /\ Executes(s, "create_schema", "failed")
       /\ line' = [line EXCEPT ![s] = 0]
       /\ UNCHANGED <<database, user, created>>

\* Mutant of CreateObject: skips to the rows when there is a schema already.
SkipObjects(s) ==
    /\ line[s] < Objects
    /\ Executes(s, "create_schema", "create_schema")
    /\ line' = [line EXCEPT ![s] = IF @ < created THEN Objects ELSE @ + 1]
    /\ created' = IF created = line[s] THEN created + 1 ELSE created
    /\ UNCHANGED <<database, user>>

\* CREATE .. IF NOT EXISTS of a sequence, a table or an index; what it refers
\* to was created by a line before it.
CreateObject(s) ==
    /\ line[s] < Objects
    /\ NextLine(s)
    /\ created' = IF created = line[s] THEN created + 1 ELSE created

\* INSERT INTO items: every start adds the rows once more.
InsertRow(s) ==
    /\ line[s] >= Objects
    /\ NextLine(s)
    /\ UNCHANGED created

\* Of several instances at the same statement one wins; the others may find
\* the catalogue changed under their hands, which PostgreSQL reports as an
\* error even with IF (NOT) EXISTS.
Collides(s) ==
    /\ pc[s] \in Script \ {"drop_database"}
    /\ pc[s] = "create_schema" => line[s] = created /\ created < Objects
    /\ \E t \in Instances \ {s} : pc[t] = pc[s] /\ line[t] = line[s]
    /\ pc' = [pc EXCEPT ![s] = "failed"]
    /\ lone' = [lone EXCEPT ![s] = FALSE]
    /\ line' = [line EXCEPT ![s] = 0]
    /\ UNCHANGED <<starts, database, user, created, topicVars>>

ScriptStep(s) ==
    \/ DropDatabase(s) \/ DropUser(s) \/ CreateUser(s) \/ CreateDatabase(s)
    \/ CreateObject(s) \/ InsertRow(s)

-----------------------------------------------------------------------------
(* KafkaManager::initialize and create_topic.                              *)

\* main and initialize go on, or return early, without the database.
Goto(s, label) ==
    /\ pc' = [pc EXCEPT ![s] = label]
    /\ UNCHANGED <<starts, lone, databaseVars>>

SendInit(s) ==
    /\ pc[s] = "send"
    /\ Goto(s, "wait")
    /\ sent' = sent + 1
    /\ UNCHANGED <<committed, position, holder, attempts>>

\* send_init_message returns an error, whether the message is there or not.
SendInitFails(s) ==
    /\ pc[s] = "send"
    /\ Goto(s, "stopped")
    /\ sent' \in {sent, sent + 1}
    /\ UNCHANGED <<committed, position, holder, attempts>>

\* Mutant of Assign: the new holder reads the log from its beginning.
AssignFromStart(s) ==
    /\ pc[s] \in Subscribed /\ holder # {s}
    /\ holder' = {s}
    /\ committed' \in committed .. position
    /\ position' = 0
    /\ UNCHANGED <<pc, starts, lone, databaseVars, sent, attempts>>

\* Mutant of Assign: auto.offset.reset is "latest" and nothing is committed.
AssignLatest(s) ==
    /\ pc[s] \in Subscribed /\ holder # {s}
    /\ holder' = {s}
    /\ position' = sent /\ committed' = sent
    /\ UNCHANGED <<pc, starts, lone, databaseVars, sent, attempts>>

\* The broker gives the partition to an instance that is subscribed.  How much
\* its predecessor has committed, by auto-commit or when it left, is open.
Assign(s) ==
    /\ pc[s] \in Subscribed /\ holder # {s}
    /\ holder' = {s}
    /\ committed' \in committed .. position
    /\ position' = committed'
    /\ UNCHANGED <<pc, starts, lone, databaseVars, sent, attempts>>

\* recv() returns "init-message", that of this instance or of another one.
ReceiveInit(s) ==
    /\ pc[s] = "wait" /\ holder = {s} /\ position < sent
    /\ Goto(s, "create_topic")
    /\ position' = position + 1
    /\ attempts' = [attempts EXCEPT ![s] = 0]
    /\ UNCHANGED <<sent, committed, holder>>

\* Mutant of TimesOut: attempts is not counted.
TimesOutUncounted(s) ==
    /\ pc[s] = "wait"
    /\ UNCHANGED vars

\* time::timeout is over.
TimesOut(s) ==
    /\ pc[s] = "wait"
    /\ \/ /\ attempts[s] + 1 < MaxAttempts
          /\ attempts' = [attempts EXCEPT ![s] = @ + 1]
          /\ Goto(s, "wait")
       \/ /\ attempts[s] + 1 >= MaxAttempts
          /\ attempts' = [attempts EXCEPT ![s] = 0]
          /\ Goto(s, "stopped")
    /\ UNCHANGED <<sent, committed, position, holder>>

\* recv() returns an error before the time is over, for example because the
\* topic does not exist yet or the broker is down.
RecvFails(s) ==
    /\ pc[s] = "wait"
    /\ Goto(s, "report")
    /\ UNCHANGED topicVars

\* The error is logged and the loop goes round; attempts is not counted.
TurnAgain(s) ==
    /\ pc[s] = "report"
    /\ Goto(s, "wait")
    /\ UNCHANGED topicVars

\* create_topic("events", 5, 1): an existing topic is no error.  The consumer
\* then subscribes to "events" and no longer to init-topic.
CreateTopic(s) ==
    /\ pc[s] = "create_topic"
    /\ Goto(s, "serving") \/ Goto(s, "stopped")
    /\ UNCHANGED topicVars

HandshakeStep(s) ==
    \/ SendInit(s) \/ SendInitFails(s) \/ ReceiveInit(s) \/ TimesOut(s)
    \/ TurnAgain(s) \/ CreateTopic(s)

-----------------------------------------------------------------------------

\* The process dies, or stops because the database or the port fails it.
Die(s) ==
    /\ pc[s] \notin Ended
    /\ pc' = [pc EXCEPT ![s] = "stopped"]
    /\ line' = [line EXCEPT ![s] = 0]
    /\ attempts' = [attempts EXCEPT ![s] = 0]
    /\ UNCHANGED <<starts, lone, database, user, created,
                   sent, committed, position, holder>>

OwnStep(s) == ScriptStep(s) \/ HandshakeStep(s)

Next == \E s \in Instances :
            \/ Start(s) \/ OwnStep(s)
            \/ Collides(s) \/ RecvFails(s) \/ Assign(s) \/ Die(s)

\* Every statement, send and admin request returns, and so does the timeout.
\* Nothing is assumed about what recv() reports: it may be errors for ever.
Fairness == \A s \in Instances : WF_vars(OwnStep(s))

Spec == Init /\ [][Next]_vars /\ Fairness

-----------------------------------------------------------------------------
(* Properties.                                                             *)

\* Scaling out works as far as the database goes: however the scripts of the
\* instances interleave, they do not all fail; as long as none is killed, one
\* gets through.
NotAllFail == \E s \in Instances : pc[s] # "failed"

\* The order of the statements heals whatever an aborted start has left: an
\* instance fails only if another one has interfered with its script.
LoneStartGetsThrough == \A s \in Instances : pc[s] = "failed" => ~lone[s]

\* Nor does a start that died within the schema leave a hole in it: whoever
\* has got through initialize_database finds all of it.
ServesOnFullSchema ==
    \A s \in Instances : pc[s] \in Subscribed \cup {"serving"} => created = Objects

Waiting == {s \in Instances : pc[s] \in {"wait", "report"}}

\* Sharing a consumer group takes no message away from anyone: there are
\* always as many messages ahead of the position as instances that wait.
MessageForEveryone == sent - position >= Cardinality(Waiting)

\* A start comes to an end, the instance serves or the process is over, unless
\* recv() reports errors again and again: nothing else keeps it waiting.
StartSettles ==
    \A s \in Instances :
        \/ pc[s] = "drop_database" ~> pc[s] \in Ended \cup {"serving"}
        \/ []<>(pc[s] = "report")
=============================================================================
