--------------------------- MODULE AuctionService ----------------------------
(***************************************************************************)
(* The service: the components of src/main.rs around one database and one  *)
(* Kafka topic, each server running the HTTP handlers, one event consumer  *)
(* and one scheduler.                                                      *)
(***************************************************************************)
EXTENDS Bidding, EventConsumer, Scheduler

vars == <<now, itemVars, events, brokerVars, requestVars, schedulerVars>>

TypeOK ==
    /\ ReadModelTypeOK
    /\ events \subseteq Event
    /\ BrokerTypeOK
    /\ BiddingTypeOK
    /\ SchedulerTypeOK

Init ==
    /\ ReadModelInit
    /\ EventStoreInit
    /\ BrokerInit
    /\ BiddingInit
    /\ SchedulerInit

-----------------------------------------------------------------------------
(* The steps of the components, with what they leave alone.                *)

ClockTicks ==
    /\ Tick
    /\ UNCHANGED <<events, brokerVars, requestVars, schedulerVars>>

ServeRequest(r) ==
    /\ RequestStep(r)
    /\ UNCHANGED <<now, itemVars, schedulerVars>>

TakeMessage(s) ==
    /\ Receive(s)
    /\ UNCHANGED <<now, itemVars, events, requestVars, schedulerVars>>

ApplyMessage(s) ==
    /\ ProcessEvent(s)
    /\ UNCHANGED <<now, events, requestVars, schedulerVars>>

CommitOffset(p) ==
    /\ AutoCommit(p)
    /\ UNCHANGED <<now, itemVars, events, requestVars, schedulerVars>>

Schedule(s) ==
    /\ SchedulerStep(s)
    /\ UNCHANGED <<now, events, brokerVars, requestVars>>

NormalStep ==
    \/ ClockTicks
    \/ \E r \in Requests : ServeRequest(r)
    \/ \E s \in Servers : TakeMessage(s) \/ ApplyMessage(s) \/ Schedule(s)
    \/ \E p \in Partitions : CommitOffset(p)

FailRequest(r) ==
    /\ RequestFault(r)
    /\ UNCHANGED <<now, itemVars, schedulerVars>>

DropMessage(s) ==
    /\ ProcessFails(s)
    /\ UNCHANGED <<now, events, requestVars, schedulerVars>>

FailUpdate(s) ==
    /\ UpdateFails(s)
    /\ UNCHANGED <<now, events, brokerVars, requestVars>>

MovePartition(p, s) ==
    /\ Rebalance(p, s)
    /\ UNCHANGED <<now, itemVars, events, requestVars, schedulerVars>>

\* A server dies and is started again.  initialize_database leaves existing
\* tables alone, so nothing but what was in its memory is lost.
Crash(s) ==
    /\ ConsumerCrash(s)
    /\ RequestsCrash(s)
    /\ Sleep(s)
    /\ UNCHANGED <<now, itemVars>>

FaultStep ==
    \/ \E r \in Requests : FailRequest(r)
    \/ \E s \in Servers : DropMessage(s) \/ FailUpdate(s) \/ Crash(s)
    \/ \E p \in Partitions, s \in Servers : MovePartition(p, s)

Next == NormalStep \/ FaultStep

Spec == Init /\ [][Next]_vars

\* Tokio polls every task that can go on; the database and the broker answer;
\* the interval of the scheduler fires every second; time passes.
Fairness ==
    /\ WF_vars(ClockTicks)
    /\ \A r \in Requests : WF_vars(ServeRequest(r))
    /\ \A s \in Servers :
        /\ WF_vars(TakeMessage(s))
        /\ WF_vars(ApplyMessage(s))
        /\ WF_vars(Schedule(s))

FairSpec == Spec /\ Fairness

\* No query fails, no message is lost or repeated, no server dies.
FaultFreeSpec == Init /\ [][NormalStep]_vars /\ Fairness
=============================================================================
