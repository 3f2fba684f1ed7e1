------------------------------ MODULE Scheduler ------------------------------
(***************************************************************************)
(* AuctionScheduler (src/scheduler/mod.rs): every second each server reads *)
(* the clock and then issues two UPDATE statements with that reading.      *)
(* Other steps, also those of another server's scheduler, come in between. *)
(***************************************************************************)
EXTENDS ReadModel

VARIABLES
    phase,  \* where update_auction_statuses of a server stands
    asof    \* its local variable now

schedulerVars == <<phase, asof>>

SchedulerTypeOK ==
    /\ phase \in [Servers -> {"asleep", "start_due", "end_due"}]
    /\ asof \in [Servers -> Nat]

SchedulerInit ==
    /\ phase = [s \in Servers |-> "asleep"]
    /\ asof = [s \in Servers |-> 0]

Sleep(s) ==
    /\ phase' = [phase EXCEPT ![s] = "asleep"]
    /\ asof' = [asof EXCEPT ![s] = 0]

\* interval.tick() fires and Utc::now() is read.
Wake(s) ==
    /\ phase[s] = "asleep"
    /\ phase' = [phase EXCEPT ![s] = "start_due"]
    /\ asof' = [asof EXCEPT ![s] = now]
    /\ UNCHANGED itemVars

\* Mutant of Due: a due time equal to the current one.
DueNow(from, due, t) == {i \in Items : status[i] = from /\ due[i] = t}

\* The items that status = from and a due time let an UPDATE touch.
Due(from, due, t) == {i \in Items : status[i] = from /\ due[i] <= t}

SetStatus(touched, to) ==
    status' = [i \in Items |-> IF i \in touched THEN to ELSE status[i]]

\* SCHEDULED -> ACTIVE
StartAuctions(s) ==
    /\ phase[s] = "start_due"
    /\ SetStatus(Due("SCHEDULED", StartTime, asof[s]), "ACTIVE")
    /\ phase' = [phase EXCEPT ![s] = "end_due"]
    /\ UNCHANGED <<asof, current_price, bids>>

\* Mutant of EndAuctions: compares start_time.
EndAuctionsAtStart(s) ==
    /\ phase[s] = "end_due"
    /\ SetStatus(Due("ACTIVE", StartTime, asof[s]), "COMPLETED")
    /\ Sleep(s)
    /\ UNCHANGED <<current_price, bids>>

\* ACTIVE -> COMPLETED
EndAuctions(s) ==
    /\ phase[s] = "end_due"
    /\ SetStatus(Due("ACTIVE", EndTime, asof[s]), "COMPLETED")
    /\ Sleep(s)
    /\ UNCHANGED <<current_price, bids>>

\* Either UPDATE fails: the error is logged and the rest waits for the next
\* tick.  A crash of the server comes to the same.
UpdateFails(s) ==
    /\ phase[s] # "asleep"
    /\ Sleep(s)
    /\ UNCHANGED itemVars

SchedulerStep(s) ==
    \/ Wake(s)
    \/ StartAuctions(s)
    \/ EndAuctions(s)
=============================================================================
