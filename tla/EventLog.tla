------------------------------ MODULE EventLog -------------------------------
(***************************************************************************)
(* What the event store and the optimistic loop of the commands promise    *)
(* together: each item has a sequence of events, and a command appends to  *)
(* the sequence of one item, in one step, at most once.                    *)
(***************************************************************************)
EXTENDS Sequences

CONSTANTS Items, Requests

VARIABLES
    log,        \* the sequence of each item, by the command that appended
    appended    \* the commands that have appended

vars == <<log, appended>>

Init ==
    /\ log = [i \in Items |-> <<>>]
    /\ appended = {}

AppendOnce(i, r) ==
    /\ r \notin appended
    /\ appended' = appended \cup {r}
    /\ log' = [log EXCEPT ![i] = Append(@, r)]

Next == \E i \in Items, r \in Requests : AppendOnce(i, r)

Spec == Init /\ [][Next]_vars
=============================================================================
