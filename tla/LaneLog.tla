------------------------------ MODULE LaneLog ------------------------------
(***************************************************************************)
(* What a sink lane promises: a log with one committed offset.  The        *)
(* producer appends; the consumer commits the items one after the other,   *)
(* skipping none; the confirmed position never runs ahead of the offset.   *)
(* Redeliveries, dropped handles and restarted engines are invisible.      *)
(***************************************************************************)
EXTENDS Naturals

CONSTANT MaxItems   \* bound: items appended in a run

VARIABLES
    appended,   \* items in the log
    committed,  \* the first `committed' of them are durably processed
    confirmed   \* the position the lane reports as acknowledged

vars == <<appended, committed, confirmed>>

Init ==
    /\ appended = 0
    /\ committed = 0
    /\ confirmed = 0

Append1 ==
    /\ appended < MaxItems
    /\ appended' = appended + 1
    /\ UNCHANGED <<committed, confirmed>>

\* The item may carry no position: then the confirmed position stays.
Commit ==
    /\ committed < appended
    /\ committed' = committed + 1
    /\ confirmed' \in {confirmed, committed'}
    /\ UNCHANGED appended

Next == Append1 \/ Commit

Spec == Init /\ [][Next]_vars
=============================================================================
