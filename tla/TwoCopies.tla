------------------------------ MODULE TwoCopies ------------------------------
(***************************************************************************)
(* What one index of a sink promises the engines: the copy readers see, at *)
(* most one copy under construction beside it, and a seed marker.  Writes  *)
(* go to the copy under construction while there is one.  Readers' copy is *)
(* replaced only by a whole one and all at once, the marker is written for *)
(* nothing less, and a rebuild starts only from an index that had it.      *)
(* Generations, aliases, the requests of a call and the calls that fail    *)
(* between two of them are invisible.                                      *)
(***************************************************************************)
CONSTANTS
    Contents,   \* what a copy may hold
    Empty,      \* what a copy holds at first
    Whole       \* what it holds when a snapshot has been written to it

VARIABLES
    serving,    \* the copy readers see
    building,   \* the copy under construction; Empty if there is none
    rebuilding, \* there is one
    seeded,     \* the seed marker
    damaged     \* an operator deleted something

vars == <<serving, building, rebuilding, seeded, damaged>>

Init ==
    /\ serving = Empty /\ building = Empty
    /\ ~rebuilding /\ ~seeded /\ ~damaged

\* A write never takes a row of the snapshot away.
Written(old, new) == new \in Contents /\ (old \in Whole => new \in Whole)

Apply ==
    /\ \/ rebuilding /\ Written(building, building') /\ UNCHANGED serving
       \/ ~rebuilding /\ Written(serving, serving') /\ UNCHANGED building
    /\ UNCHANGED <<rebuilding, seeded, damaged>>

Reindex ==
    /\ seeded
    /\ seeded' = FALSE
    /\ rebuilding' = TRUE
    /\ building' = Empty
    /\ UNCHANGED <<serving, damaged>>

\* The copy that takes the writes is whole, and is what readers see from now on.
Serve ==
    LET copy == IF rebuilding THEN building ELSE serving IN
    /\ copy \in Whole
    /\ serving' = copy
    /\ building' = Empty
    /\ rebuilding' = FALSE
    /\ UNCHANGED damaged

\* mark_seeded may be interrupted between the two.
Swap == rebuilding /\ Serve /\ UNCHANGED seeded
Seed == Serve /\ seeded' = TRUE

\* An operator deletes a copy, or something that is neither.
Lose ==
    /\ damaged' = TRUE
    /\ \/ UNCHANGED <<serving, building, rebuilding>>
       \/ ~rebuilding /\ serving' = Empty /\ UNCHANGED <<building, rebuilding>>
       \/ rebuilding /\ building' = Empty /\ UNCHANGED <<serving, rebuilding>>
       \/ rebuilding /\ serving' = building /\ building' = Empty /\ rebuilding' = FALSE
    /\ UNCHANGED seeded

\* The marker of an index that lost a copy is taken back.
Retract ==
    /\ damaged
    /\ seeded' = FALSE
    /\ UNCHANGED <<serving, building, rebuilding, damaged>>

Next == Apply \/ Reindex \/ Swap \/ Seed \/ Lose \/ Retract

Spec == Init /\ [][Next]_vars
=============================================================================
