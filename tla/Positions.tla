------------------------------ MODULE Positions ------------------------------
(***************************************************************************)
(* The seq -> LSN bookkeeping of one live stream                           *)
(* (libs/2-adapters/source-postgres/src/cdc/ack.rs): which LSN each        *)
(* position stands for, and how far the slot may advance.  Every operator  *)
(* is one critical section under Positions::lock.                          *)
(***************************************************************************)
EXTENDS Naturals, FiniteSetsExt

\* lsn_by_seq is the set of its entries.
PositionsType ==
    [next_seq : Nat, lsn_by_seq : SUBSET [seq : Nat, lsn : Nat], confirmed_lsn : Nat]

NewPositions(start_lsn, first_seq) ==
    [next_seq |-> first_seq, lsn_by_seq |-> {}, confirmed_lsn |-> start_lsn]

\* The position the next change gets is p.next_seq.
Register(p, lsn) ==
    [p EXCEPT !.next_seq = @ + 1,
              !.lsn_by_seq = @ \cup {[seq |-> p.next_seq, lsn |-> lsn]}]

Bug_ConfirmInPlace(p, lsn) ==
    [p EXCEPT !.confirmed_lsn = Max({@, lsn})]

\* A WAL end with nothing to deliver: confirmed in place when no position is
\* outstanding, queued behind the outstanding ones otherwise.
RegisterConfirmed(p, lsn) ==
    IF p.lsn_by_seq = {}
      THEN [p EXCEPT !.confirmed_lsn = Max({@, lsn})]
      ELSE Register(p, lsn)

Bug_ConfirmNext(p, seq) ==
    LET covered == {e \in p.lsn_by_seq : e.seq =< seq + 1}
    IN  [p EXCEPT !.lsn_by_seq = @ \ covered,
                  !.confirmed_lsn = Max({@} \cup {e.lsn : e \in covered})]

\* Every position at or before seq is durable downstream.
ConfirmUpTo(p, seq) ==
    LET covered == {e \in p.lsn_by_seq : e.seq =< seq}
    IN  [p EXCEPT !.lsn_by_seq = @ \ covered,
                  !.confirmed_lsn = Max({@} \cup {e.lsn : e \in covered})]
=============================================================================
