------------------------------- MODULE Ledger -------------------------------
(***************************************************************************)
(* The in-flight ledger of one in-process channel                          *)
(* (libs/2-adapters/stream-channel/src/lib.rs, struct Ledger): the items   *)
(* delivered and not yet acknowledged, in delivery order, each under the   *)
(* ticket its ack handle carries, a redelivery cursor, and the last        *)
(* acknowledged position.  Every operator below is what one critical       *)
(* section under Channel::lock does to the ledger.                         *)
(*                                                                         *)
(* cursor counts the entries in front of it: entries 1..cursor have been   *)
(* handed out, entry cursor + 1 is the next redelivery.  A position is a   *)
(* natural; NoPosition (Option::None in the code) is 0 and real positions  *)
(* start at 1, so that Option's max is the maximum of two naturals.        *)
(***************************************************************************)
EXTENDS Integers, Sequences

NoPosition == 0

\* A lane item: its identity and what acknowledging it confirms.
Item == [id : Nat, position : Nat]

Entry == [ticket : Nat, item : Item]

LedgerType ==
    [in_flight : Seq(Entry), cursor : Nat, next_ticket : Nat, acked : Nat]

EmptyLedger ==
    [in_flight |-> <<>>, cursor |-> 0, next_ticket |-> 0, acked |-> NoPosition]

Larger(a, b) == IF a >= b THEN a ELSE b

Smaller(a, b) == IF a =< b THEN a ELSE b

\* The sequence s without its i-th element.
Without(s, i) ==
    [j \in 1 .. (Len(s) - 1) |-> IF j < i THEN s[j] ELSE s[j + 1]]

HasTicket(ledger, ticket) ==
    \E i \in 1 .. Len(ledger.in_flight) : ledger.in_flight[i].ticket = ticket

IndexOf(ledger, ticket) ==
    CHOOSE i \in 1 .. Len(ledger.in_flight) : ledger.in_flight[i].ticket = ticket

-----------------------------------------------------------------------------
(* The operations, one per critical section.                               *)

\* An entry is due for redelivery.
HasRedelivery(ledger) == ledger.cursor < Len(ledger.in_flight)

\* The entry a delivery hands out, and the ledger once it is handed out.
AtCursor(ledger) == ledger.in_flight[ledger.cursor + 1]

Redelivery(ledger) == [ledger EXCEPT !.cursor = @ + 1]

Bug_PushAtCursor(ledger, item) ==
    [ledger EXCEPT
        !.in_flight = SubSeq(@, 1, ledger.cursor)
                        \o <<[ticket |-> ledger.next_ticket, item |-> item]>>
                        \o SubSeq(@, ledger.cursor + 1, Len(@)),
        !.next_ticket = @ + 1]

\* A freshly received item goes in last, under a new ticket.
Push(ledger, item) ==
    [ledger EXCEPT
        !.in_flight = Append(@, [ticket |-> ledger.next_ticket, item |-> item]),
        !.next_ticket = @ + 1]

\* Once the new item is in the ledger, recv hands out the entry at the cursor:
\* the new item itself or, when a release moved the cursor back while recv
\* awaited the channel, the oldest entry due for redelivery.
RecvEntry(ledger, item) == AtCursor(Push(ledger, item))

Bug_RecvSkipsCheck(ledger, item) ==
    LET pushed == Push(ledger, item)
    IN  [pushed EXCEPT !.cursor = Len(pushed.in_flight)]

RecvLedger(ledger, item) ==
    LET pushed == Push(ledger, item)
    IN  IF ledger.cursor + 1 < Len(pushed.in_flight)
          THEN Redelivery(pushed)
          ELSE [pushed EXCEPT !.cursor = Len(pushed.in_flight)]

Bug_ReleaseOffByOne(ledger, ticket) ==
    IF HasTicket(ledger, ticket)
      THEN [ledger EXCEPT !.cursor = Smaller(@, IndexOf(ledger, ticket))]
      ELSE ledger

\* A nack or a dropped handle: the cursor moves back to the ticket, so it and
\* everything delivered after it come back; a ticket already acknowledged is
\* gone from the ledger and nothing happens.
Release(ledger, ticket) ==
    IF HasTicket(ledger, ticket)
      THEN [ledger EXCEPT !.cursor = Smaller(@, IndexOf(ledger, ticket) - 1)]
      ELSE ledger

Bug_AckDropsPrefix(ledger, ticket) ==
    IF HasTicket(ledger, ticket)
      THEN LET i == IndexOf(ledger, ticket)
           IN  [ledger EXCEPT
                   !.in_flight = SubSeq(@, i + 1, Len(@)),
                   !.cursor = IF i =< @ THEN @ - i ELSE 0,
                   !.acked = Larger(@, ledger.in_flight[i].item.position)]
      ELSE ledger

\* Acknowledging removes the entry and raises the acknowledged position to the
\* item's, when it has one; a second acknowledgement of a ticket does nothing.
Ack(ledger, ticket) ==
    IF HasTicket(ledger, ticket)
      THEN LET i == IndexOf(ledger, ticket)
           IN  [ledger EXCEPT
                   !.in_flight = Without(@, i),
                   !.cursor = IF i =< @ THEN @ - 1 ELSE @,
                   !.acked = Larger(@, ledger.in_flight[i].item.position)]
      ELSE ledger
=============================================================================
