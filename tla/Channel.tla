------------------------------- MODULE Channel -------------------------------
(***************************************************************************)
(* One bounded channel of the in-process stream                            *)
(* (libs/2-adapters/stream-channel/src/lib.rs, struct Channel): the mpsc   *)
(* queue, the in-flight ledger beside it, the recv call of the one active  *)
(* consumer, and the ack handles that are alive.                           *)
(*                                                                         *)
(* The code leaves the lock in two places, which are step boundaries here: *)
(* recv checks for a redelivery, awaits the queue and only then locks the  *)
(* ledger again; handles are acknowledged or dropped by whoever holds      *)
(* them.  The consumer's way of working is the set Handles: a sink engine  *)
(* holds one delivery at a time (one handle), the ingest engine holds      *)
(* every coalesced backfill request (several).                             *)
(*                                                                         *)
(* External: the tokio mpsc queue itself, a FIFO that takes Capacity items *)
(* before a send waits, and frees the slot when recv pops the item.        *)
(***************************************************************************)
EXTENDS Ledger

CONSTANTS
    Capacity,   \* items the queue takes before publish waits
    Handles,    \* the deliveries a consumer can hold at once
    MaxItems,   \* bound: items published in a run
    NoDelivery  \* what a handle holds when it holds nothing

ASSUME CapacityAssumption == Capacity \in Nat \ {0}
ASSUME MaxItemsAssumption == MaxItems \in Nat
ASSUME NoDeliveryAssumption == NoDelivery \notin Entry

VARIABLES
    queue,      \* items in the mpsc queue
    ledger,     \* the in-flight ledger
    recv,       \* the consumer's recv call: idle, awaiting the queue, popped
    popped,     \* the item recv took off the queue and has not recorded yet
    handle,     \* the delivery each live ack handle belongs to
    published,  \* items published so far; an item's id is its number
    processed   \* history: ids of the items a consumer finished and acked

vars == <<queue, ledger, recv, popped, handle, published, processed>>

TypeOK ==
    /\ queue \in Seq(Item)
    /\ Len(queue) =< Capacity
    /\ ledger \in LedgerType
    /\ ledger.cursor =< Len(ledger.in_flight)
    /\ recv \in {"idle", "awaiting", "popped"}
    /\ popped \in Item
    /\ handle \in [Handles -> Entry \cup {NoDelivery}]
    /\ published \in Nat
    /\ processed \in SUBSET Nat

NoItem == [id |-> 0, position |-> NoPosition]

Init ==
    /\ queue = <<>>
    /\ ledger = EmptyLedger
    /\ recv = "idle"
    /\ popped = NoItem
    /\ handle = [h \in Handles |-> NoDelivery]
    /\ published = 0
    /\ processed = {}

-----------------------------------------------------------------------------
(* The producer.                                                           *)

\* Producer::publish waits while the queue is full.  A live batch carries a
\* position above every earlier one; a snapshot batch or a completion marker
\* carries none.
Publish ==
    /\ published < MaxItems
    /\ Len(queue) < Capacity
    /\ \E position \in {published + 1, NoPosition} :
          queue' = Append(queue, [id |-> published + 1, position |-> position])
    /\ published' = published + 1
    /\ UNCHANGED <<ledger, recv, popped, handle, processed>>

-----------------------------------------------------------------------------
(* The consumer's recv.                                                    *)

Free(h) == handle[h] = NoDelivery

Deliver(h, entry) ==
    /\ Free(h)
    /\ handle' = [handle EXCEPT ![h] = entry]

\* recv first serves what is due for redelivery.
RecvRedelivery(h) ==
    /\ recv = "idle"
    /\ HasRedelivery(ledger)
    /\ Deliver(h, AtCursor(ledger))
    /\ ledger' = Redelivery(ledger)
    /\ UNCHANGED <<queue, recv, popped, published, processed>>

\* Nothing to redeliver: recv awaits the queue, the ledger unlocked.
RecvAwait ==
    /\ recv = "idle"
    /\ \E h \in Handles : Free(h)
    /\ ~HasRedelivery(ledger)
    /\ recv' = "awaiting"
    /\ UNCHANGED <<queue, ledger, popped, handle, published, processed>>

\* The queue hands the item over and frees its slot.
RecvPop ==
    /\ recv = "awaiting"
    /\ queue # <<>>
    /\ popped' = Head(queue)
    /\ queue' = Tail(queue)
    /\ recv' = "popped"
    /\ UNCHANGED <<ledger, handle, published, processed>>

\* The ledger is locked again: the item goes in, the entry at the cursor out.
RecvRecord(h) ==
    /\ recv = "popped"
    /\ Deliver(h, RecvEntry(ledger, popped))
    /\ ledger' = RecvLedger(ledger, popped)
    /\ recv' = "idle"
    /\ popped' = NoItem
    /\ UNCHANGED <<queue, published, processed>>

\* A select! or a timeout drops the recv future while it awaits.
RecvCancel ==
    /\ recv = "awaiting"
    /\ recv' = "idle"
    /\ UNCHANGED <<queue, ledger, popped, handle, published, processed>>

-----------------------------------------------------------------------------
(* The ack handles.                                                        *)

\* AckHandle::ack once the item is processed, and the release of the handle's
\* own drop that follows it.
AckHandle(h) ==
    /\ ~Free(h)
    /\ ledger' = Release(Ack(ledger, handle[h].ticket), handle[h].ticket)
    /\ handle' = [handle EXCEPT ![h] = NoDelivery]
    /\ processed' = processed \cup {handle[h].item.id}
    /\ UNCHANGED <<queue, recv, popped, published>>

Bug_DropForgets(h) ==
    /\ ~Free(h)
    /\ handle' = [handle EXCEPT ![h] = NoDelivery]
    /\ UNCHANGED <<queue, ledger, recv, popped, published, processed>>

\* AckHandle::nack, or the handle dropped by an engine that died holding it.
DropHandle(h) ==
    /\ ~Free(h)
    /\ ledger' = Release(ledger, handle[h].ticket)
    /\ handle' = [handle EXCEPT ![h] = NoDelivery]
    /\ UNCHANGED <<queue, recv, popped, published, processed>>

-----------------------------------------------------------------------------
Next ==
    \/ Publish
    \/ RecvAwait
    \/ RecvPop
    \/ RecvCancel
    \/ \E h \in Handles : RecvRedelivery(h)
    \/ \E h \in Handles : RecvRecord(h)
    \/ \E h \in Handles : AckHandle(h)
    \/ \E h \in Handles : DropHandle(h)

Spec == Init /\ [][Next]_vars

\* The consumer task keeps calling recv, an engine that failed on a delivery
\* does not fail on it forever, and a recv that waits while other deliveries
\* are held is cancelled from time to time: the ingest engine, the only such
\* consumer, selects it against its confirm tick and the max_delay timeout.
\* Without that cancellation a release does not wake a waiting recv.
FairSpec ==
    /\ Spec
    /\ WF_vars(RecvCancel)
    /\ WF_vars(RecvAwait)
    /\ SF_vars(RecvPop)
    /\ WF_vars(\E h \in Handles : RecvRedelivery(h))
    /\ WF_vars(\E h \in Handles : RecvRecord(h))
    /\ SF_vars(\E h \in Handles : AckHandle(h))

-----------------------------------------------------------------------------
(* What the channel promises.                                              *)

InHand == IF recv = "popped" THEN <<popped>> ELSE <<>>

\* Everything unacknowledged: delivered or in hand, then what is still queued.
Backlog ==
    [i \in 1 .. Len(ledger.in_flight) |-> ledger.in_flight[i].item]
        \o InHand \o queue

\* Nothing is lost between the queue, recv's hand, the ledger and the handles:
\* an item out of the backlog was processed by a consumer that acknowledged
\* that very item.
NothingLost ==
    \A n \in 1 .. published :
        n \in processed \/ \E i \in 1 .. Len(Backlog) : Backlog[i].id = n

\* An entry in front of the cursor has a live handle: were it not so, nobody
\* could acknowledge the entry and no recv would serve it again.
NoOrphan ==
    \A i \in 1 .. ledger.cursor :
        \E h \in Handles : handle[h] = ledger.in_flight[i]

\* Publication order survives every mix of redelivery and out-of-order
\* acknowledgement: what is unacknowledged stays in the order published.
InOrder ==
    \A i, j \in 1 .. Len(Backlog) : i < j => Backlog[i].id < Backlog[j].id

OneAtATime == \A g, h \in Handles : g = h

\* For a consumer that holds one delivery at a time the acknowledged position
\* is cumulative: nothing still unacknowledged lies at or below it.
AckedIsCumulative ==
    OneAtATime =>
        \A i \in 1 .. Len(Backlog) :
            Backlog[i].position # NoPosition => Backlog[i].position > ledger.acked

\* A sink lane (one delivery at a time) is a log with one committed offset:
\* redelivery never skips, reorders or commits an item twice over.
Lane ==
    INSTANCE LaneLog WITH
        appended <- published,
        committed <- published - Len(Backlog),
        confirmed <- ledger.acked
LaneIsLog == Lane!Spec

\* Every published item is eventually processed, whatever was dropped,
\* redelivered or acknowledged out of order on the way.
EventuallyProcessed ==
    \A n \in 1 .. MaxItems : (published >= n) ~> (n \in processed)
=============================================================================
