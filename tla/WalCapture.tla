----------------------------- MODULE WalCapture -----------------------------
(***************************************************************************)
(* The WAL capture (libs/2-adapters/source-postgres/src/cdc): the decode   *)
(* loop of stream.rs, the position bookkeeping of ack.rs, and live /       *)
(* confirm of capture.rs, between the Postgres replication slot and the    *)
(* live half of the ingest engine (libs/2-engine/src/ingest.rs), which     *)
(* gathers changes into a batch of its own, publishes the batch to the     *)
(* lanes and confirms the lanes' watermark.                                *)
(*                                                                         *)
(* The WAL is a sequence of committed transactions; the LSN of a           *)
(* transaction is its index, and its value the number of row changes the   *)
(* publication lets through (0: unrelated traffic).  A change is the pair  *)
(* of its transaction's LSN and its number within it.                      *)
(*                                                                         *)
(* A batch or a lane item is a position and the changes it stands for, as  *)
(* the stream emitted them.  Every lane is acknowledged in order and the   *)
(* watermark is the lowest lane's (Channel and Ledger), so the lanes are   *)
(* one queue here, whose head leaves when the last lane acknowledged it.   *)
(* The lanes outlive a failed ingest engine, not the process.              *)
(*                                                                         *)
(* External: the server (it streams the transactions above the slot's      *)
(* confirmed LSN in commit order, interleaving keepalives that carry how   *)
(* far it has sent, and never moves the slot back) and the replication     *)
(* client's feedback task.                                                 *)
(***************************************************************************)
EXTENDS Positions, FiniteSets, Sequences

CONSTANTS
    MaxWal,     \* bound: transactions committed in a run
    MaxTxn,     \* bound: changes of one transaction
    MaxFaults,  \* bound: disconnections and crashes
    MaxChanges  \* BatchPolicy.max_changes: changes of one batch, at least 1

ASSUME BoundsAssumption ==
    /\ MaxWal \in Nat /\ MaxTxn \in Nat /\ MaxFaults \in Nat
    /\ MaxChanges \in Nat \ {0}

VARIABLES
    wal,        \* committed transactions: how many changes each carries
    slot_lsn,   \* the slot's confirmed_flush_lsn, on the server
    connected,  \* a replication connection is open
    sent,       \* the server has sent everything up to this LSN
    stage,      \* messages of transaction sent + 1 sent so far
    open_txn,   \* changes of the transaction being received
    pending,    \* changes ready to emit, each with its commit LSN
    done,       \* the replication stream ended; pending is drained
    positions,  \* the seq -> LSN map, kept by the capture across reopens
    applied,    \* the LSN last handed to the client's feedback task
    emitted,    \* history: the change each position of this process named
    batch,      \* ingest's PendingBatch: emitted, not published yet
    lanes,      \* published items not yet acknowledged by every lane
    acked,      \* one more than the watermark, 0 when there is none yet
    durable,    \* history: changes every sink holds
    faults      \* disconnections and crashes so far

wire == <<connected, sent, stage>>
decode == <<open_txn, pending, done>>
down == <<lanes, acked, durable>>
vars == <<wal, slot_lsn, wire, decode, positions, applied, emitted, batch, down, faults>>

Change == (1 .. MaxWal) \X (1 .. MaxTxn)
Emission == [seq : Nat, change : Change]
Item == [position : Nat, changes : SUBSET Emission]

EmptyBatch == [position |-> 0, changes |-> {}]

TypeOK ==
    /\ wal \in Seq(0 .. MaxTxn) /\ Len(wal) =< MaxWal
    /\ slot_lsn \in 0 .. Len(wal)
    /\ connected \in BOOLEAN
    /\ sent \in 0 .. Len(wal)
    /\ stage \in 0 .. (MaxTxn + 1)
    /\ open_txn \in Seq(Change)
    /\ pending \in Seq(Change)
    /\ done \in BOOLEAN
    /\ positions \in PositionsType
    /\ applied \in 0 .. Len(wal)
    /\ emitted \in SUBSET Emission
    /\ batch \in Item
    /\ lanes \in Seq(Item)
    /\ acked \in Nat
    /\ durable \in SUBSET Change
    /\ faults \in 0 .. MaxFaults

Init ==
    /\ wal = <<>>
    /\ slot_lsn = 0
    /\ connected = FALSE /\ sent = 0 /\ stage = 0
    /\ open_txn = <<>> /\ pending = <<>> /\ done = FALSE
    /\ positions = NewPositions(0, 0)
    /\ applied = 0
    /\ emitted = {} /\ batch = EmptyBatch
    /\ lanes = <<>> /\ acked = 0 /\ durable = {}
    /\ faults = 0

-----------------------------------------------------------------------------
(* The database and the server.                                            *)

Commit ==
    /\ Len(wal) < MaxWal
    /\ \E n \in 0 .. MaxTxn : wal' = Append(wal, n)
    /\ UNCHANGED <<slot_lsn, wire, decode, positions, applied, emitted, batch, down, faults>>

\* The feedback task tells the server how far the slot may move.
Feedback ==
    /\ connected
    /\ applied > slot_lsn
    /\ slot_lsn' = applied
    /\ UNCHANGED <<wal, wire, decode, positions, applied, emitted, batch, down, faults>>

\* The server passes over a transaction the publication filters out.
SkipFiltered ==
    /\ connected /\ stage = 0
    /\ sent < Len(wal) /\ wal[sent + 1] = 0
    /\ sent' = sent + 1
    /\ UNCHANGED <<wal, slot_lsn, connected, stage, decode, positions, applied, emitted, batch, down, faults>>

-----------------------------------------------------------------------------
(* The capture's live stream.                                              *)

Bug_OpenRestartsSeq ==
    /\ ~connected
    /\ connected' = TRUE /\ sent' = slot_lsn /\ stage' = 0
    /\ open_txn' = <<>> /\ pending' = <<>> /\ done' = FALSE
    /\ positions' = NewPositions(0, 0)
    /\ applied' = 0
    /\ UNCHANGED <<wal, slot_lsn, emitted, batch, down, faults>>

\* ChangeCapture::live: a new map that continues the previous one's numbering,
\* and the server streaming from the slot (start_lsn is left at zero).
Open ==
    /\ ~connected
    /\ connected' = TRUE /\ sent' = slot_lsn /\ stage' = 0
    /\ open_txn' = <<>> /\ pending' = <<>> /\ done' = FALSE
    /\ positions' = NewPositions(0, positions.next_seq)
    /\ applied' = 0
    /\ UNCHANGED <<wal, slot_lsn, emitted, batch, down, faults>>

\* PendingBatch::is_open, but for its deadline: ingest takes no further change
\* from the stream when the batch is full.
BatchOpen == Cardinality(batch.changes) < MaxChanges

\* The stream is polled while the batch is open, and polls the client only with
\* nothing left to emit.
Polling == connected /\ BatchOpen /\ ~done /\ pending = <<>>

\* Each turn of the loop hands the confirmed LSN to the feedback task.
Report == applied' = positions'.confirmed_lsn

\* handle: Begin.
RecvBegin ==
    /\ Polling
    /\ stage = 0 /\ sent < Len(wal)
    /\ stage' = 1
    /\ open_txn' = <<>>
    /\ UNCHANGED positions /\ Report
    /\ UNCHANGED <<wal, slot_lsn, connected, sent, pending, done, emitted, batch, down, faults>>

\* handle_xlog: one row change joins the open transaction.
RecvChange ==
    /\ Polling
    /\ stage > 0 /\ stage =< wal[sent + 1]
    /\ open_txn' = Append(open_txn, <<sent + 1, stage>>)
    /\ stage' = stage + 1
    /\ UNCHANGED positions /\ Report
    /\ UNCHANGED <<wal, slot_lsn, connected, sent, pending, done, emitted, batch, down, faults>>

Bug_CommitConfirms ==
    /\ Polling
    /\ stage > 0 /\ stage = wal[sent + 1] + 1
    /\ stage' = 0 /\ sent' = sent + 1
    /\ pending' = open_txn
    /\ open_txn' = <<>>
    /\ positions' = RegisterConfirmed(positions, sent + 1)
    /\ Report
    /\ UNCHANGED <<wal, slot_lsn, connected, done, emitted, batch, down, faults>>

\* handle: Commit.  A transaction with no change only accounts its position.
RecvCommit ==
    /\ Polling
    /\ stage > 0 /\ stage = wal[sent + 1] + 1
    /\ stage' = 0 /\ sent' = sent + 1
    /\ pending' = open_txn
    /\ open_txn' = <<>>
    /\ positions' = IF open_txn = <<>>
                      THEN RegisterConfirmed(positions, sent + 1)
                      ELSE positions
    /\ Report
    /\ UNCHANGED <<wal, slot_lsn, connected, done, emitted, batch, down, faults>>

\* A keepalive repeating the WAL end of an entry nothing has followed adds a
\* second entry that every confirmation treats like the first: it is left out.
Repeated(lsn) ==
    \E e \in positions.lsn_by_seq : e.seq = positions.next_seq - 1 /\ e.lsn = lsn

\* handle: KeepAlive, with the WAL end the server has sent up to.
RecvKeepAlive ==
    /\ Polling
    /\ positions' = IF open_txn = <<>> /\ ~Repeated(sent)
                      THEN RegisterConfirmed(positions, sent)
                      ELSE positions
    /\ Report
    /\ UNCHANGED <<wal, slot_lsn, wire, decode, emitted, batch, down, faults>>

\* The stream yields a change under its new position, and ingest's buffer_live
\* adds it to the batch.
Emit ==
    /\ connected /\ BatchOpen
    /\ pending # <<>>
    /\ LET e == [seq |-> positions.next_seq, change |-> Head(pending)]
       IN  /\ emitted' = emitted \cup {e}
           /\ batch' = [position |-> e.seq, changes |-> batch.changes \cup {e}]
    /\ applied' = positions.confirmed_lsn
    /\ positions' = Register(positions, Head(pending)[1])
    /\ pending' = Tail(pending)
    /\ UNCHANGED <<wal, slot_lsn, wire, open_txn, done, down, faults>>

\* StoppedAt, or the client's stream ran out: no more polling.
StreamEnd ==
    /\ Polling
    /\ faults < MaxFaults
    /\ faults' = faults + 1
    /\ done' = TRUE
    /\ UNCHANGED <<wal, slot_lsn, wire, open_txn, pending, positions, applied, emitted, batch, down>>

\* The stream and what ingest's run held of it are gone.
StreamDropped ==
    /\ connected' = FALSE /\ sent' = 0 /\ stage' = 0
    /\ open_txn' = <<>> /\ pending' = <<>> /\ done' = FALSE
    /\ applied' = 0
    /\ batch' = EmptyBatch

\* ingest.run returns an error (of the stream, of resolving or building a
\* change, of a snapshot row, of a lane): the batch goes with it, whether no
\* lane or some lanes hold its item already.  Such an item stands for nothing
\* every lane holds, but its position may still become the watermark.  The
\* capture keeps its positions for the next live.
Disconnect ==
    /\ connected
    /\ faults < MaxFaults
    /\ faults' = faults + 1
    /\ \/ UNCHANGED lanes
       \/ /\ batch # EmptyBatch
          /\ lanes' = Append(lanes, [batch EXCEPT !.changes = {}])
    /\ StreamDropped
    /\ UNCHANGED <<wal, slot_lsn, positions, emitted, acked, durable>>

\* The process is gone and another starts: the slot and what the sinks hold
\* survive.
ProcessGone ==
    /\ StreamDropped
    /\ positions' = NewPositions(0, 0)
    /\ emitted' = {} /\ lanes' = <<>> /\ acked' = 0
    /\ UNCHANGED <<wal, slot_lsn, durable>>

Crash ==
    /\ faults < MaxFaults
    /\ faults' = faults + 1
    /\ ProcessGone

\* ingest.run returns Ok at the end of the stream, its batch published: the
\* supervisor stops the deployment, the lanes drained or not.
Stop ==
    /\ connected /\ done /\ pending = <<>>
    /\ batch = EmptyBatch
    /\ ProcessGone
    /\ UNCHANGED faults

-----------------------------------------------------------------------------
(* The ingest engine and the lanes.                                        *)

\* commit_live: the batch, if there is one, becomes an item of every lane.
Publish ==
    /\ connected
    /\ batch # EmptyBatch
    /\ lanes' = Append(lanes, batch)
    /\ batch' = EmptyBatch
    /\ UNCHANGED <<wal, slot_lsn, wire, decode, positions, applied, emitted, acked, durable, faults>>

\* The last lane acknowledged the oldest item: its sinks hold its changes, and
\* Stream::watermark is its position.
Ack ==
    /\ lanes # <<>>
    /\ lanes' = Tail(lanes)
    /\ acked' = Head(lanes).position + 1
    /\ durable' = durable \cup {e.change : e \in Head(lanes).changes}
    /\ UNCHANGED <<wal, slot_lsn, wire, decode, positions, applied, emitted, batch, faults>>

Bug_ConfirmEmitted ==
    /\ connected /\ batch = EmptyBatch
    /\ positions.next_seq > 0
    /\ positions' = ConfirmUpTo(positions, positions.next_seq - 1)
    /\ UNCHANGED <<wal, slot_lsn, wire, decode, applied, emitted, batch, down, faults>>

\* ingest's confirm, after a commit or at a tick, with nothing in the batch:
\* ChangeCapture::confirm with the watermark.  The positions it passes are of
\* the stream that is open, so a watermark handed over twice changes nothing.
Confirm ==
    /\ connected /\ batch = EmptyBatch
    /\ acked > 0
    /\ positions' = ConfirmUpTo(positions, acked - 1)
    /\ UNCHANGED <<wal, slot_lsn, wire, decode, applied, emitted, batch, down, faults>>

-----------------------------------------------------------------------------
Next ==
    \/ Commit \/ Feedback \/ SkipFiltered
    \/ Open \/ RecvBegin \/ RecvChange \/ RecvCommit \/ RecvKeepAlive
    \/ Emit \/ StreamEnd \/ Disconnect \/ Crash \/ Stop
    \/ Publish \/ Ack \/ Confirm

Spec == Init /\ [][Next]_vars

\* The supervisor reopens the stream and a stopped deployment is started again,
\* the server keeps streaming and sending keepalives, the feedback task, ingest's
\* loop and its confirm tick keep running, and the sinks make progress.  Commits
\* and faults are not fair.
FairSpec ==
    /\ Spec
    /\ WF_vars(Open)
    /\ WF_vars(RecvBegin \/ SkipFiltered)
    /\ WF_vars(RecvChange)
    /\ WF_vars(RecvCommit)
    /\ WF_vars(RecvKeepAlive)
    /\ WF_vars(Emit)
    /\ WF_vars(Stop)
    /\ WF_vars(Feedback)
    /\ WF_vars(Publish)
    /\ WF_vars(Ack)
    /\ WF_vars(Confirm)

-----------------------------------------------------------------------------
(* What the capture promises.                                              *)

Committed == {c \in Change : c[1] =< Len(wal) /\ c[2] =< wal[c[1]]}

\* At-least-once: once the slot passes a change the server never sends it
\* again, so every sink must hold it by then.
NoLostChange == \A c \in Committed : c[1] =< slot_lsn => c \in durable

\* The slot never passes a transaction of which nothing is durable yet, whatever
\* was lost of it in ingest's batch or in the lanes.
NoLostTransaction ==
    \A n \in 1 .. Len(wal) :
        (n =< slot_lsn /\ wal[n] > 0) => \E c \in durable : c[1] = n

\* A position names one change for the life of the process: a watermark the
\* lanes still hold from before a reopen cannot name a change of the new stream.
PositionsNameOneChange ==
    \A e, f \in emitted : e.seq = f.seq => e.change = f.change

\* Every transaction committed at the source eventually reaches every sink,
\* at least in part (NoLostChange is about the rest of it).
EventuallyDurable ==
    \A n \in 1 .. MaxWal :
        (n =< Len(wal) /\ wal[n] > 0) ~> (\E c \in durable : c[1] = n)

\* The slot follows the WAL while the watched tables are idle: once nothing
\* is left to deliver, keepalives bring the slot to the end of the WAL.
IdleSlotAdvances == (Len(wal) = MaxWal) ~> (slot_lsn = MaxWal)
=============================================================================
