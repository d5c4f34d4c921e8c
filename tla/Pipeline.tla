------------------------------ MODULE Pipeline ------------------------------
(***************************************************************************)
(* One deployment (libs/2-engine, libs/3-daemon): the ingest engine, one   *)
(* sink engine per sink, the lanes and the request lane between them, and  *)
(* the supervisor that stages, runs and restarts them, over the source     *)
(* database, its replication slot and the sinks' stores, which survive the *)
(* process.                                                                *)
(*                                                                         *)
(* One index is modelled; a change names the document it touches, and      *)
(* building a document reads the database at that moment.  A lane is the   *)
(* log that Channel implements for a consumer with one delivery at a time  *)
(* (LaneIsLog): unacknowledged items in order, the first of them possibly  *)
(* popped off the bounded queue.  The request lane holds back the popped   *)
(* requests until the snapshot is published.  The slot moves as            *)
(* WalCapture's bookkeeping lets it for one-change transactions: a         *)
(* position names the stream that emitted it, and a watermark of an        *)
(* earlier stream confirms nothing.  A sink's store is what OpensearchSink *)
(* implements: the copy readers see, the copy being rebuilt, and the seed  *)
(* marker.                                                                 *)
(***************************************************************************)
EXTENDS Integers, Sequences, SequencesExt, FiniteSetsExt

CONSTANTS
    Sinks,              \* the configured sinks
    Docs,               \* the documents of the index
    Values,             \* what a row can hold
    Absent,             \* no row, or no document
    Capacity,           \* [stream] capacity: of each lane and of the requests
    MaxWrites,          \* bound: changes committed at the source
    MaxFaults,          \* bound: engine failures and process crashes
    MaxReindexes,       \* bound: reindex operations
    MaxLosses,          \* bound: times the slot is lost
    SlotLossAt          \* when that may be: "running", "seeding", "seeded"

ASSUME SinksAssumption == IsFiniteSet(Sinks) /\ Sinks # {}
ASSUME AbsentAssumption == Absent \notin Values
ASSUME CapacityAssumption == Capacity \in Nat \ {0}
ASSUME BoundsAssumption ==
    MaxWrites \in Nat /\ MaxFaults \in Nat /\ MaxReindexes \in Nat /\ MaxLosses \in Nat

VARIABLES
    db,             \* the rows of the root table, by document
    wal,            \* the documents changed, in commit order
    slot,           \* changes the slot has confirmed; NoSlot when it is gone
    store,          \* each sink's copies and seed marker
    phase,          \* the daemon: down, staging every sink, running
    continuity,     \* what the source reported at start
    engine,         \* each sink engine's place
    outstanding,    \* each sink engine's unanswered backfill request
    lane,           \* each sink's unacknowledged items
    taken,          \* the first of them is off the queue, delivered or to be redelivered
    acked,          \* each lane's acknowledged position; 0 is none
    requests,       \* unacknowledged backfill requests: who asked
    popped,         \* how many of them are off the queue
    held,           \* how many of them the ingest engine holds now
    ingest,         \* the ingest engine's place
    stream,         \* live streams opened by this process
    read,           \* changes read off the live stream
    snapshot,       \* the running snapshot: for whom, whether its transaction is open, rows left
    outbox,         \* the item being published, and the lanes it still waits for
    budget          \* faults, reindexes and losses so far

source == <<db, wal>>
daemon == <<phase, continuity>>
sinkside == <<engine, outstanding>>
lanes == <<lane, taken, acked>>
requestlane == <<requests, popped, held>>
ingestside == <<ingest, stream, read, snapshot, outbox>>
vars == <<source, slot, store, daemon, sinkside, lanes, requestlane, ingestside, budget>>

NoSlot == -1

Rows == Values \cup {Absent}
Contents == [Docs -> Rows]
Empty == [d \in Docs |-> Absent]

Store == [serving : Contents, building : Contents, rebuilding : BOOLEAN, seeded : BOOLEAN]

\* A batch of built documents, or the marker that ends a snapshot.
Batch(docs, position) ==
    [kind |-> "batch", docs |-> [d \in docs |-> db[d]], position |-> position]
Marker == [kind |-> "complete", docs |-> [d \in {} |-> Absent], position |-> 0]

NoSnapshot == [on |-> FALSE, open |-> FALSE, for |-> {}, rows |-> {}]
NothingOut == [item |-> Marker, to |-> {}]

Init ==
    /\ db \in Contents
    /\ wal = <<>>
    /\ slot = NoSlot
    /\ store = [s \in Sinks |-> [serving |-> Empty, building |-> Empty,
                                 rebuilding |-> FALSE, seeded |-> FALSE]]
    /\ phase = "down" /\ continuity = "Fresh"
    /\ engine = [s \in Sinks |-> "off"]
    /\ outstanding = [s \in Sinks |-> FALSE]
    /\ lane = [s \in Sinks |-> <<>>]
    /\ taken = [s \in Sinks |-> FALSE]
    /\ acked = [s \in Sinks |-> 0]
    /\ requests = <<>> /\ popped = 0 /\ held = 0
    /\ ingest = "off" /\ stream = 0 /\ read = 0
    /\ snapshot = NoSnapshot /\ outbox = NothingOut
    /\ budget = [faults |-> 0, reindexes |-> 0, losses |-> 0]

Spend(what, max) == budget[what] < max /\ budget' = [budget EXCEPT ![what] = @ + 1]

-----------------------------------------------------------------------------
(* The source.                                                             *)

Write ==
    /\ Len(wal) < MaxWrites
    /\ \E d \in Docs, v \in Rows :
          /\ v # db[d]
          /\ db' = [db EXCEPT ![d] = v]
          /\ wal' = Append(wal, d)
    /\ UNCHANGED <<slot, store, daemon, sinkside, lanes, requestlane, ingestside, budget>>

-----------------------------------------------------------------------------
(* The sink port, as the engines see it.                                   *)

\* Sink::apply and flush: the copy under construction takes the writes.
Applied(st, docs) ==
    LET written(copy) == [d \in Docs |-> IF d \in DOMAIN docs THEN docs[d] ELSE copy[d]]
    IN  IF st.rebuilding THEN [st EXCEPT !.building = written(@)]
                         ELSE [st EXCEPT !.serving = written(@)]

\* Sink::reindex and ensure_index: a fresh copy beside the one that serves.
Reindexed(st) == [st EXCEPT !.building = Empty, !.rebuilding = TRUE, !.seeded = FALSE]

\* Sink::mark_seeded: the rebuilt copy serves, then the marker is written.
Swapped(st) ==
    IF st.rebuilding
      THEN [st EXCEPT !.serving = st.building, !.building = Empty, !.rebuilding = FALSE]
      ELSE st

Seeded(st) == [Swapped(st) EXCEPT !.seeded = TRUE]

-----------------------------------------------------------------------------
(* The supervisor.                                                         *)

\* Daemon::start reads the continuity once, and run_all stages every sink.
Start ==
    /\ phase = "down"
    /\ phase' = "staging"
    /\ continuity' = IF slot = NoSlot THEN "Fresh" ELSE "Resumed"
    /\ engine' = [s \in Sinks |-> "stage"]
    /\ UNCHANGED <<source, slot, store, outstanding, lanes, requestlane, ingestside, budget>>

Bug_RunBeforeStaged ==
    /\ phase = "staging"
    /\ \E s \in Sinks : engine[s] = "staged"
    /\ phase' = "running"
    /\ engine' = [s \in Sinks |-> IF engine[s] = "staged" THEN "run" ELSE engine[s]]
    /\ ingest' = "open"
    /\ UNCHANGED <<source, slot, store, continuity, outstanding, lanes, requestlane, stream, read,
                   snapshot, outbox, budget>>

\* Every sink staged: the engines run, the ingest engine with them.
RunAll ==
    /\ phase = "staging"
    /\ \A s \in Sinks : engine[s] = "staged"
    /\ phase' = "running"
    /\ engine' = [s \in Sinks |-> "run"]
    /\ ingest' = "open"
    /\ UNCHANGED <<source, slot, store, continuity, outstanding, lanes, requestlane, stream, read,
                   snapshot, outbox, budget>>

\* The process is gone: what the source and the sinks hold survives.
Gone ==
    /\ phase' = "down" /\ continuity' = "Fresh"
    /\ engine' = [s \in Sinks |-> "off"]
    /\ outstanding' = [s \in Sinks |-> FALSE]
    /\ lane' = [s \in Sinks |-> <<>>]
    /\ taken' = [s \in Sinks |-> FALSE]
    /\ acked' = [s \in Sinks |-> 0]
    /\ requests' = <<>> /\ popped' = 0 /\ held' = 0
    /\ ingest' = "off" /\ stream' = 0 /\ read' = 0
    /\ snapshot' = NoSnapshot /\ outbox' = NothingOut

\* A crash, or a shutdown, which drops every engine where it is.
Crash ==
    /\ phase # "down"
    /\ Spend("faults", MaxFaults)
    /\ Gone
    /\ UNCHANGED <<source, slot, store>>

-----------------------------------------------------------------------------
(* A sink engine: staging.                                                 *)

\* rebuild_stale_seeds: under a source with no resume point, a seeded index
\* gets a fresh copy; an unseeded one is left alone.
Unstaled(s) ==
    IF phase = "staging" /\ continuity = "Fresh" /\ store[s].seeded
      THEN Reindexed(store[s])
      ELSE store[s]

\* A staged engine waits for the others the first time, and runs at once when
\* it is staged again.
AfterStage == IF phase = "staging" THEN "staged" ELSE "run"

Bug_StageTrustsSeeds(s) ==
    /\ engine[s] = "stage"
    /\ engine' = [engine EXCEPT ![s] =
                    IF ~store[s].seeded /\ ~outstanding[s] THEN "request" ELSE AfterStage]
    /\ UNCHANGED <<source, slot, store, daemon, outstanding, lanes, requestlane, ingestside,
                   budget>>

Bug_StageReadsSeedsFirst(s) ==
    /\ engine[s] = "stage"
    /\ store' = [store EXCEPT ![s] = Unstaled(s)]
    /\ engine' = [engine EXCEPT ![s] =
                    IF ~store[s].seeded /\ ~outstanding[s] THEN "request" ELSE AfterStage]
    /\ UNCHANGED <<source, slot, daemon, outstanding, lanes, requestlane, ingestside, budget>>

\* SinkEngine::stage, up to the publication of the request.
Stage(s) ==
    /\ engine[s] = "stage"
    /\ store' = [store EXCEPT ![s] = Unstaled(s)]
    /\ engine' = [engine EXCEPT ![s] =
                    IF ~store'[s].seeded /\ ~outstanding[s] THEN "request" ELSE AfterStage]
    /\ UNCHANGED <<source, slot, daemon, outstanding, lanes, requestlane, ingestside, budget>>

\* request_backfill: the publication waits while the request lane is full.
RequestBackfill(s) ==
    /\ engine[s] = "request"
    /\ Len(requests) - popped < Capacity
    /\ requests' = Append(requests, s)
    /\ outstanding' = [outstanding EXCEPT ![s] = TRUE]
    /\ engine' = [engine EXCEPT ![s] = AfterStage]
    /\ UNCHANGED <<source, slot, store, daemon, lanes, popped, held, ingestside, budget>>

Bug_ReindexWhileOutstanding(s) ==
    /\ engine[s] = "run"
    /\ Spend("reindexes", MaxReindexes)
    /\ store' = [store EXCEPT ![s] = Reindexed(@)]
    /\ engine' = [engine EXCEPT ![s] = "request"]
    /\ UNCHANGED <<source, slot, daemon, outstanding, lanes, requestlane, ingestside>>

\* SinkControl::Reindex, between two deliveries; ignored while outstanding.
Reindex(s) ==
    /\ engine[s] = "run"
    /\ ~outstanding[s]
    /\ Spend("reindexes", MaxReindexes)
    /\ store' = [store EXCEPT ![s] = Reindexed(@)]
    /\ engine' = [engine EXCEPT ![s] = "request"]
    /\ UNCHANGED <<source, slot, daemon, outstanding, lanes, requestlane, ingestside>>

-----------------------------------------------------------------------------
(* A sink engine: its lane.                                                *)

\* The first item of the lane is delivered, or redelivered.
SinkRecv(s) ==
    /\ engine[s] = "run"
    /\ lane[s] # <<>>
    /\ engine' = [engine EXCEPT ![s] = "item"]
    /\ taken' = [taken EXCEPT ![s] = TRUE]
    /\ UNCHANGED <<source, slot, store, daemon, outstanding, lane, acked, requestlane, ingestside,
                   budget>>

\* What processing an item does to the store.
Processed(st, item) ==
    IF item.kind = "batch" THEN Applied(st, item.docs) ELSE Seeded(st)

\* The item is processed and acknowledged; a marker answers the request.
SinkCommit(s) ==
    LET item == Head(lane[s]) IN
    /\ engine[s] = "item"
    /\ engine' = [engine EXCEPT ![s] = "run"]
    /\ store' = [store EXCEPT ![s] = Processed(@, item)]
    /\ outstanding' = [outstanding EXCEPT ![s] = @ /\ item.kind # "complete"]
    /\ lane' = [lane EXCEPT ![s] = Tail(@)]
    /\ taken' = [taken EXCEPT ![s] = FALSE]
    /\ acked' = [acked EXCEPT ![s] = Max({@, item.position})]
    /\ UNCHANGED <<source, slot, daemon, requestlane, ingestside, budget>>

\* What a call that failed while processing the item may have left behind.
HalfProcessed(st, item) ==
    {st, Processed(st, item)} \cup (IF item.kind = "complete" THEN {Swapped(st)} ELSE {})

\* What a failed call of the engine may have left at the sink: staging, a
\* reindex between two deliveries, or an item half processed.
Leftovers(s) ==
    CASE engine[s] = "stage" -> {store[s], Unstaled(s)}
      [] engine[s] = "run"   -> {store[s]} \cup (IF outstanding[s] THEN {} ELSE {Reindexed(store[s])})
      [] engine[s] = "item"  -> HalfProcessed(store[s], Head(lane[s]))

\* A sink call fails: the run ends, and the item it had stays first in line.
SinkFail(s) ==
    /\ engine[s] \in {"stage", "run", "item"}
    /\ Spend("faults", MaxFaults)
    /\ \E left \in Leftovers(s) : store' = [store EXCEPT ![s] = left]
    /\ engine' = [engine EXCEPT ![s] = "backoff"]
    /\ UNCHANGED <<source, slot, daemon, outstanding, lanes, requestlane, ingestside>>

Bug_RestartSkipsStage(s) ==
    /\ engine[s] = "backoff"
    /\ engine' = [engine EXCEPT ![s] = IF phase = "staging" THEN "stage" ELSE "run"]
    /\ UNCHANGED <<source, slot, store, daemon, outstanding, lanes, requestlane, ingestside,
                   budget>>

SinkRestart(s) ==
    /\ engine[s] = "backoff"
    /\ engine' = [engine EXCEPT ![s] = "stage"]
    /\ UNCHANGED <<source, slot, store, daemon, outstanding, lanes, requestlane, ingestside,
                   budget>>

-----------------------------------------------------------------------------
(* The ingest engine.                                                      *)

\* prepare creates the slot at the end of the WAL when it is missing; live
\* opens a stream from the slot.
IngestOpen ==
    /\ ingest = "open"
    /\ slot' = IF slot = NoSlot THEN Len(wal) ELSE slot
    /\ read' = slot'
    /\ stream' = stream + 1
    /\ ingest' = "loop"
    /\ UNCHANGED <<source, store, daemon, sinkside, lanes, requestlane, snapshot, outbox, budget>>

Position(n) == stream * (MaxWrites + 1) + n

Publish(item, to) ==
    /\ outbox' = [item |-> item, to |-> to]
    /\ ingest' = "publish"

\* The changes the stream has ready, built as one batch for every lane.
LiveBatch ==
    /\ ingest = "loop"
    /\ \E n \in (read + 1) .. Len(wal) :
          /\ Publish(Batch({wal[i] : i \in (read + 1) .. n}, Position(n)), Sinks)
          /\ read' = n
    /\ UNCHANGED <<source, slot, store, daemon, sinkside, lanes, requestlane, stream, snapshot,
                   budget>>

\* One lane takes the item; a full lane makes the publication wait.
PublishTo(s) ==
    /\ ingest = "publish"
    /\ s \in outbox.to
    /\ Len(lane[s]) - (IF taken[s] THEN 1 ELSE 0) < Capacity
    /\ lane' = [lane EXCEPT ![s] = Append(@, outbox.item)]
    /\ outbox' = [outbox EXCEPT !.to = @ \ {s}]
    /\ UNCHANGED <<source, slot, store, daemon, sinkside, taken, acked, requestlane, ingest,
                   stream, read, snapshot, budget>>

\* The lowest position every lane has acknowledged.
Watermark == Min({acked[s] : s \in Sinks})

Bug_ConfirmHighest ==
    LET high == Max({acked[s] : s \in Sinks})
    IN  IF high > Position(0) THEN Max({slot, high - Position(0)}) ELSE slot

\* Where confirming the watermark takes the slot.
Confirmed ==
    IF Watermark > Position(0) THEN Max({slot, Watermark - Position(0)}) ELSE slot

\* A live or snapshot batch is on every lane it was for.
PublishedBatch ==
    /\ ingest = "publish"
    /\ outbox.to = {} /\ outbox.item.kind = "batch"
    /\ slot' = IF outbox.item.position # 0 THEN Confirmed ELSE slot
    /\ ingest' = "loop" /\ outbox' = NothingOut
    /\ UNCHANGED <<source, store, daemon, sinkside, lanes, requestlane, stream, read, snapshot,
                   budget>>

\* The confirm tick.
Confirm ==
    /\ ingest = "loop"
    /\ slot' = Confirmed
    /\ UNCHANGED <<source, store, daemon, sinkside, lanes, requestlane, ingestside, budget>>

Asked == {requests[i] : i \in 1 .. held}

\* The first request of a snapshot, redelivered or new, and then the others,
\* until every lane has asked.
TakeRequest ==
    /\ \/ ingest = "loop" /\ ~snapshot.on
       \/ ingest = "collect" /\ Asked # Sinks
    /\ held < Len(requests)
    /\ held' = held + 1
    /\ popped' = Max({popped, held'})
    /\ ingest' = "collect"
    /\ UNCHANGED <<source, slot, store, daemon, sinkside, lanes, requests, stream, read, snapshot,
                   outbox, budget>>

\* Every lane has asked, or nothing more came within max_delay.
StartSnapshot ==
    /\ ingest = "collect"
    /\ Asked = Sinks \/ held = Len(requests)
    /\ snapshot' = [on |-> TRUE, open |-> FALSE, for |-> Asked, rows |-> {}]
    /\ ingest' = "loop"
    /\ UNCHANGED <<source, slot, store, daemon, sinkside, lanes, requestlane, stream, read, outbox,
                   budget>>

\* The first poll opens the transaction whose snapshot fixes the rows.
SnapshotOpen ==
    /\ ingest = "loop"
    /\ snapshot.on /\ ~snapshot.open
    /\ snapshot' = [snapshot EXCEPT !.open = TRUE, !.rows = {d \in Docs : db[d] # Absent}]
    /\ UNCHANGED <<source, slot, store, daemon, sinkside, lanes, requestlane, ingest, stream, read,
                   outbox, budget>>

\* Some of the rows left, built as one batch for the lanes that asked.
SnapshotBatch ==
    /\ ingest = "loop"
    /\ \E rows \in (SUBSET snapshot.rows) \ {{}} :
          /\ Publish(Batch(rows, 0), snapshot.for)
          /\ snapshot' = [snapshot EXCEPT !.rows = @ \ rows]
    /\ UNCHANGED <<source, slot, store, daemon, sinkside, lanes, requestlane, stream, read, budget>>

\* The snapshot ran out of rows: the marker goes to the lanes that asked.
SnapshotEnd ==
    /\ ingest = "loop"
    /\ snapshot.open /\ snapshot.rows = {}
    /\ Publish(Marker, snapshot.for)
    /\ UNCHANGED <<source, slot, store, daemon, sinkside, lanes, requestlane, stream, read,
                   snapshot, budget>>

Bug_FinishKeepsPopped ==
    /\ ingest = "publish"
    /\ outbox.to = {} /\ outbox.item.kind = "complete"
    /\ requests' = SubSeq(requests, held + 1, Len(requests))
    /\ held' = 0
    /\ snapshot' = NoSnapshot
    /\ ingest' = "loop" /\ outbox' = NothingOut
    /\ UNCHANGED <<source, slot, store, daemon, sinkside, lanes, popped, stream, read, budget>>

\* The marker is on every lane that asked: the requests are acknowledged.
FinishSnapshot ==
    /\ ingest = "publish"
    /\ outbox.to = {} /\ outbox.item.kind = "complete"
    /\ requests' = SubSeq(requests, held + 1, Len(requests))
    /\ popped' = popped - held /\ held' = 0
    /\ snapshot' = NoSnapshot
    /\ ingest' = "loop" /\ outbox' = NothingOut
    /\ UNCHANGED <<source, slot, store, daemon, sinkside, lanes, stream, read, budget>>

Bug_FailAcksRequests ==
    /\ ingest' = "backoff"
    /\ snapshot' = NoSnapshot /\ outbox' = NothingOut
    /\ requests' = SubSeq(requests, held + 1, Len(requests))
    /\ popped' = popped - held /\ held' = 0
    /\ UNCHANGED <<stream, read>>

\* The run's state is dropped, its request handles with it.
IngestDown ==
    /\ ingest' = "backoff"
    /\ snapshot' = NoSnapshot /\ outbox' = NothingOut
    /\ held' = 0
    /\ UNCHANGED <<requests, popped, stream, read>>

\* A source or builder error.
IngestFail ==
    /\ ingest \in {"loop", "collect"}
    /\ Spend("faults", MaxFaults)
    /\ IngestDown
    /\ UNCHANGED <<source, slot, store, daemon, sinkside, lanes>>

IngestRestart ==
    /\ ingest = "backoff"
    /\ ingest' = "open"
    /\ UNCHANGED <<source, slot, store, daemon, sinkside, lanes, requestlane, stream, read,
                   snapshot, outbox, budget>>

\* The live stream ends: the engine serves the snapshot and the requests it
\* has, then its run ends.
LiveEnd ==
    /\ ingest = "loop"
    /\ ~snapshot.on /\ requests = <<>>
    /\ Spend("faults", MaxFaults)
    /\ ingest' = "ended"
    /\ UNCHANGED <<source, slot, store, daemon, sinkside, lanes, requestlane, stream, read,
                   snapshot, outbox>>

\* The supervisor waits for the lanes to drain, or for DRAIN_TIMEOUT, confirms
\* the last watermark and stops the sinks.
Drained ==
    /\ ingest = "ended"
    /\ slot' = Confirmed
    /\ Gone
    /\ UNCHANGED <<source, store, budget>>

-----------------------------------------------------------------------------
(* The slot is dropped, or a failover leaves it behind.                    *)

AllSeeded == \A s \in Sinks : store[s].seeded

\* While the daemon runs, the live stream breaks with it.
SlotLostRunning ==
    /\ "running" \in SlotLossAt
    /\ slot # NoSlot /\ ingest = "loop"
    /\ Spend("losses", MaxLosses)
    /\ slot' = NoSlot
    /\ IngestDown
    /\ UNCHANGED <<source, store, daemon, sinkside, lanes>>

\* While the daemon is down, before or after its sinks were seeded.
SlotLostDown ==
    /\ (IF AllSeeded THEN "seeded" ELSE "seeding") \in SlotLossAt
    /\ slot # NoSlot /\ phase = "down"
    /\ Spend("losses", MaxLosses)
    /\ slot' = NoSlot
    /\ UNCHANGED <<source, store, daemon, sinkside, lanes, requestlane, ingestside>>

-----------------------------------------------------------------------------
Ingest ==
    \/ IngestOpen \/ LiveBatch \/ PublishedBatch \/ TakeRequest \/ StartSnapshot
    \/ SnapshotOpen \/ SnapshotBatch \/ SnapshotEnd \/ FinishSnapshot \/ IngestRestart

Sink(s) == Stage(s) \/ RequestBackfill(s) \/ SinkRecv(s) \/ SinkCommit(s) \/ SinkRestart(s)

Next ==
    \/ Write \/ Start \/ RunAll \/ Crash \/ SlotLostRunning \/ SlotLostDown
    \/ Ingest \/ Confirm \/ IngestFail \/ LiveEnd \/ Drained
    \/ \E s \in Sinks : Sink(s) \/ Reindex(s) \/ SinkFail(s) \/ PublishTo(s)

Spec == Init /\ [][Next]_vars

\* Every task keeps running and the select! of the ingest loop serves every
\* ready branch in turn; writes, faults, reindexes and losses are not fair.
FairSpec ==
    /\ Spec
    /\ WF_vars(Start) /\ WF_vars(RunAll) /\ WF_vars(Drained)
    /\ WF_vars(IngestOpen) /\ WF_vars(IngestRestart)
    /\ SF_vars(LiveBatch) /\ SF_vars(TakeRequest) /\ SF_vars(SnapshotOpen) /\ SF_vars(SnapshotBatch) /\ SF_vars(SnapshotEnd)
    /\ WF_vars(StartSnapshot) /\ WF_vars(PublishedBatch) /\ WF_vars(FinishSnapshot)
    /\ \A s \in Sinks : WF_vars(Sink(s)) /\ WF_vars(PublishTo(s))

-----------------------------------------------------------------------------
(* What the deployment promises.                                           *)

Places == {"off", "stage", "request", "staged", "run", "item", "backoff"}

IsItem(item) ==
    /\ item.kind \in {"batch", "complete"}
    /\ DOMAIN item.docs \subseteq Docs
    /\ \A d \in DOMAIN item.docs : item.docs[d] \in Rows
    /\ item.position \in Nat

TypeOK ==
    /\ db \in Contents
    /\ wal \in Seq(Docs)
    /\ slot \in Nat \cup {NoSlot}
    /\ store \in [Sinks -> Store]
    /\ phase \in {"down", "staging", "running"}
    /\ continuity \in {"Fresh", "Resumed"}
    /\ engine \in [Sinks -> Places]
    /\ outstanding \in [Sinks -> BOOLEAN]
    /\ \A s \in Sinks : \A i \in 1 .. Len(lane[s]) : IsItem(lane[s][i])
    /\ taken \in [Sinks -> BOOLEAN]
    /\ \A s \in Sinks : taken[s] => lane[s] # <<>>
    /\ \A s \in Sinks : engine[s] = "item" => taken[s]
    /\ acked \in [Sinks -> Nat]
    /\ requests \in Seq(Sinks)
    /\ held =< popped /\ popped =< Len(requests)
    /\ ingest \in {"off", "open", "loop", "collect", "publish", "backoff", "ended"}
    /\ stream \in Nat
    /\ read \in 0 .. Len(wal)
    /\ snapshot \in [on : BOOLEAN, open : BOOLEAN, for : SUBSET Sinks, rows : SUBSET Docs]
    /\ IsItem(outbox.item) /\ outbox.to \subseteq Sinks
    /\ budget \in [{"faults", "reindexes", "losses"} -> Nat]

\* No change to d lies beyond the slot.
Settled(d) == \A i \in (slot + 1) .. Len(wal) : wal[i] # d

\* What survives a crash is enough to recover: a document with no change left
\* beyond the slot, which the source will never send again, reads the same at
\* every seeded sink as at the source.
Recoverable ==
    slot # NoSlot =>
        \A s \in Sinks, d \in Docs :
            store[s].seeded /\ Settled(d) => store[s].serving[d] = db[d]

\* A backfill a sink engine waits for is never forgotten: its request is still
\* in the request lane, or its marker is being published or on the sink's lane.
\* Otherwise staging would skip the index forever.
NoForgottenBackfill ==
    \A s \in Sinks :
        outstanding[s] =>
            \/ \E i \in 1 .. Len(requests) : requests[i] = s
            \/ \E i \in 1 .. Len(lane[s]) : lane[s][i].kind = "complete"

\* Nothing to read, to publish, to deliver or to answer.
Quiet ==
    /\ phase = "running"
    /\ ingest = "loop" /\ read = Len(wal) /\ ~snapshot.on /\ requests = <<>>
    /\ \A s \in Sinks : engine[s] = "run" /\ lane[s] = <<>>

Synced == \A s \in Sinks : store[s].seeded /\ store[s].serving = db

\* A deployment at rest has every sink seeded and equal to the source: no
\* order of snapshot and live batches, redeliveries and rebuilds leaves a
\* missing, stale or ghost document.
QuietMeansSynced == Quiet => Synced

\* Whatever failed, and even when the slot was lost, every sink ends up seeded:
\* no backfill is left unasked or unanswered. Once the source and the faults
\* come to rest it is equal to the source too, unless the slot was lost.
EventuallySynced ==
    /\ \A s \in Sinks : <>[](store[s].seeded)
    /\ <>[](Synced \/ budget.losses > 0)

\* A full lane or request lane is back-pressure: every sink engine eventually
\* runs.
EverySinkRuns == \A s \in Sinks : <>(engine[s] = "run")

-----------------------------------------------------------------------------
(* The copies, as OpensearchSink implements them.                          *)

Copies(s) ==
    INSTANCE TwoCopies WITH
        Contents <- Contents, Empty <- Empty, Whole <- Contents,
        serving <- store[s].serving,
        building <- IF store[s].rebuilding THEN store[s].building ELSE Empty,
        rebuilding <- store[s].rebuilding,
        seeded <- store[s].seeded,
        damaged <- FALSE

\* The deployment asks of a sink nothing that two copies and a marker do not
\* allow: whatever engines restart, lag or fail, a rebuild starts only from a
\* seeded index, so never while a backfill fills the copy it would discard.
\* (How whole a copy is when it is served is what Recoverable is about.)
SinksAreTwoCopies ==
    /\ \A s \in Sinks : Copies(s)!Init
    /\ [][\A s \in Sinks : [Copies(s)!Next]_(Copies(s)!vars)]_vars
=============================================================================
