# flusso: a TLA+ model of the synchronisation pipeline and of the schema designer

flusso keeps search indexes in step with a Postgres database. It follows the
database's write-ahead log through a replication slot, rebuilds every document a
change touches, and delivers the documents to one or more sinks (OpenSearch,
stdout). Its promise is at-least-once delivery with convergence: whatever fails,
the indexes end up equal to the database, and the slot (which lets Postgres
forget the log) never moves past something a sink does not hold yet.

Its other large part is the designer, a local web page that edits the deployment's
configuration (`flusso.toml` and one schema file per index) visually or as YAML,
and saves it through a small server. Its promise is that nothing the user made is
lost, mixed up or written unseen.

This directory models the code that keeps these promises, checks it with TLC on
small instances, and proves with TLAPS the safety of the pipeline and, in the
designer, of saving and of Code mode. Paths below are relative to the repository.

## 1. Inventory

### The parts and their state

| Part | Source | State | Operations |
| --- | --- | --- | --- |
| In-process stream | `libs/2-adapters/stream-channel/src/lib.rs` | per lane: a bounded queue, a ledger of unacknowledged deliveries with a cursor, the acknowledged position | `publish`, `recv`, `ack`, dropping a handle (redelivery), `watermark` |
| WAL capture | `libs/2-adapters/source-postgres/src/cdc/{stream,ack,capture}.rs` | the open transaction, changes to emit, the sequence-to-LSN map; the slot on the server | `live`, decoding of begin / change / commit / keepalive, `confirm`, the feedback to the server |
| Snapshot reader | `libs/2-adapters/source-postgres/src/cdc/backfill.rs` | one repeatable-read transaction with a cursor | open, fetch, end |
| Ingest engine | `libs/2-engine/src/ingest.rs` | pending batch, running snapshot with its request handles, last confirmed position | one `select!` loop: live changes, snapshot rows, requests, the confirm tick |
| Sink engine | `libs/2-engine/src/sink_engine.rs` | outstanding backfills | `stage`, the lane loop, `reindex` |
| OpenSearch sink | `libs/2-adapters/sink-opensearch/src/{sink_impl,generations,transport}.rs` | generations, two aliases, the meta document; in memory the write target | `ensure_index`, `apply`/`flush`, `is_seeded`, `mark_seeded`, `reindex` |
| Supervisor | `libs/3-daemon/src/{lib,supervise}.rs` | the continuity read at start, per-engine restart state | start, stage every sink, run, restart, drain, shut down |
| Status | `libs/3-daemon/src/{status,observer,lag}.rs` | phases and counters | marks and counters from the engines |
| Document builder | `libs/2-adapters/source-postgres/src/document` | none (a schema) | resolve a change to documents, build them |
| Kernel, configuration, ports | `libs/0-kernel`, `libs/1-config`, `libs/1-ports` | none | validated types, parsing, traits |
| Query SDK, command line, chart | `sdk`, `apps/cli`, `deploy` | outside the pipeline | |

The designer is `apps/design`; paths in this table are relative to its
`frontend/src`.

| Part | Source | State | Operations |
| --- | --- | --- | --- |
| Document store | `store/design.ts` | the edited document (index rows, schemas by name, other settings), undo and redo, the open index, selection, folded nodes | `setConfig`, `apply`, `createIndex`, `dupIndex`, `revertChanges`, undo, redo |
| Save | `App.tsx`; server `apps/design/src/api.rs` | the saved snapshot, the request on its way, the review; the files | diff, review, save (stage, commit, remove), cancel, reset |
| Code mode | `App.tsx`, `store/ui.ts` | the YAML buffer and its owner, debounce timers, requests in flight | type, switch, parse, re-seed, preview |
| Schema tree | `model/{tree,edit,layout,issues,prune,complete,relations}.ts`, `fields.ts` | none (functions of a schema) | edits, canvas graph and layout, pruning for the preview, issues |
| Canvas and inspector | `components/{Canvas,DocNodeView,Inspector}.tsx` | selection, folded nodes (in the store) | every edit of a schema by hand |
| Save review and diff | `App.tsx` (`DiffModal`), `components/DiffView.tsx`, `model/diff.ts` | files listed, ticks, cursor, filter, layout, unfolded gaps | keys, clicks, confirm |
| Navigation and palette | `router.ts`, `App.tsx`, `components/CommandPalette.tsx`, `model/recent.ts` | what is shown, the browser history, recent picks | open, back, forward, palette commands |
| Forms | `components/{ConfigPanel,AdapterForm,Filters,widgets,Inspector}.tsx`, `model/generic.ts` | drafts and text boxes | edits of sinks, options, filters, lists, JSON values; the new-index wizard |
| Catalog browser, preview pane, search ranking, code editor, theme, translations | `components`, `model`, `i18n.tsx` | presentation | |

### How they interact

The ingest engine publishes batches to one lane per sink and waits when a lane is
full. A sink engine takes one item at a time, writes it, and acknowledges it.
The lowest acknowledged position of all lanes is the watermark; the ingest engine
hands it to the capture, whose map turns it into the LSN reported to the server.
A sink engine asks for a backfill on the request lane; the ingest engine collects
requests, runs one snapshot for all of them, publishes its rows and a completion
marker, and only then acknowledges the requests. On the marker the sink swaps its
rebuilt copy in and writes the seed marker. The supervisor stages every sink
before the ingest engine may create the slot. The slot, the database and the
sinks' stores survive the process; the stream does not.

In the designer every part edits the one document of the store. The address bar,
Code mode and the save flow are effects of a render: they run when something they
depend on has changed, some after a delay, and their requests are answered in any
order while the user goes on. The tree, the canvas, the review and the forms keep
small states of their own that name parts of the document by position or by key.
The server knows only files: it compares what it is sent with what is on disk,
stages the new files beside the old, renames them into place, then removes.

### What is hard

* `recv` lets go of the ledger while it awaits the queue, and a handle can be
  dropped meanwhile; `recv` itself is cancelled at that await.
* Requests are held together and acknowledged late: a failed snapshot gives all
  of them back.
* Snapshot rows and live changes interleave; building reads the database later
  than the change was read.
* Confirmation runs on sequence numbers, the slot on LSNs, and a stream reopened
  in the same process meets watermarks of the stream before it.
* Every sink operation is several requests, any of which can fail with the rest
  undone, and the process can die between any two.
* The slot can disappear, and then seeds recorded under it are worthless.
* Full lanes make engines wait for one another.
* In the designer, an index is a position in a table, a name that keys its schema,
  an id, a path of its file, a place in the browser history and the owner of a
  buffer, and each can change under the others.
* Replies come late: after more typing, a switch of index, an undo, a reset.
* A save may be partial (files unchecked in the review), may fail half-way, or its
  answer may be lost, and the snapshot it leaves decides what is saved next.
* Selections, folded nodes and text boxes outlive the edits of what they name.

`PROJECT.json` lists each of these at its line under `hazards`.

## 2. Modules

| Module | Models | Used by |
| --- | --- | --- |
| `Ledger` | the in-flight ledger: one operator per critical section | `Channel` |
| `Channel` | one channel: queue, ledger, the `recv` call split at its await, the live handles | `MCChannel`, `ChannelProofs` |
| `LaneLog` | abstract: a log with one committed offset | `Channel` (refinement) |
| `Positions` | `ack.rs`: the sequence-to-LSN map | `WalCapture` |
| `WalCapture` | the decode loop, keepalives, reopening, ingest's batch and the lanes, confirmation, the slot | `MCWalCapture`, `WalCaptureProofs` |
| `TwoCopies` | abstract: the copy readers see, one under construction, a seed marker | `OpensearchSink`, `Pipeline` (refinements) |
| `OpensearchSink` | one index of the OpenSearch sink, request by request, with the sink engine's calls | `MCOpensearchSink`, `OpensearchSinkProofs` |
| `Pipeline` | the deployment: ingest engine, sink engines, lanes, requests, supervisor, slot, stores | `MCPipeline`, `PipelineProofs` |
| `DesignStore` | the document and the edits of the index table, undo and redo | `DesignSave` |
| `DesignSave` | operations to save, server, review, snapshot | `MCDesignSave`, `DesignSaveProofs` |
| `CodeSync` | Code mode: buffer, effects, requests | `MCCodeSync`, `CodeSyncProofs` |
| `SchemaTree` | the pure functions on a schema | `SchemaEdit`, `MCPanels` |
| `SchemaEdit` | canvas and inspector | `MCPanels` |
| `LineDiff` | the pure functions of the diff | `Review` |
| `Review` | the dialog of the save review | `MCPanels` |
| `Navigation` | screens, history, palette | `MCPanels` |
| `Forms` | editors of the panels, as functions of their value | `MCPanels` |
| `Greatest` | lemmas: the least and the greatest of a finite set of numbers, induction up to a bound | `WalCaptureProofs`, `OpensearchSinkProofs`, `PipelineProofs`, `DesignSaveProofs` |
| `ChannelProofs`, `WalCaptureProofs`, `OpensearchSinkProofs`, `PipelineProofs` | theorems | |
| `PipelineSyncProofs` | theorems on what the sinks hold (extends `PipelineProofs`) | |
| `CodeSyncProofs`, `DesignSaveProofs` | theorems | |

`Pipeline` composes the parts at the level the other modules justify. A lane is
the log `LaneLog` that `Channel` is shown to implement for a consumer with one
delivery at a time. The slot moves the way `WalCapture` lets it move for
transactions of one change, at once rather than after the feedback interval: a
slot that lags only makes the server send more again. A sink's store is
`TwoCopies`, which `OpensearchSink` implements with generations and aliases; that the
deployment asks nothing else of it is checked as well. Definitions named `Bug_...` are plausible mistakes in the definition
that follows them; each shows that some property can fail.

`DesignSave` extends the store with the save flow, because a save reads the
document twice (for the diff and for the write) and leaves the snapshot that undo,
reset and the next save work from. `CodeSync` is separate: it needs many steps
between few schemas, while saving needs rows, names, paths and files. `MCPanels`
instantiates the canvas, the review, the navigation and the forms, which share no
variable, in one state space; a behaviour is about one of them (`panel`), and the
variables of the others stay at a fixed value.

### State and actions against the code

*Channel.* `queue` is the tokio queue; `ledger` is `Ledger` (in-flight entries
with tickets, cursor, next ticket, acknowledged position); `handle` are the
`ChannelAck` values alive. `recv` is `RecvRedelivery` (an entry behind the cursor
is served at once), or `RecvAwait`, `RecvPop`, `RecvRecord` (await the queue, take
an item, lock the ledger again and perhaps serve a redelivery first), or
`RecvCancel` (the `select!` dropped the call). `AckHandle` and `DropHandle` are
`ack` and `Drop`.

*WalCapture.* A transaction is the number of its changes that the publication
lets through, its LSN its index in `wal`. `RecvBegin`, `RecvChange`, `RecvCommit`
and `RecvKeepAlive` are the arms of `handle`, `Emit` the turn of the loop that
yields a change, into ingest's `batch`; `Open` is `live` (a new map that continues
the numbering). `Publish` is `commit_live`, which puts the batch on the lanes, and
`Confirm` hands the watermark to the capture when the batch is empty. Every lane is
acknowledged in order and the watermark is the lowest lane's, so the lanes are one
queue, from which an item goes (`Ack`) when the last lane acknowledged it; then every
sink holds its changes. `Disconnect` is any error of ingest's run: the stream and the
batch are gone, and the batch's item may be on some of the lanes, where its position
can still become the watermark although no sink but theirs holds its changes. `Crash`
takes the lanes too, as does `Stop`, the supervisor's end of a stream that ran out.
`Feedback` is the client's status update. `emitted` and `durable` are history.

*OpensearchSink.* `content` are the generations that exist with the rows in each,
`holders` the generations behind the hash alias, `meta` the meta document,
`physical` the in-memory write target. Each step of `pc` is one request of
`ensure_index` (read, create, meta, alias), of `reindex`, or of `mark_seeded`
(refresh, swap, drop, mark). `Fail` ends the call between any two, `Crash` the
process, `OperatorDrop` deletes a generation.

*Pipeline.* `engine[s]` is where a sink engine is: staging, publishing its
request, staged, running, with an item, in backoff. `ingest` is where the ingest
engine is: opening, in its loop, collecting requests, publishing, in backoff,
ended. `LiveBatch` reads and builds; `PublishTo` is one lane taking the item, so a
batch may be on some lanes only when the process dies; `PublishedBatch` confirms.
`TakeRequest`, `StartSnapshot`, `SnapshotOpen`, `SnapshotBatch`, `SnapshotEnd` and
`FinishSnapshot` are the snapshot from the first request to the acknowledgement.
`IngestFail` drops the run's state with its request handles, `SinkFail` leaves
the store in any state the failed call can leave, `Crash` keeps only database,
slot and stores. Building a document reads `db` at that moment.

*DesignStore, DesignSave.* `doc` is the index rows (name, path, id), the schemas by
name, and a number for all other settings. A schema is its revision and, as
history, the id of the row it was made for. `SetConfig` is `setConfig` with its
correlation by position; `RenameRow`, `AddRow`, `RemoveRow`, `MoveRow` and `SetRest` are
the panel's calls of it. `SendDiff`, `DiffReply`, `Confirm` and `SaveReply` are the two
halves of `save` and `performSave`; `plan`, `Steps` and `Commit` are the server;
`RequestFails` loses the request, the answer, or dies between two renames.
`Snapshot` is what the client remembers: the document as sent, or, when the review
unchecked some entries, the old snapshot with the operations that were `Applied`
folded in. `torn` holds the documents of which failed saves left something on disk,
until a save succeeds. `doubts` and `tangled` record, as history,
the causes the properties except; they start with what the project was loaded with,
because loading checks neither that names nor that paths are distinct.

*CodeSync.* The document is a sequence of versions with the one shown. A text is
what it says. Every user step and reply ends in `Render`, the three effects: parse
(`ParseEffect`), re-seed (`SeedEffect`), preview (`ViewEffect`), each comparing its
dependencies before and after. `ParseFires` is the debounce timer, `ParseReply` the
guarded reply.

*SchemaTree, SchemaEdit.* A schema is a tree of fields addressed by paths of
indices, one record for all kinds; `uid` is history, which field it is. The
actions of `SchemaEdit` are the handlers of the node boxes, the inspector and the
keyboard. `picked` is the field the user acted on, by its `uid` and not by its place:
an action that selects (a click, an addition, a duplicate) says which field it means,
and the others leave it. `loose` is set by a removal at or in front of the selected
place and by an undo that changes the rows around it. `past` holds whole documents,
the root table with the fields.

*LineDiff, Review.* A line is a sequence of tokens, a token a sequence of letters,
so that the thresholds of the word diff are what they are in the code. `files`,
`include`, `cursor`, `query`, `mode` and `expanded` are the states of the dialog. `plan`
is the diff the document would give now, which `Redo` (the undo and redo keys, live
under the dialog) changes and `Rediff` (Save pressed again) shows. `Confirm` writes what
the plan of that moment holds, without the listed files that are not ticked; `cleared`
records, as history, whose tick the user took away.

*Navigation.* `entries` and `at` are the browser history; every step that changes the
view ends in `WriteUrl`, the effect that pushes or replaces an entry. `Travel` is
popstate. `astray` and `undone` record that history met an index that is gone.

*Forms.* A behaviour is one editor (`form`) with its value and its draft (`text`). A
JavaScript object is a sequence of entries in the order in which it lists its keys:
whole numbers first, in order (`ArrayKeys`), then the others as they were added (`Slot`).

## 3. Runs

Passing runs:

| Run | Bounds | Shows |
| --- | --- | --- |
| `channel_requests` | 3 handles, 4 items, capacity 2 | nothing lost (`NothingLost`), orphaned (`NoOrphan`) or reordered (`InOrder`); every item eventually processed |
| `channel_lane` | 1 handle, 5 items, capacity 2 | the channel implements `LaneLog`; the acknowledged position is cumulative |
| `wal_safety` | 2 transactions of up to 2 changes, batches of up to 2, 2 faults | `NoLostTransaction`, `PositionsNameOneChange`, `EventuallyDurable` |
| `sink` | 2 rows, 2 rebuilds, 3 failures, 1 deletion | `WritesGoToActive`, `ReadersNeverRegress`, `GenerationsAreFresh`; `SinkIsTwoCopies`, the refinement of `TwoCopies`; while nothing was deleted, `SeededIsServed` and `EventuallySeeded` |
| `pipe_safety` | 2 sinks, 1 document, 1 write, 2 faults, 1 rebuild, 1 slot lost while down | `Recoverable`, `NoForgottenBackfill`, `QuietMeansSynced` |
| `pipe_live` | 1 sink, capacity 1, 1 write, 2 faults, 1 rebuild, 1 slot loss at any time | `EventuallySynced`: every sink ends up seeded, and in sync unless the slot was lost; `SinksAreTwoCopies` |
| `design_save` | 2 rows (one with a path of its own), 3 names, 2 changes, 2 requests and one more for each that failed, 1 failure | `SnapshotIsOnDisk`, `RenamesCarrySchemas`, `UncheckedEditsStayDirty` |
| `code_sync` | 2 indexes, 3 schemas (one unfinished), 4 steps of the user, 1 failure, 2 previews in flight | `AppliedIsCurrent`, `QuietAgrees`, `Settles` |
| `panels` | see below | `SelectionFollows`, `PreviewIsWhatIsComplete`, `CanvasShowsSchema`, `TypeWarningsAgree`; `ReviewShowsTheDiff`; `UrlMirrorsView`, `MainIsNeverBlank`, `TravelKeepsHistory`; `FormKeepsTheRest`, `ShownIsHeld` |

`Recoverable` is the heart of it: a document with no change left beyond the slot
(so the server will never send it again) reads the same at every seeded sink as
in the database, in every reachable state and so also at every crash.
`QuietMeansSynced` says that a deployment with nothing left to do is in sync: no
ghost, stale or missing document remains.

`SnapshotIsOnDisk` is its counterpart in the designer: what the client believes is
saved is what the files say, after any mixture of edits, undos, saves with entries
unchecked, and a save that failed anywhere and was then made again, unless one of the
recorded causes applies: a path taken and left in the same save (`collision`), a file
that was not in the review (`unreviewed`), two rows on one file (`shared`), a name taken
over with an equal schema (`mistaken`), `flusso.toml` saved without the file of a row it
adds, renames or moves (`left`), such a file saved without `flusso.toml` (`displaced`),
and a failed save followed by a save of something else (`torn`). `collision`, `left` and
`displaced` are refuted by a configuration each. `UncheckedEditsStayDirty` says that what was
unchecked is offered again: every entry, when `flusso.toml` was unchecked with it, and
every schema edit in any case.
`QuietAgrees` says that a buffer at rest and the document say the same.
`CanvasShowsSchema` joins two facts, that the graph holds every field exactly once
and that the layout keeps nodes apart; `ReviewShowsTheDiff` that the diff is a
shortest one and that no layout, merge or fold hides a changed line.
Properties of `MCPanels` are stated and explained in the module of their part. The
types of the channel and of the capture are proved (section 4) and not checked again.

Bounds. The interesting cases need few things at once. In the channel, three
deliveries show an acknowledgement in the middle of the ledger, one in front of
and one behind a cursor moved back; four items leave one in the queue and one in
`recv`'s hand. In the capture two transactions of two changes give a batch that
ends inside a transaction, a keepalive between two transactions and a second
stream; a batch of two can hold both changes of a transaction, one, or changes of both,
and be lost whole or half published; two faults are a reopened stream followed by a crash. In the sink, two rows
make a half-built generation and three failures can hit the same operation
again and again. In the pipeline two sinks are what it takes for a straggling
request, for lanes at different positions, and for a batch that reached one
lane; one write against one document meets every place a snapshot or rebuild can
be in, and two faults cover a failure inside the recovery from another. Every
bound is a constant used in a guard; no state constraint is used.

In the designer two rows are enough for a rename, a swap or a removal to meet
another row; of the two requests the first brings the review
and the second the save, which may be partial, and one that fails half way can be made
again. What the next save would write is read off the operations it would plan. Four steps in Code mode are a mode, an edit,
a switch and a return, with the replies of each anywhere between. The canvas starts
from a root with a column and a relation whose column is mistyped, and two edits on
it reach a field inside a group inside a relation and its removal; more edits add
fields beside fields. The diffs are of every pair of files with up to four lines
between them out of three kinds of line, bare and behind enough equal lines to be
folded, with and without a line feed at the end, and of four files, one of which an undo
or a redo under the dialog can add or take away. Navigation has three names, one of them not on disk, landings on each kind of address
including one that does not exist, four moves and four history entries. A list has
two entries, which is one to edit and one to keep, and names and texts among which two
are whole numbers.

The canvas is laid out by the estimated heights of its nodes, unfolded: what a folded
node or a height measured on the screen does to the layout is not checked.

Fairness. Tasks run: every engine step that stays possible is taken (weak
fairness), because tokio polls every ready task. The branches of the ingest
loop's `select!`, and of a sink engine's, get strong fairness, because `select!`
picks at random among the ready ones. The supervisor restarts what failed, and a
deployment that stopped at the end of its stream is started again (`Stop`, `Open`). The
server keeps streaming and sends keepalives. In `Channel` a consumer does not drop the same
delivery for ever, and a `recv` that waits is cancelled now and then: the ingest
engine, the only consumer that holds deliveries while it waits, selects it against
its confirm tick. `EventuallyProcessed` depends on that, because dropping a handle
does not wake a waiting `recv`. Writes, commits, faults, reindexes and slot losses are not
fair. In `CodeSync` a timer that is set fires and a request that is sent is answered
or fails; the user need not do anything.

`CHECK_DEADLOCK FALSE` is set where a finite run may simply be over: the WAL ends
(`wal_*`), and the user of the designer may stop.

### Disagreements between the code and what it says of itself

| Run | What TLC shows |
| --- | --- |
| `wal_split` | All changes of a transaction carry one commit LSN. When a batch ends inside a transaction, confirming it lets the slot pass the rest; a crash then loses those changes (`ack.rs:85`). |
| `pipe_lost_running` | An ingest engine restarted after the slot was lost creates a new one at the end of the log, and nobody rebuilds the seeded indexes (`supervise.rs:163`). |
| `design_remove` | `setConfig` matches old and new rows by position, so removing a row that is not the last renames the schemas of all rows behind it, and the wrong schema is then shown and saved under a name (`design.ts:138`). |

Further statements that the code does not keep have a configuration each that refutes
them, to be run by hand (`tlc -config X.cfg M.tla`):

| Configuration | Module | What TLC shows |
| --- | --- | --- |
| `MCWalIdle` | `MCWalCapture` | A keepalive queued behind an unconfirmed change gets a sequence number that no watermark reaches. When the change is confirmed the entry stays, the map is never empty again, and the slot of an idle database stops advancing (`ack.rs:71`). |
| `MCPipeFull` | `MCPipeline` | With more unseeded sinks than `[stream] capacity`, first staging waits for room in a lane whose consumer starts only after staging (`sink_engine.rs:196`). |
| `MCPipeGhosts` | `MCPipeline` | After a slot loss an index that was not seeded yet is refilled in place, and documents of rows deleted meanwhile stay (`sink_engine.rs:169`). |
| `MCCodeCross` | `MCCodeSync` | Switching the index cancels the parse timer but not a request already sent, and takes no new sequence number: its reply is applied to the index now open (`App.tsx:374`). |
| `MCDesignCollision` | `MCDesignSave` | The server writes before it removes: when a row moves onto the path another row leaves in the same save, the new file is removed (`api.rs:587`). |
| `MCDesignLeft` | `MCDesignSave` | `flusso.toml` is ticked and the file of a new, renamed or moved row is not: the next snapshot takes the new table with the schemas it had, and holds one for a file that says otherwise or does not exist, though it should follow "exactly the ops that were applied" (`App.tsx:522`). (`SnapshotFollowsConfig`) |
| `MCDesignDisplaced` | `MCDesignSave` | The file of a moved or renamed row is ticked and `flusso.toml` is not: the file is written under a path the `flusso.toml` on disk does not name, and the snapshot holds its schema under the old row. (`SnapshotFollowsFiles`) |
| `MCDesignUnoffered` | `MCDesignSave` | `flusso.toml` is ticked and a moved or deleted file is not: the snapshot has the new table, so the next save plans nothing for that file, though "the skipped ones stay dirty" (`App.tsx:539`). (`UncheckedOpsStayDirty`) |
| `MCDesignTorn` | `MCDesignSave` | A rename that fails leaves the files before it written and the others not, though a save is applied "atomically and in order" (`api.rs:525`). (`SavesAreAtomic`) |
| `MCPanelsUnlisted` | `MCPanels` | Undo and redo work under the open review, and the write plans again: a file that was never listed is written, though the ticks say "which files to actually write" (`App.tsx:1346`). (`WrittenIsTicked`) |
| `MCPanelsRename` | `MCPanels` | A sink renamed to a whole number goes in front of the others, though a rename is "in place, preserving declaration order" (`ConfigPanel.tsx:74`). (`RenamedInPlace`) |

Some properties are weaker than what the code says, because the code fails the rest.
`SeededIsServed` leaves out runs in which a generation was deleted. `ensure_index`
creates the generation again before it retracts the marker that calls it seeded, and
a failure in between leaves an empty index that counts as seeded
(`sink_impl.rs:86`); without the condition `drops = 0`, `MCSink.cfg` shows it.
Likewise `SelectionFollows` stops at the first removal or undo that moves the selected
rows without moving the selection (`loose`). `FormKeepsTheRest` leaves out the additions
and renames that take another entry's key (`clobbered`, `ConfigPanel.tsx:297`,
`Inspector.tsx:824`), and lets a key that is a whole number move, which `MCPanelsRename`
shows. `PanelTypes` says of the review that a listed file whose tick was taken away is
not written; that nothing else is, `MCPanelsUnlisted` refutes. `SnapshotIsOnDisk` and
`UncheckedEditsStayDirty` leave out what `MCDesignLeft`, `MCDesignDisplaced`,
`MCDesignTorn`, `MCDesignUnoffered` and `MCDesignCollision` show.

## 4. Proofs

Every theorem holds for every value of the constants under the assumptions their
modules name (finite sets, positive capacities, natural bounds), and for one
hypothesis more in three places, named below. Each rests on an inductive invariant
that was checked with TLC on the run's instance before it was proved.

| Module | Theorem | States |
| --- | --- | --- |
| `ChannelProofs` | `ChannelTypes`, `ChannelNoOrphan` | `TypeOK`, `NoOrphan` |
| | `ChannelLosesNothing`, `ChannelKeepsOrder` | `NothingLost`, `InOrder` |
| | `LaneAckIsCumulative` | `AckedIsCumulative` |
| | `LaneImplementsLog` (one handle) | `LaneIsLog`, the refinement of `LaneLog` |
| `WalCaptureProofs` | `WalTypes`, `PositionsNeverReused` | `TypeOK`, `PositionsNameOneChange` |
| | `SlotLosesNoTransaction` | `NoLostTransaction` |
| `OpensearchSinkProofs` | `SinkWritesGoToActive`, `SinkSeededIsServed` | `WritesGoToActive`, `SeededIsServed` |
| | `SinkReadersNeverRegress`, `SinkGenerationsAreFresh` | `ReadersNeverRegress`, `GenerationsAreFresh` (action properties) |
| | `SinkImplementsTwoCopies` | `SinkIsTwoCopies`, the refinement of `TwoCopies` |
| `PipelineProofs` | `DeploymentTypes`, `BackfillNeverForgotten` | `TypeOK`, `NoForgottenBackfill` |
| `PipelineSyncProofs` | `WhatIsLeftIsEnough`, `RestIsSynced` (slot lost only while down and seeded) | `Recoverable`, `QuietMeansSynced` |
| | `DeploymentUsesTwoCopies` | `SinksAreTwoCopies` |
| `DesignSaveProofs` | `DesignSaveTypes`, `SavedSnapshotIsOnDisk` | `TypeOK`, `SnapshotIsOnDisk` |
| | `RenamesKeepSchemas` | `RenamesCarrySchemas` |
| | `UncheckedIsOfferedAgain` | `UncheckedEditsStayDirty` (action property) |
| `CodeSyncProofs` | `CodeSyncTypes`, `RepliesAreCurrent`, `QuietBufferAgrees` | `TypeOK`, `AppliedIsCurrent`, `QuietAgrees` |

### The channel

Neither `TypeOK` nor `NoOrphan` is inductive alone: to know that
acknowledging a handle removes the handle's own entry and no other, tickets must be
distinct, and that needs them to grow along the ledger. The inductive invariant is
`LedgerInv`: types, growing tickets (`TicketsIncrease`), and `NoOrphan`. The proof
has a lemma for what each ledger operation returns (`AckResult` and its siblings)
and one step per action. It assumes a positive capacity, a natural bound, and a
`NoDelivery` that is no ledger entry.

The second half of `ChannelProofs` reads ledger, `recv`'s hand and queue as one sequence, the
backlog. `LogInv` adds that the handles alive are the ledger's own entries
(`HandlesMatch`) and that items carry their number (`Numbered`); with these, every
step appends to the backlog, removes one element of it, or leaves it, which is what
loss and order are about. For one handle at a time (`OneAtATime`, which is how the
sink engines consume their lanes) `LaneInv` adds that the handle holds the first
entry and that the backlog is a contiguous suffix of what was published
(`Contiguous`). This gives the cumulative acknowledgement, and the refinement: an
acknowledgement is a commit of the next item of the log, and `recv`, drop and
redelivery are stutters. `LaneImplementsLog` takes `OneAtATime` as a hypothesis,
because `LaneIsLog` has no other meaning.

### The capture

`NumberingInv` adds to `PositionsNameOneChange` that every number handed out lies
below the next one; the lemma `NumbersGrow` shows that no operation of the
bookkeeping takes a number back. `NoLostTransaction` needs the way of a confirmation
backwards: the slot, the LSN of the feedback task and the confirmed LSN are safe
(`ConfirmedSafe`); a change with an outstanding position of the open stream is durable, in
the batch or in an item of the lanes (`NoneForgotten`), and what is on its way lies above
the watermark in the order of its positions (`InOrder`), so what the watermark passes of
this stream is durable (`CoveredIsDurable`); an
outstanding position may be confirmed once those before it are, because every
transaction up to its LSN is held or outstanding at or before it
(`EntriesCovered`); and of what the server has sent, a transaction that is neither
held nor outstanding is the one whose changes wait to be emitted (`Streamed`,
`Decoding`). `EntriesCovered` is where the keepalive that advances an idle slot is
justified: it is entered behind everything sent before it. What an earlier stream lost
in its batch, or left on some of the lanes, is not durable and `NoneForgotten` says
nothing of it; it does not matter because its positions are not in the new map, whose
numbers all lie above them, and the server sends the transaction again.

### The sink

`IInv` says per phase of a call what the write target is (`EnsurePhase`,
`EnginePhase`), that what was delivered of an outstanding backfill is in the active
generation (`Filling`), that a marker which says seeded names the one generation
that serves, whole (`Marker`), and that no number above the active one was ever
used (`Fresh`). The last two are conditional on nobody having deleted a generation
from outside (`drops = 0`), as the properties are. The two action properties follow
from it step by step (`ServedStaysServed`, `CreatedOnce`).

`TwoCopies` says what all this is for: writes go to the copy under construction
while there is one, readers' copy is replaced by a whole one and all at once, the
marker is written for a whole one only, a rebuild starts only from an index that had
it, and a marker is taken back only from an index that lost a copy. The refinement
mapping reads the copies off the alias and the meta document: an index is rebuilding
when something serves and it is not the generation the meta document names. The
proof needs `CopiesInv` besides `IInv`: at most one generation serves, and one does
once `ensure_index` is through; nothing is written before the meta document names a
generation; and an engine that runs has its index seeded or asked for, which is
what makes `ControlReindex` a rebuild of a seeded index. Then the whole of `ensure_index`
is a stutter (or, after a deletion, the retraction), and each rebuild, write, swap
and marker is one abstract step. `OperatorDrop` is the abstract loss of a copy, so the
theorem has no condition on deletions.

### The deployment

`PipelineProofs` proves `DeployInv`, which holds wherever and how often the slot is
lost. `Control` says where supervisor and engines can be at the same time;
`Numbers` that the slot stays behind what was read, and what was read bounds every
position on a lane or acknowledged. `Backfills` is the accounting of requests: a
sink engine waits exactly while one pending request of its own, or one marker on
its way to it, will end the wait. A request is pending until the marker that
answers it is being published (`Pending`), which is what makes the publication of
a marker to the lanes, the acknowledgement of the requests after it, and the engine
dying between the two come out right. What is on its way to a sink is one sequence
(`Pipe`: its lane, then the item being published to it), and `PipeStep` says what
each step makes of it.

`PipelineSyncProofs` takes one sink and one document at a time (`SyncedAt`). A
document is settled for a sink when no change to it lies beyond the slot or beyond
the position the sink acknowledged. While it is settled

* every batch on the way that holds it holds its present row (`Fresh`),
* the copy that takes the sink's writes has the row, or nothing, never a stale row,
* and if it has nothing although there is a row, the index is not seeded, every
  marker on the way stands behind an item that brings the row (`MarkersBehind`),
  and so will the marker the running snapshot ends with (`Covered`).

While it is not settled but has been read, the item with its last change is on the
way and nothing older of it follows (`Caught`). `Seeding` adds that a running engine
has its index seeded or asked for, `Unslotted` what a deployment without a slot has
not done yet. `Recoverable` and `QuietMeansSynced` are both consequences.

The hypothesis is `SlotLossAt \subseteq {"seeded"}`: the slot may be lost any
number of times, but while the deployment is down and every sink is seeded. That is
the case `rebuild_stale_seeds` is written for (and the bound of `pipe_safety`);
`Unslotted` is the only clause that needs it. The other two cases are not excluded
because they cannot happen: for a slot lost under a running engine, and for one lost
before an index was seeded, the code does not keep `Recoverable`, and
`pipe_lost_running` and `MCPipeGhosts` show how.

`DeploymentUsesTwoCopies` joins the two levels and needs no such hypothesis: every
step of the deployment is, for every sink, a step of `TwoCopies` or leaves its store
alone. `TwoCopies` is instantiated there with every content counting as whole, because
how whole a snapshot is is what `Recoverable` says; what it adds is `Seeding`, by which
no rebuild discards a copy that a backfill is filling.

### Saving in the designer

A save crosses five pieces of state: the document, the snapshot the client
remembers, the operations it sent, the review's ticks, and the files. `IInv` of
`DesignSaveProofs` has one conjunct for each thing that relates them:

* `AllSound`: in the document, its past and future, the snapshot and the request,
  row ids are distinct and older than the next fresh one, so that the correlation in
  `setConfig` never takes a new row for an old one;
* `RequestFits`: every operation under way follows from the document it was sent
  with and the snapshot of now (`OpsFit`), which may be relied on because only the
  reply of a save replaces the snapshot;
* `Tidy`: while no cause is recorded in `tangled`, every document within reach of
  undo or a reset is `Neat` (distinct names) and, unless a review skipped parts,
  shows each row's own schema (`OwnSchemas`);
* `Untouched`: while no cause but `skipped` is recorded, no two rows of the snapshot
  share a file, and the files are the snapshot's; or one document was saved and failed,
  and whatever it leaves as it is in the snapshot is so on the disk (`HalfDone`);
* `DiskOK` and `Control`, types and history.

The step that matters is `SaveReply`: the server stages what differs, commits in the
order of the operations and then removes, and the snapshot the client then takes must be
what is on disk. When no path is both left and taken in the same save, each file is
touched by at most one row's steps, and a row that did not change has its file touched by
nobody. A save without unchecked entries takes the document as its snapshot
(`ReplySavesDocument`), also from a disk that is `HalfDone` for it: what the document changes is
written again whatever the file says by now, a move whose source is gone as a plain write,
and what it does not change the failed saves have not touched (`FailureKeepsHalfDone`). A partial save folds (`ReplySavesSnapshot`): a row whose operation was applied has
its new schema in the file and in the snapshot (`FoldedIsOnDisk`), and one whose operation
was unchecked has the old in both (`KeptIsOnDisk`), which needs the row to stand in the
table that was saved as it stood before; where it does not is `left` or `displaced`.
`UncheckedIsOfferedAgain` uses only what the fold keeps of a row (`UncheckedIsNotFolded`)
and distinct names, even when two rows share a file or the schemas are tangled.

Rows are numbered lists and the operations a list of lists, so the proofs rest
on a small library about the folds the model is written with: what `FlattenSeq` holds
(`FlattenParts`) and what re-keying leaves under a name (`RekeyedOne`, `RekeyedSame`).
Both are recursive functions on an interval; `RecursionExists` shows, by induction
over the set of arguments, that the function which `CHOOSE` defines exists.

It assumes `SaveAssumption` and `StoreAssumption`: `flusso.toml` is no schema file,
`Config` is no index, and the initial rows fit the bound on rows. The proof corrected
the model in one place. A project may be loaded with two rows of one name or one file,
since the server checks neither when it loads; the causes that except such
documents were recorded only for edits, and are now recorded from the start.

### Code mode

The three theorems follow from `IInv`. Its heart is `TimerCurrent` and
`CallsCurrent`: a timer that is set carries the buffer, the index and the last
number of now, and so does the one request with the last number whenever the open
index has its own buffer. That is inductive because a buffer cannot change, leave or
come back without one of the dependencies of the parse effect changing, which takes
a new number; the lemmas `ParseEffectKeeps`, `SeedEffectKeeps` and `ViewEffectKeeps`
say so for each effect, and the step proof has one step per action. It assumes
`SyncAssumption`: pruning a schema gives a schema, a mess is no schema, and
`Nothing` is no index, timer or request. The last conjunct of `TypeOK` says that a
request for a new buffer is alive exactly while the open index has none of its own.
The same invariant shows where the guard ends: `CallsCurrent` says nothing while the
buffer belongs to another index, which is the gap `MCCodeCross` walks through.

### Only model-checked

All liveness properties (`EventuallySynced`, `EverySinkRuns`, `EventuallySeeded`,
`EventuallyDurable`, `EventuallyProcessed`, `Settles`): fairness and `ENABLED` are
outside the prover's reach. The panels:
`SchemaTree` and the modules that reach it walk trees of any depth with recursive
operators, which the prover does not take, and `MCPanels` composes them.

## 5. Not modelled

* Several indexes per deployment: slicing a snapshot by index, and the deadlock of
  a full request lane behind a full lane, need more than one.
* `skip_backfill`, `backfill = false`, and the failure policies for rejected
  documents.
* Status phases and counters, the lag poller, the HTTP endpoints.
* Document resolution and building (SQL generation), pgoutput parsing, bulk
  request formatting, mappings, configuration parsing.
* The query SDK, the command line and the chart, which are not part of the
  synchronisation.
* In the designer: what only shows (catalog browser, preview pane, code editor
  widget, highlighting, theme, translations), heuristics without a promise (ranking
  of search results, frecency, anchors), validation against the database, the
  stored layout and viewport, and the catalog's connection test.
* In Code mode the problem marker and the validation effect; in the forms the
  choice of an adapter's schema (`AdapterForm`'s resolution of `$ref`s).

## 6. Plan

Done so far: the pipeline (channel, capture, sink, deployment), the designer's
document, saving, Code mode and panels, and the theorems above. What remains, in
order:

1. Status as a module over the engines' events: phases, readiness, counters across
   restarts.
2. Several indexes per sink in `Pipeline`: partial seeding, the full request lane at
   run time, `reindex` fan-out over bounded control queues.
3. `skip_backfill`, opted-out sinks, and rejected documents under `stop` and `skip`.
4. Pure algorithms against reference definitions: `plan_chunks`, `bulk_rejected`,
   `plan_alias_actions`, reverse resolution of a change to documents.
