--------------------------- MODULE OpensearchSink ---------------------------
(***************************************************************************)
(* One index of the OpenSearch sink                                        *)
(* (libs/2-adapters/sink-opensearch/src: sink_impl.rs, generations.rs,     *)
(* transport.rs): concrete generations behind the hash alias readers go    *)
(* through, the meta document with the active generation and its seed      *)
(* marker, and the sink engine's calls that move them.  Every HTTP request *)
(* that changes the cluster is a step of its own; a read and the decision  *)
(* taken on it are one step, because no other writer shares these names.   *)
(*                                                                         *)
(* Any request may fail, before or after the cluster applied it: Fail is   *)
(* enabled between every two steps.  A failed call ends the engine's run,  *)
(* which is staged again in the same process; Crash ends the process.      *)
(*                                                                         *)
(* A generation's content is the set of source rows written to it.         *)
(* External: the cluster (each request is atomic; deleting an index drops  *)
(* its aliases), and the ingest side, which answers a backfill request     *)
(* with every row and then a completion marker.                            *)
(***************************************************************************)
EXTENDS Naturals, FiniteSetsExt, Functions

CONSTANTS
    Rows,           \* the rows of the root table
    MaxReindexes,   \* bound: reindex operations asked for
    MaxFaults,      \* bound: failed requests and crashes
    MaxDrops        \* bound: generations an operator deletes

ASSUME RowsAssumption == Rows # {}
ASSUME BoundsAssumption ==
    MaxReindexes \in Nat /\ MaxFaults \in Nat /\ MaxDrops \in Nat

VARIABLES
    content,        \* the existing generations and the rows in each
    holders,        \* the generations holding the hash alias
    convenience,    \* the generations holding the logical-name alias
    meta,           \* the meta document; generation 0 is no document
    physical,       \* index_names: the generation writes go to; 0 is none
    pc,             \* where the engine is
    caller,         \* who called ensure_index
    seeded,         \* ensure_index's local: the marker it read
    superseded,     \* mark_seeded's local: generations to drop
    continuity,     \* what the source reported when the process started
    outstanding,    \* a backfill was requested and is not complete
    backfill,       \* rows it has still to deliver
    reindexes,      \* reindex operations so far
    faults,         \* failures so far
    created,        \* history: generations ever created
    drops           \* generations an operator deleted so far

cluster == <<content, holders, convenience, meta>>
locals == <<caller, seeded, superseded, continuity>>
request == <<outstanding, backfill>>
budget == <<reindexes, faults, drops>>
vars == <<cluster, physical, pc, locals, request, budget, created>>

Steps ==
    {"stage", "create", "meta", "alias", "convenience", "stale", "check", "run",
     "refreshed", "swap", "swap_convenience", "drop", "mark", "marked", "backoff", "down"}

TypeOK ==
    /\ DOMAIN content \subseteq Nat \ {0}
    /\ \A g \in DOMAIN content : content[g] \subseteq Rows
    /\ holders \subseteq DOMAIN content
    /\ convenience \subseteq DOMAIN content
    /\ meta \in [generation : Nat, seeded : BOOLEAN]
    /\ physical \in Nat
    /\ pc \in Steps
    /\ caller \in {"stage", "stale", "control"}
    /\ seeded \in BOOLEAN
    /\ superseded \subseteq Nat
    /\ continuity \in {"Fresh", "Resumed"}
    /\ outstanding \in BOOLEAN
    /\ backfill \subseteq Rows
    /\ reindexes \in 0 .. MaxReindexes
    /\ faults \in 0 .. MaxFaults
    /\ DOMAIN content \subseteq created
    /\ drops \in 0 .. MaxDrops

\* An empty cluster and a first start.
Init ==
    /\ content = [g \in {} |-> {}]
    /\ holders = {} /\ convenience = {}
    /\ meta = [generation |-> 0, seeded |-> FALSE]
    /\ physical = 0
    /\ pc = "stage" /\ caller = "stage" /\ seeded = FALSE /\ superseded = {}
    /\ continuity = "Fresh"
    /\ outstanding = FALSE /\ backfill = {}
    /\ reindexes = 0 /\ faults = 0
    /\ created = {} /\ drops = 0

Goto(step) == pc' = step

-----------------------------------------------------------------------------
(* generations.rs.                                                         *)

Bug_FirstFreeGeneration(existing) ==
    CHOOSE n \in 1 .. (Cardinality(existing) + 1) : n \notin existing
        /\ \A m \in 1 .. (n - 1) : m \in existing

\* One past the highest existing generation, or 1.
next_generation(existing) == IF existing = {} THEN 1 ELSE Max(existing) + 1

\* is_seeded: what the meta document says.
IsSeeded == meta.seeded

-----------------------------------------------------------------------------
(* ensure_index.                                                           *)

Bug_AliasBeforeCreate ==
    /\ pc = "stage"
    /\ physical' = IF meta.generation # 0 THEN meta.generation
                                         ELSE next_generation(DOMAIN content)
    /\ seeded' = IsSeeded
    /\ Goto("alias")
    /\ UNCHANGED <<cluster, caller, superseded, continuity, request, budget, created>>

\* Read the meta document, or choose the first generation, and remember it as
\* the write target.
EnsureRead ==
    /\ pc = "stage"
    /\ physical' = IF meta.generation # 0 THEN meta.generation
                                         ELSE next_generation(DOMAIN content)
    /\ seeded' = IsSeeded
    /\ Goto("create")
    /\ UNCHANGED <<cluster, caller, superseded, continuity, request, budget, created>>

\* Create the generation unless it exists; a marker that names a generation
\* that is gone is retracted.
EnsureCreate ==
    /\ pc = "create"
    /\ IF physical \in DOMAIN content
         THEN UNCHANGED <<content, seeded, created>>
         ELSE /\ content' = [g \in DOMAIN content \cup {physical} |->
                               IF g = physical THEN {} ELSE content[g]]
              /\ created' = created \cup {physical}
              /\ seeded' = FALSE
    /\ Goto(IF seeded' THEN "alias" ELSE "meta")
    /\ UNCHANGED <<holders, convenience, meta, physical, caller, superseded, continuity,
                   request, budget>>

\* Persist the active generation of an unseeded index.
EnsureMeta ==
    /\ pc = "meta"
    /\ meta' = [generation |-> physical, seeded |-> FALSE]
    /\ Goto("alias")
    /\ UNCHANGED <<content, holders, convenience, physical, locals, request, budget, created>>

\* Where the engine goes on once ensure_index returned.
AfterEnsure ==
    CASE caller = "stage" -> IF continuity = "Fresh" THEN "stale" ELSE "check"
      [] OTHER -> "check"

Bug_AliasAlways ==
    /\ pc = "alias"
    /\ holders' = {physical}
    /\ Goto("convenience")
    /\ UNCHANGED <<content, convenience, meta, physical, locals, request, budget, created>>

\* Point the hash alias at the generation when it is the seeded one or when
\* nothing serves yet; otherwise leave the alias to mark_seeded.
EnsureAlias ==
    /\ pc = "alias"
    /\ IF seeded \/ holders = {}
         THEN holders' = {physical} /\ Goto("convenience")
         ELSE UNCHANGED holders /\ Goto(AfterEnsure)
    /\ UNCHANGED <<content, convenience, meta, physical, locals, request, budget, created>>

\* The convenience alias is best-effort: its failure is swallowed.
EnsureConvenience ==
    /\ pc = "convenience"
    /\ convenience' \in {convenience, {physical}}
    /\ Goto(AfterEnsure)
    /\ UNCHANGED <<content, holders, meta, physical, locals, request, budget, created>>

-----------------------------------------------------------------------------
(* reindex, and the engine's stage and control paths.                      *)

Bug_RebuildWithoutEnsure(from) ==
    /\ meta' = [generation |-> next_generation(DOMAIN content), seeded |-> FALSE]
    /\ caller' = from
    /\ Goto("check")
    /\ UNCHANGED <<content, holders, convenience, physical, seeded, superseded, continuity,
                   request, created>>

Bug_RebuildInPlace(from) ==
    /\ meta' = [meta EXCEPT !.seeded = FALSE]
    /\ caller' = from
    /\ Goto("stage")
    /\ UNCHANGED <<content, holders, convenience, physical, seeded, superseded, continuity,
                   request, created>>

\* Sink::reindex: the meta document names the next generation, unseeded; the
\* engine announces the index again right after.
StageRebuild(from) ==
    /\ meta' = [generation |-> next_generation(DOMAIN content), seeded |-> FALSE]
    /\ caller' = from
    /\ Goto("stage")
    /\ UNCHANGED <<content, holders, convenience, physical, seeded, superseded, continuity,
                   request, created>>

\* rebuild_stale_seeds, under a source with no resume point.
RebuildStale ==
    /\ pc = "stale"
    /\ IF IsSeeded
         THEN StageRebuild("stale")
         ELSE /\ Goto("check")
              /\ UNCHANGED <<cluster, physical, locals, request, created>>
    /\ UNCHANGED budget

\* Request a backfill for an unseeded index that has none outstanding; a
\* restart of this engine is staged as Resumed.
RequestBackfill ==
    /\ pc = "check"
    /\ IF ~IsSeeded /\ ~outstanding
         THEN outstanding' = TRUE /\ backfill' = Rows
         ELSE UNCHANGED request
    /\ continuity' = "Resumed"
    /\ Goto("run")
    /\ UNCHANGED <<cluster, physical, caller, seeded, superseded, budget, created>>

\* SinkControl::Reindex, between two batches; refused while outstanding.
ControlReindex ==
    /\ pc = "run"
    /\ reindexes < MaxReindexes
    /\ ~outstanding
    /\ reindexes' = reindexes + 1
    /\ StageRebuild("control")
    /\ UNCHANGED <<faults, drops>>

-----------------------------------------------------------------------------
(* apply and flush: one bulk request to the write target.                  *)

Flush(rows) ==
    content' = [content EXCEPT ![physical] = @ \cup rows]

\* A snapshot batch.
FlushSnapshot ==
    /\ pc = "run"
    /\ \E r \in backfill : Flush({r}) /\ backfill' = backfill \ {r}
    /\ UNCHANGED <<outstanding, holders, convenience, meta, physical, pc, locals, budget, created>>

\* A live batch.
FlushLive ==
    /\ pc = "run"
    /\ \E r \in Rows : Flush({r})
    /\ UNCHANGED <<holders, convenience, meta, physical, pc, locals, request, budget, created>>

-----------------------------------------------------------------------------
(* mark_seeded, on the completion marker.                                  *)

MarkRefresh ==
    /\ pc = "run"
    /\ outstanding /\ backfill = {}
    /\ Goto("refreshed")
    /\ UNCHANGED <<cluster, physical, locals, request, budget, created>>

Bug_MarkBeforeSwap ==
    /\ pc = "refreshed"
    /\ superseded' = holders \ {physical}
    /\ Goto("mark")
    /\ UNCHANGED <<cluster, physical, caller, seeded, continuity, request, budget, created>>

MarkSuperseded ==
    /\ pc = "refreshed"
    /\ superseded' = holders \ {physical}
    /\ Goto("swap")
    /\ UNCHANGED <<cluster, physical, caller, seeded, continuity, request, budget, created>>

MarkSwap ==
    /\ pc = "swap"
    /\ holders' = {physical}
    /\ Goto("swap_convenience")
    /\ UNCHANGED <<content, convenience, meta, physical, locals, request, budget, created>>

MarkSwapConvenience ==
    /\ pc = "swap_convenience"
    /\ convenience' \in {convenience, {physical}}
    /\ Goto("drop")
    /\ UNCHANGED <<content, holders, meta, physical, locals, request, budget, created>>

\* Deleting a generation takes its aliases with it.
Remove(g) ==
    /\ content' = Restrict(content, DOMAIN content \ {g})
    /\ holders' = holders \ {g}
    /\ convenience' = convenience \ {g}

MarkDrop ==
    /\ pc = "drop"
    /\ IF superseded = {}
         THEN /\ Goto("mark")
              /\ UNCHANGED <<content, holders, convenience, superseded>>
         ELSE \E g \in superseded :
                 /\ Remove(g)
                 /\ superseded' = superseded \ {g}
                 /\ UNCHANGED pc
    /\ UNCHANGED <<meta, physical, caller, seeded, continuity, request, budget, created>>

MarkMeta ==
    /\ pc = "mark"
    /\ meta' = [generation |-> physical, seeded |-> TRUE]
    /\ Goto("marked")
    /\ UNCHANGED <<content, holders, convenience, physical, locals, request, budget, created>>

Bug_MarkKeepsOutstanding ==
    /\ pc = "marked"
    /\ Goto("run")
    /\ UNCHANGED <<cluster, physical, locals, request, budget, created>>

\* Every index of the marker is seeded: the request is no longer outstanding.
MarkDone ==
    /\ pc = "marked"
    /\ outstanding' = FALSE
    /\ Goto("run")
    /\ UNCHANGED <<cluster, physical, locals, backfill, budget, created>>

-----------------------------------------------------------------------------
(* Failures.                                                               *)

\* A request failed, applied or not: the engine's run ends in a backoff.  The
\* rows of the failed call are redelivered: backfill keeps them.
Fail ==
    /\ pc \notin {"backoff", "down"}
    /\ faults < MaxFaults
    /\ faults' = faults + 1
    /\ Goto("backoff")
    /\ UNCHANGED <<cluster, physical, locals, request, reindexes, drops, created>>

\* The supervisor stages the engine again in the same process.
Restage ==
    /\ pc = "backoff"
    /\ caller' = "stage"
    /\ Goto("stage")
    /\ UNCHANGED <<cluster, physical, seeded, superseded, continuity, request, budget, created>>

\* The process dies: only the cluster survives.
Crash ==
    /\ pc # "down"
    /\ faults < MaxFaults
    /\ faults' = faults + 1
    /\ Goto("down")
    /\ outstanding' = FALSE /\ backfill' = {}
    /\ physical' = 0 /\ seeded' = FALSE /\ superseded' = {} /\ caller' = "stage"
    /\ continuity' = "Resumed"
    /\ UNCHANGED <<cluster, reindexes, drops, created>>

\* A new process, under a source that kept its resume point or lost it.
Start ==
    /\ pc = "down"
    /\ continuity' \in {"Fresh", "Resumed"}
    /\ Goto("stage")
    /\ UNCHANGED <<cluster, physical, caller, seeded, superseded, request, budget, created>>

\* An operator deletes a generation while the process is stopped.
OperatorDrop ==
    /\ pc = "down"
    /\ drops < MaxDrops
    /\ drops' = drops + 1
    /\ \E g \in DOMAIN content : Remove(g)
    /\ UNCHANGED <<meta, physical, pc, locals, request, reindexes, faults, created>>

-----------------------------------------------------------------------------
Ensure == EnsureRead \/ EnsureCreate \/ EnsureMeta \/ EnsureAlias \/ EnsureConvenience

MarkSeeded ==
    MarkRefresh \/ MarkSuperseded \/ MarkSwap \/ MarkSwapConvenience \/ MarkDrop \/ MarkMeta
        \/ MarkDone

Next ==
    \/ Ensure \/ RebuildStale \/ RequestBackfill \/ ControlReindex
    \/ FlushSnapshot \/ FlushLive \/ MarkSeeded
    \/ Fail \/ Restage \/ Crash \/ Start \/ OperatorDrop

Spec == Init /\ [][Next]_vars

\* The engine's task keeps running, the supervisor restarts it and an operator
\* restarts the process; reindexes, live batches and faults are not fair.
FairSpec ==
    /\ Spec
    /\ WF_vars(Ensure \/ RebuildStale \/ RequestBackfill)
    /\ WF_vars(FlushSnapshot)
    /\ WF_vars(MarkSeeded)
    /\ WF_vars(Restage \/ Start)

-----------------------------------------------------------------------------
(* What the sink promises.                                                 *)

Complete(g) == g \in DOMAIN content /\ content[g] = Rows

\* Reads through the hash alias reach exactly one generation, a whole one.
ServesComplete == \E g \in DOMAIN content : holders = {g} /\ Complete(g)

\* Readers never fall back to a half-built, empty or missing index: through
\* rebuilds, failed requests, crashes and restarts, a hash alias that serves a
\* whole generation goes on serving a whole one.
ReadersNeverRegress ==
    [][(ServesComplete /\ ~OperatorDrop) => ServesComplete']_vars

\* Once staged, an index that claims to be seeded serves the generation its
\* marker names, whole: no failure between the swap, the deletions and the
\* marker leaves a marker for something else.  (With a generation deleted by an
\* operator it fails: ensure_index recreates the index before it retracts the
\* marker, and may be interrupted between the two.)
SeededIsServed ==
    (pc \in {"check", "run"} /\ IsSeeded /\ drops = 0)
        => (holders = {meta.generation} /\ Complete(meta.generation))

\* Types; and the generation the engine writes to is the one the meta document names, so
\* a backfill never fills one generation while the marker goes to another.
WritesGoToActive ==
    /\ TypeOK
    /\ pc \in {"check", "run", "refreshed", "swap", "swap_convenience", "drop", "mark", "marked"}
          => physical = meta.generation /\ physical \in DOMAIN content

\* A generation number is never reused, even when a crashed rebuild left an
\* orphan: what is created was never created before (unless an operator
\* deleted it).
GenerationsAreFresh ==
    [][drops = 0 => (DOMAIN content' \ DOMAIN content) \cap created = {}]_vars

\* Whatever failed on the way, the index ends up seeded and serving, unless an
\* operator deleted a generation.
EventuallySeeded == <>[](drops > 0 \/ (pc = "run" /\ IsSeeded /\ ServesComplete))

-----------------------------------------------------------------------------
(* The two copies the engines see.                                         *)

Held(g) == IF g \in DOMAIN content THEN content[g] ELSE {}

\* Another generation serves than the one the meta document names.  As long as
\* none serves, the one it names counts as the serving copy.
Rebuilding == holders # {} /\ meta.generation \notin holders
Serving == IF Rebuilding THEN UNION {Held(g) : g \in holders} ELSE Held(meta.generation)
Building == IF Rebuilding THEN Held(meta.generation) ELSE {}

Copies ==
    INSTANCE TwoCopies WITH
        Contents <- SUBSET Rows, Empty <- {}, Whole <- {Rows},
        serving <- Serving, building <- Building, rebuilding <- Rebuilding,
        seeded <- meta.seeded, damaged <- drops > 0

\* Generations, aliases and the meta document, moved request by request with
\* failures between, are two copies and a marker: wherever a call stops,
\* writes go to one copy, readers' copy is replaced by a whole one or not at
\* all, and the marker follows.
SinkIsTwoCopies == Copies!Spec
=============================================================================
