------------------------ MODULE OpensearchSinkProofs ------------------------
(* Proofs about one index of the OpenSearch sink, for any rows and any      *)
(* number of rebuilds, failures and deleted generations. The invariant says *)
(* what every step of ensure_index and mark_seeded may rely on when the one *)
(* before it was applied, and what survives when it was not.                *)
EXTENDS OpensearchSink, Greatest

(* The steps between ensure_index's end and mark_seeded's, and the parts of *)
(* mark_seeded.                                                             *)
Staged == {"stale", "check", "run"}
Marking == {"refreshed", "swap", "swap_convenience", "drop", "mark", "marked"}
Swapped == {"swap_convenience", "drop", "mark", "marked"}

Active == physical = meta.generation /\ physical \in DOMAIN content

(* Generations are numbered from 1, and finitely many were created.         *)
Numbered == created \subseteq Nat \ {0} /\ Bounded(created)

(* ensure_index: the write target is the generation the meta document names *)
(* or is about to name, and seeded is the marker unless it was retracted.   *)
EnsurePhase ==
    /\ pc \in {"create", "meta"} =>
          physical # 0 /\ (meta.generation # 0 => physical = meta.generation)
    /\ pc = "create" =>
          /\ seeded = meta.seeded
          /\ meta.generation = 0 /\ drops = 0 => \A g \in created : g < physical
    /\ pc = "meta" =>
          /\ ~seeded /\ physical \in DOMAIN content
          /\ meta.generation = 0 /\ drops = 0 => \A g \in created : g <= physical
    /\ pc \in {"alias", "convenience"} => Active
    /\ pc = "alias" => seeded = meta.seeded

(* The engine, and mark_seeded's steps: they work on the active generation, *)
(* drop only others, and only after the hash alias has moved.               *)
EnginePhase ==
    /\ pc \in Staged \cup Marking => Active
    /\ pc \in Marking => outstanding /\ backfill = {}
    /\ pc \in {"swap", "swap_convenience", "drop"} => physical \notin superseded
    /\ pc \in Swapped => holders = {physical}

(* A source without a resume point is staged before anything is requested.  *)
Staging ==
    /\ pc = "stale" => continuity = "Fresh"
    /\ continuity = "Fresh" \/ pc = "down" => ~outstanding

(* What was delivered of an outstanding backfill is in the active generation.*)
Filling ==
    outstanding =>
        /\ meta.generation \in DOMAIN content
        /\ Rows \subseteq content[meta.generation] \cup backfill

(* A marker that says seeded names the only generation that may serve, and, *)
(* unless one was deleted, the one that does, whole.                        *)
Marker ==
    meta.seeded =>
        /\ meta.generation # 0
        /\ holders \subseteq {meta.generation}
        /\ drops = 0 => holders = {meta.generation} /\ Complete(meta.generation)

(* No generation was created after the active one, and the active one is    *)
(* not dropped: a number above the existing ones is above all of them.      *)
Fresh ==
    drops = 0 =>
        /\ meta.generation # 0 => \A g \in created : g <= meta.generation
        /\ meta.generation \in created => meta.generation \in DOMAIN content
        /\ meta.generation = 0 => created = DOMAIN content

IInv == /\ TypeOK /\ Numbered
        /\ EnsurePhase /\ EnginePhase /\ Staging
        /\ Filling /\ Marker /\ Fresh

-----------------------------------------------------------------------------
(* The number next_generation gives is above every existing one.            *)
LEMMA NextGeneration ==
    ASSUME NEW existing, existing \subseteq Nat \ {0}, Bounded(existing)
    PROVE  /\ next_generation(existing) \in Nat \ {0}
           /\ \A g \in existing : g < next_generation(existing)
<1>1. CASE existing = {}
  BY <1>1 DEF next_generation
<1>2. CASE existing # {}
  <2>1. Max(existing) \in existing /\ \A g \in existing : g <= Max(existing)
    BY <1>2, MaxProperties
  <2>2. Max(existing) \in Nat
    BY <2>1
  <2>3. next_generation(existing) = Max(existing) + 1
    BY <1>2 DEF next_generation
  <2>4. QED
    BY <2>1, <2>2, <2>3
<1>3. QED
  BY <1>1, <1>2

LEMMA NextOfExisting ==
    ASSUME IInv
    PROVE  /\ next_generation(DOMAIN content) \in Nat \ {0}
           /\ \A g \in DOMAIN content : g < next_generation(DOMAIN content)
<1>1. DOMAIN content \subseteq Nat \ {0} /\ Bounded(DOMAIN content)
  BY DEF IInv, TypeOK, Numbered, Bounded
<1>2. QED
  BY <1>1, NextGeneration

(* What deleting a generation leaves.                                       *)
LEMMA RemoveResult ==
    ASSUME NEW g, Remove(g)
    PROVE  /\ DOMAIN content' = DOMAIN content \ {g}
           /\ \A h \in DOMAIN content \ {g} : content'[h] = content[h]
           /\ holders' = holders \ {g} /\ convenience' = convenience \ {g}
  BY DEF Remove, Restrict

(* What a bulk request writes, and where.                                   *)
LEMMA FlushResult ==
    ASSUME IInv, pc = "run", NEW rows, rows \subseteq Rows, Flush(rows)
    PROVE  /\ DOMAIN content' = DOMAIN content
           /\ \A g \in DOMAIN content : content[g] \subseteq content'[g]
           /\ \A g \in DOMAIN content : content'[g] \subseteq Rows
           /\ rows \subseteq content'[physical]
  BY DEF IInv, EnginePhase, Active, Staged, TypeOK, Flush

-----------------------------------------------------------------------------
(* ensure_index.                                                            *)
LEMMA EnsureReadKeeps == IInv /\ EnsureRead => IInv'
<1> SUFFICES ASSUME IInv, EnsureRead
             PROVE  IInv'
  OBVIOUS
<1> USE DEF EnsureRead, Goto, cluster, request, budget, IInv
<1>1. physical' \in Nat \ {0}
  BY NextOfExisting DEF TypeOK
<1>2. TypeOK' /\ Numbered'
  BY <1>1 DEF TypeOK, Steps, Numbered, IsSeeded
<1>3. EnsurePhase'
  BY <1>1, NextOfExisting DEF EnsurePhase, Fresh, IsSeeded
<1>4. EnginePhase' /\ Staging'
  BY DEF EnginePhase, Staging, Staged, Marking, Swapped
<1>5. Filling' /\ Marker' /\ Fresh'
  BY DEF Filling, Marker, Fresh, Complete
<1>6. QED
  BY <1>2, <1>3, <1>4, <1>5

(* The generation that is created is above all that were, unless one was    *)
(* deleted.                                                                 *)
LEMMA CreatedIsNew ==
    ASSUME IInv, pc = "create", physical \notin DOMAIN content, drops = 0
    PROVE  \A g \in created : g < physical
<1>1. CASE meta.generation = 0
  BY <1>1 DEF IInv, EnsurePhase
<1>2. CASE meta.generation # 0
  BY <1>2 DEF IInv, EnsurePhase, Fresh, Numbered, TypeOK
<1>3. QED
  BY <1>1, <1>2

LEMMA EnsureCreateKeeps == IInv /\ EnsureCreate => IInv'
<1> SUFFICES ASSUME IInv, EnsureCreate
             PROVE  IInv'
  OBVIOUS
<1> USE DEF EnsureCreate, Goto, request, budget, IInv
<1>1. physical \in Nat \ {0} /\ meta \in [generation : Nat, seeded : BOOLEAN]
  BY DEF EnsurePhase, TypeOK
<1>2. CASE physical \in DOMAIN content
  BY <1>2 DEF TypeOK, Steps, Numbered, EnsurePhase, EnginePhase, Staging, Filling, Marker,
              Fresh, Active, Staged, Marking, Swapped, Complete
<1>3. CASE physical \notin DOMAIN content
  <2>1. DOMAIN content' = DOMAIN content \cup {physical} /\ content'[physical] = {}
    BY <1>3
  <2>2. \A g \in DOMAIN content : content'[g] = content[g]
    BY <1>3
  <2>3. created' = created \cup {physical} /\ ~seeded' /\ pc' = "meta"
    BY <1>3
  <2>4. TypeOK'
    BY <1>1, <2>1, <2>2, <2>3 DEF TypeOK, Steps
  <2>5. Numbered'
    <3>1. PICK n \in Nat : \A g \in created : g <= n
      BY DEF Numbered, Bounded
    <3>2. \A g \in created' : g <= n + physical
      BY <1>1, <2>3, <3>1 DEF Numbered
    <3>3. QED
      BY <1>1, <2>3, <3>1, <3>2 DEF Numbered, Bounded
  <2>6. EnsurePhase'
    BY <1>1, <1>3, <2>1, <2>3, CreatedIsNew DEF EnsurePhase, Numbered
  <2>7. EnginePhase' /\ Staging'
    BY <2>3 DEF EnginePhase, Staging, Staged, Marking, Swapped
  <2>8. Filling' /\ Marker'
    BY <1>3, <2>1, <2>2 DEF Filling, Marker, Complete
  <2>9. Fresh'
    BY <1>1, <1>3, <2>1, <2>3, CreatedIsNew DEF Fresh, EnsurePhase, Numbered
  <2>10. QED
    BY <2>4, <2>5, <2>6, <2>7, <2>8, <2>9
<1>4. QED
  BY <1>2, <1>3

LEMMA EnsureMetaKeeps == IInv /\ EnsureMeta => IInv'
<1> SUFFICES ASSUME IInv, EnsureMeta
             PROVE  IInv'
  OBVIOUS
<1> USE DEF EnsureMeta, Goto, locals, request, budget, IInv
<1>1. physical \in Nat \ {0} /\ physical \in DOMAIN content
  BY DEF EnsurePhase, TypeOK
<1>2. meta' = [generation |-> physical, seeded |-> FALSE]
  OBVIOUS
<1>3. TypeOK' /\ Numbered'
  BY <1>1, <1>2 DEF TypeOK, Steps, Numbered
<1>4. EnsurePhase'
  <2>1. Active'
    BY <1>1, <1>2 DEF Active
  <2>2. seeded' = FALSE /\ pc' = "alias" /\ meta'.seeded = FALSE
    BY <1>2 DEF EnsurePhase, TypeOK
  <2>3. QED
    BY <2>1, <2>2 DEF EnsurePhase
<1>5. EnginePhase' /\ Staging' /\ Filling' /\ Marker'
  BY <1>2 DEF EnginePhase, Staged, Marking, Swapped, Staging, EnsurePhase, Filling, Marker, TypeOK
<1>6. Fresh'
  BY <1>1, <1>2 DEF EnsurePhase, Fresh
<1>7. QED
  BY <1>3, <1>4, <1>5, <1>6

LEMMA EnsureAliasKeeps == IInv /\ EnsureAlias => IInv'
  BY DEF IInv, EnsureAlias, Goto, AfterEnsure, locals, request, budget, TypeOK, Steps,
         Numbered, EnsurePhase, EnginePhase, Active, Staged, Marking, Swapped, Staging,
         Filling, Marker, Fresh, Complete

LEMMA EnsureConvenienceKeeps == IInv /\ EnsureConvenience => IInv'
  BY DEF IInv, EnsureConvenience, Goto, AfterEnsure, locals, request, budget, TypeOK, Steps,
         Numbered, EnsurePhase, EnginePhase, Active, Staged, Marking, Swapped, Staging,
         Filling, Marker, Fresh, Complete

-----------------------------------------------------------------------------
(* The engine: a rebuild is staged only when nothing is outstanding.        *)
LEMMA StageRebuildKeeps ==
    ASSUME IInv, pc \in Staged, ~outstanding, NEW from \in {"stale", "control"},
           StageRebuild(from), reindexes' \in 0 .. MaxReindexes, UNCHANGED <<faults, drops>>
    PROVE  IInv'
<1> USE DEF StageRebuild, Goto, request, IInv
<1> DEFINE new == next_generation(DOMAIN content)
<1>1. new \in Nat \ {0} /\ \A g \in DOMAIN content : g < new
  BY NextOfExisting
<1>2. meta' = [generation |-> new, seeded |-> FALSE]
  OBVIOUS
<1> HIDE DEF new
<1>3. TypeOK' /\ Numbered'
  BY <1>1, <1>2 DEF TypeOK, Steps, Numbered
<1>4. EnsurePhase' /\ EnginePhase' /\ Staging' /\ Filling' /\ Marker'
  BY <1>2 DEF EnsurePhase, EnginePhase, Staging, Staged, Marking, Swapped, Filling, Marker
<1>5. Fresh'
  <2>1. SUFFICES ASSUME drops = 0
                 PROVE  \A g \in created : g < new
    BY <1>1, <1>2, <2>1 DEF Fresh, TypeOK, Numbered
  <2>2. meta.generation \in DOMAIN content
    BY DEF EnginePhase, Active
  <2>3. \A g \in created : g <= meta.generation
    BY <2>1, <2>2 DEF Fresh, TypeOK
  <2>4. QED
    BY <1>1, <2>2, <2>3 DEF Numbered, TypeOK
<1>6. QED
  BY <1>3, <1>4, <1>5

LEMMA RebuildStaleKeeps == IInv /\ RebuildStale => IInv'
<1> SUFFICES ASSUME IInv, RebuildStale
             PROVE  IInv'
  OBVIOUS
<1>1. CASE IsSeeded
  BY <1>1, StageRebuildKeeps DEF RebuildStale, budget, IInv, Staging, TypeOK, Staged
<1>2. CASE ~IsSeeded
  BY <1>2 DEF IInv, RebuildStale, IsSeeded, Goto, cluster, locals, request, budget, TypeOK,
              Steps, Numbered, EnsurePhase, EnginePhase, Active, Staged, Marking, Swapped,
              Staging, Filling, Marker, Fresh, Complete
<1>3. QED
  BY <1>1, <1>2

LEMMA RequestBackfillKeeps == IInv /\ RequestBackfill => IInv'
  BY DEF IInv, RequestBackfill, IsSeeded, Goto, cluster, request, budget, TypeOK, Steps,
         Numbered, EnsurePhase, EnginePhase, Active, Staged, Marking, Swapped, Staging,
         Filling, Marker, Fresh, Complete

LEMMA ControlReindexKeeps == IInv /\ ControlReindex => IInv'
<1> SUFFICES ASSUME IInv, ControlReindex
             PROVE  IInv'
  OBVIOUS
<1>1. reindexes' \in 0 .. MaxReindexes
  BY BoundsAssumption DEF IInv, TypeOK, ControlReindex
<1>2. QED
  BY <1>1, StageRebuildKeeps DEF ControlReindex, Staged

(* apply and flush: a snapshot row leaves the backfill once it is written.  *)
LEMMA FlushKeeps ==
    ASSUME IInv, pc = "run", NEW rows, rows \subseteq Rows, Flush(rows),
           backfill \ rows \subseteq backfill', backfill' \subseteq backfill,
           UNCHANGED <<outstanding, holders, convenience, meta, physical, pc, locals, budget,
                       created>>
    PROVE  IInv'
<1> USE DEF IInv, locals, budget
<1>1. TypeOK' /\ Numbered'
  BY FlushResult DEF TypeOK, Numbered
<1>2. EnsurePhase' /\ EnginePhase' /\ Staging'
  BY FlushResult DEF EnsurePhase, EnginePhase, Staging, Active, Marking, Swapped, Staged
<1>3. Filling'
  BY FlushResult DEF Filling, EnginePhase, Active, Staged
<1>4. Marker'
  <2>1. Complete(meta.generation) => Complete(meta.generation)'
    BY FlushResult DEF Complete, EnginePhase, Active, Staged
  <2>2. QED
    BY <2>1 DEF Marker
<1>5. Fresh'
  BY FlushResult DEF Fresh
<1>6. QED
  BY <1>1, <1>2, <1>3, <1>4, <1>5

LEMMA FlushSnapshotKeeps == IInv /\ FlushSnapshot => IInv'
<1> SUFFICES ASSUME IInv, FlushSnapshot
             PROVE  IInv'
  OBVIOUS
<1>1. PICK r \in backfill : Flush({r}) /\ backfill' = backfill \ {r}
  BY DEF FlushSnapshot
<1>2. {r} \subseteq Rows
  BY DEF IInv, TypeOK
<1>3. QED
  BY <1>1, <1>2, FlushKeeps DEF FlushSnapshot

LEMMA FlushLiveKeeps == IInv /\ FlushLive => IInv'
<1> SUFFICES ASSUME IInv, FlushLive
             PROVE  IInv'
  OBVIOUS
<1>1. PICK r \in Rows : Flush({r})
  BY DEF FlushLive
<1>2. QED
  BY <1>1, FlushKeeps DEF FlushLive, request

-----------------------------------------------------------------------------
(* mark_seeded: the steps before the swap, and the swap.                    *)
LEMMA MarkStepKeeps ==
    IInv /\ (MarkRefresh \/ MarkSuperseded \/ MarkSwap \/ MarkSwapConvenience) => IInv'
<1> USE DEF IInv, Goto, cluster, locals, request, budget, TypeOK, Steps, Numbered,
            EnsurePhase, EnginePhase, Active, Staged, Marking, Swapped, Staging, Filling,
            Marker, Fresh, Complete
<1>1. IInv /\ MarkRefresh => IInv'
  BY DEF MarkRefresh
<1>2. IInv /\ MarkSuperseded => IInv'
  BY DEF MarkSuperseded
<1>3. IInv /\ MarkSwap => IInv'
  BY DEF MarkSwap
<1>4. IInv /\ MarkSwapConvenience => IInv'
  BY DEF MarkSwapConvenience
<1>5. QED
  BY <1>1, <1>2, <1>3, <1>4

(* The deletions spare the active generation.                               *)
LEMMA MarkDropKeeps == IInv /\ MarkDrop => IInv'
<1> SUFFICES ASSUME IInv, MarkDrop
             PROVE  IInv'
  OBVIOUS
<1> USE DEF MarkDrop, Goto, request, budget, IInv
<1>1. CASE superseded = {}
  BY <1>1 DEF TypeOK, Steps, Numbered, EnsurePhase, EnginePhase, Active, Staged, Marking,
              Swapped, Staging, Filling, Marker, Fresh, Complete
<1>2. CASE superseded # {}
  <2>1. PICK g \in superseded : Remove(g) /\ superseded' = superseded \ {g} /\ pc' = pc
    BY <1>2
  <2>2. g # physical /\ physical = meta.generation /\ physical \in DOMAIN content
    BY <2>1 DEF EnginePhase, Active, Marking
  <2>3. meta.generation \in DOMAIN content' /\ content'[physical] = content[physical]
    BY <2>1, <2>2, RemoveResult
  <2>4. TypeOK' /\ Numbered'
    BY <2>1, RemoveResult DEF TypeOK, Numbered
  <2>5. EnsurePhase' /\ EnginePhase' /\ Staging'
    BY <2>1, <2>2, <2>3, RemoveResult
       DEF EnsurePhase, EnginePhase, Active, Staged, Marking, Swapped, Staging
  <2>6. Filling' /\ Fresh'
    BY <2>1, <2>2, <2>3 DEF Filling, Fresh, TypeOK
  <2>7. Marker'
    BY <2>1, <2>2, <2>3, RemoveResult DEF Marker, Complete
  <2>8. QED
    BY <2>4, <2>5, <2>6, <2>7
<1>3. QED
  BY <1>1, <1>2

LEMMA MarkMetaKeeps == IInv /\ MarkMeta => IInv'
  BY DEF IInv, MarkMeta, Goto, locals, request, budget, TypeOK, Steps, Numbered, EnsurePhase,
         EnginePhase, Active, Staged, Marking, Swapped, Staging, Filling, Marker, Fresh,
         Complete

LEMMA MarkDoneKeeps == IInv /\ MarkDone => IInv'
  BY DEF IInv, MarkDone, Goto, cluster, locals, budget, TypeOK, Steps, Numbered, EnsurePhase,
         EnginePhase, Active, Staged, Marking, Swapped, Staging, Filling, Marker, Fresh,
         Complete

-----------------------------------------------------------------------------
(* Failures: what a step that did not follow may rely on is all in the      *)
(* cluster, or starts again from nothing.                                   *)
LEMMA FaultKeeps == IInv /\ (Fail \/ Restage \/ Crash \/ Start) => IInv'
<1> USE DEF IInv, Goto, cluster, locals, request, budget, TypeOK, Steps, Numbered,
            EnsurePhase, EnginePhase, Active, Staged, Marking, Swapped, Staging, Filling,
            Marker, Fresh, Complete
<1>1. ASSUME IInv, Fail \/ Crash
      PROVE  faults' \in 0 .. MaxFaults
  BY <1>1, BoundsAssumption DEF Fail, Crash
<1>2. IInv /\ Fail => IInv'
  BY <1>1 DEF Fail
<1>3. IInv /\ Restage => IInv'
  BY DEF Restage
<1>4. ASSUME IInv, Crash
      PROVE  IInv'
  <2>1. TypeOK' /\ Numbered'
    BY <1>1, <1>4 DEF Crash
  <2>2. EnsurePhase' /\ EnginePhase' /\ Staging' /\ Filling'
    BY <1>4 DEF Crash
  <2>3. Marker' /\ Fresh'
    BY <1>4 DEF Crash
  <2>4. QED
    BY <2>1, <2>2, <2>3
<1>5. IInv /\ Start => IInv'
  BY DEF Start
<1>6. QED
  BY <1>2, <1>3, <1>4, <1>5

LEMMA OperatorDropKeeps == IInv /\ OperatorDrop => IInv'
<1> SUFFICES ASSUME IInv, OperatorDrop
             PROVE  IInv'
  OBVIOUS
<1> USE DEF OperatorDrop, locals, request, IInv
<1>1. PICK g \in DOMAIN content : Remove(g)
  OBVIOUS
<1>2. drops' \in 0 .. MaxDrops /\ drops' # 0
  BY BoundsAssumption DEF TypeOK
<1>3. TypeOK' /\ Numbered'
  BY <1>1, <1>2, RemoveResult DEF TypeOK, Numbered
<1>4. EnsurePhase' /\ EnginePhase' /\ Staging' /\ Filling'
  BY DEF EnsurePhase, EnginePhase, Staged, Marking, Swapped, Staging, Filling
<1>5. Marker' /\ Fresh'
  BY <1>1, <1>2, RemoveResult DEF Marker, Fresh
<1>6. QED
  BY <1>3, <1>4, <1>5

-----------------------------------------------------------------------------
LEMMA InitIInv == Init => IInv
<1> SUFFICES ASSUME Init
             PROVE  IInv
  OBVIOUS
<1>1. DOMAIN content = {}
  BY DEF Init
<1>2. 0 \in 0 .. MaxReindexes /\ 0 \in 0 .. MaxFaults /\ 0 \in 0 .. MaxDrops
  BY BoundsAssumption
<1>3. meta \in [generation : Nat, seeded : BOOLEAN]
  BY DEF Init
<1>4. TypeOK
  BY <1>1, <1>2, <1>3 DEF Init, TypeOK, Steps
<1>5. Numbered
  BY DEF Init, Numbered, Bounded
<1>6. QED
  BY <1>1, <1>4, <1>5 DEF Init, IInv, EnsurePhase, EnginePhase, Staged, Marking, Swapped, Staging,
                    Filling, Marker, Fresh

LEMMA NextIInv == IInv /\ [Next]_vars => IInv'
<1> SUFFICES ASSUME IInv, [Next]_vars
             PROVE  IInv'
  OBVIOUS
<1>1. CASE Ensure
  BY <1>1, EnsureReadKeeps, EnsureCreateKeeps, EnsureMetaKeeps, EnsureAliasKeeps,
     EnsureConvenienceKeeps DEF Ensure
<1>2. CASE RebuildStale \/ RequestBackfill \/ ControlReindex
  BY <1>2, RebuildStaleKeeps, RequestBackfillKeeps, ControlReindexKeeps
<1>3. CASE FlushSnapshot \/ FlushLive
  BY <1>3, FlushSnapshotKeeps, FlushLiveKeeps
<1>4. CASE MarkSeeded
  BY <1>4, MarkStepKeeps, MarkDropKeeps, MarkMetaKeeps, MarkDoneKeeps DEF MarkSeeded
<1>5. CASE Fail \/ Restage \/ Crash \/ Start \/ OperatorDrop
  BY <1>5, FaultKeeps, OperatorDropKeeps
<1>6. CASE UNCHANGED vars
  BY <1>6 DEF vars, IInv, cluster, locals, request, budget, TypeOK, Numbered, Bounded,
              EnsurePhase, EnginePhase, Active, Staged, Marking, Swapped, Staging, Filling,
              Marker, Fresh, Complete
<1>7. QED
  BY <1>1, <1>2, <1>3, <1>4, <1>5, <1>6 DEF Next

LEMMA SinkInvariant == Spec => []IInv
  BY InitIInv, NextIInv, PTL DEF Spec

-----------------------------------------------------------------------------
(* Types; and from the end of ensure_index to the end of mark_seeded the    *)
(* generation the engine writes to exists and is the one the meta document  *)
(* names, whatever failed before (sink_impl.rs:55-118, 266-310).            *)
THEOREM SinkWritesGoToActive == Spec => []WritesGoToActive
<1>1. IInv => WritesGoToActive
  BY DEF IInv, WritesGoToActive, EnginePhase, Active, Staged, Marking
<1>2. QED
  BY <1>1, SinkInvariant, PTL

(* An index whose marker says seeded serves the generation it names, whole, *)
(* unless an operator deleted one (sink_impl.rs:266-310).                   *)
THEOREM SinkSeededIsServed == Spec => []SeededIsServed
<1>1. IInv => SeededIsServed
  BY DEF IInv, SeededIsServed, Marker, IsSeeded
<1>2. QED
  BY <1>1, SinkInvariant, PTL

(* No step but a deletion by an operator takes readers from a whole         *)
(* generation to anything else: the alias only moves to a whole one, and    *)
(* what serves is neither dropped nor emptied (sink_impl.rs:92-118,         *)
(* 266-310).                                                                *)
LEMMA ServedStaysServed ==
    ASSUME IInv, [Next]_vars, ServesComplete, ~OperatorDrop
    PROVE  ServesComplete'
<1>1. PICK g \in DOMAIN content : holders = {g} /\ content[g] = Rows
  BY DEF ServesComplete, Complete
<1>2. SUFFICES \E h \in DOMAIN content' : holders' = {h} /\ content'[h] = Rows
  BY DEF ServesComplete, Complete
<1> USE DEF Goto, IInv
<1>3. CASE UNCHANGED <<content, holders>>
  BY <1>1, <1>3
<1>4. CASE EnsureCreate
  BY <1>1, <1>4 DEF EnsureCreate
<1>5. CASE EnsureAlias
  BY <1>1, <1>5 DEF EnsureAlias, EnsurePhase, Active, Marker
<1>6. ASSUME NEW rows, rows \subseteq Rows, pc = "run", Flush(rows), UNCHANGED holders
      PROVE  \E h \in DOMAIN content' : holders' = {h} /\ content'[h] = Rows
  <2>1. g \in DOMAIN content' /\ content'[g] = Rows
    BY <1>1, <1>6, FlushResult
  <2>2. QED
    BY <1>1, <1>6, <2>1
<1>7. CASE FlushSnapshot \/ FlushLive
  BY <1>6, <1>7 DEF FlushSnapshot, FlushLive, TypeOK
<1>8. CASE MarkSwap
  <2>1. physical \in DOMAIN content /\ content[physical] = Rows
    BY <1>8 DEF MarkSwap, EnginePhase, Active, Marking, Filling, TypeOK
  <2>2. QED
    BY <1>8, <2>1 DEF MarkSwap
<1>9. CASE MarkDrop
  <2>1. CASE superseded = {}
    BY <1>1, <1>9, <2>1 DEF MarkDrop
  <2>2. CASE superseded # {}
    <3>1. PICK s \in superseded : Remove(s)
      BY <1>9, <2>2 DEF MarkDrop
    <3>2. s # g
      BY <1>1, <1>9 DEF MarkDrop, EnginePhase, Swapped
    <3>3. g \in DOMAIN content' /\ content'[g] = content[g] /\ holders' = holders \ {s}
      BY <1>1, <3>1, <3>2, RemoveResult
    <3>4. QED
      BY <1>1, <3>2, <3>3
  <2>3. QED
    BY <2>1, <2>2
<1>10. QED
  BY <1>3, <1>4, <1>5, <1>7, <1>8, <1>9
     DEF Next, vars, cluster, Ensure, EnsureRead, EnsureMeta, EnsureConvenience, RebuildStale,
         RequestBackfill, ControlReindex, StageRebuild, MarkSeeded, MarkRefresh,
         MarkSuperseded, MarkSwapConvenience, MarkMeta, MarkDone, Fail, Restage, Crash, Start

(* Readers never fall back from a whole generation to a half-built, empty   *)
(* or missing index, whatever request of ensure_index, reindex or           *)
(* mark_seeded fails, crashes or is resumed (sink_impl.rs:92-118, 266-310). *)
THEOREM SinkReadersNeverRegress == Spec => ReadersNeverRegress
<1>1. IInv /\ [Next]_vars => [(ServesComplete /\ ~OperatorDrop) => ServesComplete']_vars
  BY ServedStaysServed
<1>2. QED
  BY <1>1, SinkInvariant, PTL DEF Spec, ReadersNeverRegress

(* The generation ensure_index creates was never created before, whatever   *)
(* rebuilds crashed on the way, unless one was deleted (generations.rs:22-  *)
(* 36, sink_impl.rs:75-90).                                                 *)
LEMMA CreatedOnce ==
    ASSUME IInv, [Next]_vars, drops = 0
    PROVE  (DOMAIN content' \ DOMAIN content) \cap created = {}
<1>1. CASE EnsureCreate
  <2>1. CASE physical \in DOMAIN content
    BY <1>1, <2>1 DEF EnsureCreate
  <2>2. CASE physical \notin DOMAIN content
    <3>1. DOMAIN content' = DOMAIN content \cup {physical} /\ pc = "create"
      BY <1>1, <2>2 DEF EnsureCreate
    <3>2. \A g \in created : g < physical
      BY <2>2, <3>1, CreatedIsNew
    <3>3. created \subseteq Nat
      BY DEF IInv, Numbered
    <3>4. ASSUME physical \in created
          PROVE  FALSE
      <4>1. physical \in Nat /\ physical < physical
        BY <3>2, <3>3, <3>4
      <4>2. QED
        BY <4>1
    <3>5. QED
      BY <3>1, <3>4
  <2>3. QED
    BY <2>1, <2>2
<1>2. CASE FlushSnapshot \/ FlushLive
  BY <1>2 DEF FlushSnapshot, FlushLive, Flush
<1>3. CASE MarkDrop \/ OperatorDrop
  BY <1>3, RemoveResult DEF MarkDrop, OperatorDrop
<1>4. CASE UNCHANGED content
  BY <1>4
<1>5. QED
  BY <1>1, <1>2, <1>3, <1>4
     DEF Next, vars, cluster, Ensure, EnsureRead, EnsureMeta, EnsureAlias, EnsureConvenience,
         RebuildStale, RequestBackfill, ControlReindex, StageRebuild, MarkSeeded, MarkRefresh,
         MarkSuperseded, MarkSwap, MarkSwapConvenience, MarkMeta, MarkDone, Fail, Restage,
         Crash, Start

(* A generation number is never reused, even when a crashed rebuild left an *)
(* orphan: next_generation is above everything that exists or was staged    *)
(* (generations.rs:22-36).                                                  *)
THEOREM SinkGenerationsAreFresh == Spec => GenerationsAreFresh
<1>1. IInv /\ [Next]_vars
        => [drops = 0 => (DOMAIN content' \ DOMAIN content) \cap created = {}]_vars
  BY CreatedOnce
<1>2. QED
  BY <1>1, SinkInvariant, PTL DEF Spec, GenerationsAreFresh
-----------------------------------------------------------------------------
(* Two copies. What the refinement needs beyond IInv: at most one           *)
(* generation serves, and one does once ensure_index is through; nothing is *)
(* written before the meta document names a generation; a marker is only    *)
(* retracted for an index that lost one; and an engine that runs has its    *)
(* index seeded or asked for.                                               *)
CopiesInv ==
    /\ \A g, h \in holders : g = h
    /\ meta.generation = 0 => holders = {} /\ \A g \in DOMAIN content : content[g] = {}
    /\ pc = "meta" /\ drops = 0 => ~meta.seeded
    /\ pc \in Staged \cup Marking \cup {"convenience"} => holders # {}
    /\ pc = "run" /\ ~outstanding => meta.seeded
    /\ pc = "marked" => meta.seeded

LEMMA InitCopiesInv == Init => CopiesInv
  BY DEF Init, CopiesInv, Staged, Marking

LEMMA EnsureKeepsCopies ==
    ASSUME IInv, CopiesInv, Ensure \/ RebuildStale \/ RequestBackfill \/ ControlReindex
    PROVE  CopiesInv'
<1> USE DEF CopiesInv, IInv, Goto, Staged, Marking, cluster, locals, request, budget
<1>1. CASE EnsureRead
  BY <1>1 DEF EnsureRead
<1>2. CASE EnsureCreate
  <2>1. CASE physical \in DOMAIN content
    BY <1>2, <2>1 DEF EnsureCreate, EnsurePhase, TypeOK
  <2>2. CASE physical \notin DOMAIN content
    <3>1. DOMAIN content' = DOMAIN content \cup {physical}
          /\ \A g \in DOMAIN content' : content'[g] = IF g = physical THEN {} ELSE content[g]
      BY <1>2, <2>2 DEF EnsureCreate
    <3>2. drops = 0 => ~meta.seeded
      BY <1>2, <2>2 DEF EnsureCreate, EnsurePhase, Marker, Complete
    <3>3. pc' = "meta" /\ UNCHANGED <<holders, meta, drops>>
      BY <1>2, <2>2 DEF EnsureCreate
    <3>4. QED
      BY <3>1, <3>2, <3>3
  <2>3. QED
    BY <2>1, <2>2
<1>3. CASE EnsureMeta
  BY <1>3 DEF EnsureMeta, EnsurePhase
<1>4. CASE EnsureAlias
  BY <1>4 DEF EnsureAlias, EnsurePhase, Active, AfterEnsure, TypeOK
<1>5. CASE EnsureConvenience
  BY <1>5 DEF EnsureConvenience, AfterEnsure
<1>6. CASE RebuildStale \/ ControlReindex
  <2>1. CASE UNCHANGED <<holders, meta, content, drops>> /\ pc = "stale" /\ pc' = "check"
    BY <2>1
  <2>2. CASE UNCHANGED <<holders, content, drops>> /\ pc' = "stage" /\ meta'.generation # 0
    BY <2>2
  <2>3. QED
    BY <1>6, <2>1, <2>2, NextOfExisting DEF RebuildStale, ControlReindex, StageRebuild
<1>7. CASE RequestBackfill
  BY <1>7 DEF RequestBackfill, IsSeeded
<1>8. QED
  BY <1>1, <1>2, <1>3, <1>4, <1>5, <1>6, <1>7 DEF Ensure

LEMMA EngineKeepsCopies ==
    ASSUME IInv, CopiesInv, FlushSnapshot \/ FlushLive \/ MarkSeeded
    PROVE  CopiesInv'
<1> USE DEF CopiesInv, IInv, Goto, Staged, Marking, Swapped, cluster, locals, request, budget
<1>1. CASE FlushSnapshot \/ FlushLive
  <2>1. meta.generation # 0
    BY <1>1 DEF FlushSnapshot, FlushLive, EnginePhase, Active, TypeOK
  <2>2. QED
    BY <1>1, <2>1 DEF FlushSnapshot, FlushLive
<1>2. CASE MarkRefresh \/ MarkSuperseded \/ MarkSwapConvenience
  BY <1>2 DEF MarkRefresh, MarkSuperseded, MarkSwapConvenience
<1>3. CASE MarkSwap
  BY <1>3 DEF MarkSwap, EnginePhase, Active, TypeOK
<1>4. CASE MarkDrop
  <2>1. CASE superseded = {}
    BY <1>4, <2>1 DEF MarkDrop
  <2>2. CASE superseded # {}
    <3>1. PICK g \in superseded : Remove(g)
      BY <1>4, <2>2 DEF MarkDrop
    <3>2. g # physical /\ holders = {physical}
      BY <1>4, <3>1 DEF MarkDrop, EnginePhase
    <3>3. /\ holders' = holders
          /\ DOMAIN content' \subseteq DOMAIN content
          /\ \A h \in DOMAIN content' : content'[h] = content[h]
      BY <3>1, <3>2, RemoveResult
    <3>4. QED
      BY <1>4, <2>2, <3>2, <3>3 DEF MarkDrop
  <2>3. QED
    BY <2>1, <2>2
<1>5. CASE MarkMeta
  BY <1>5 DEF MarkMeta, EnginePhase, Active, TypeOK
<1>6. CASE MarkDone
  BY <1>6 DEF MarkDone
<1>7. QED
  BY <1>1, <1>2, <1>3, <1>4, <1>5, <1>6 DEF MarkSeeded

LEMMA FaultsKeepCopies ==
    ASSUME IInv, CopiesInv, Fail \/ Restage \/ Crash \/ Start \/ OperatorDrop
    PROVE  CopiesInv'
<1> USE DEF CopiesInv, IInv, Goto, Staged, Marking, cluster, locals, request, budget
<1>1. CASE Fail \/ Restage \/ Crash \/ Start
  BY <1>1 DEF Fail, Restage, Crash, Start
<1>2. CASE OperatorDrop
  <2>1. PICK g \in DOMAIN content : Remove(g)
    BY <1>2 DEF OperatorDrop
  <2>2. QED
    BY <1>2, <2>1, RemoveResult DEF OperatorDrop
<1>3. QED
  BY <1>1, <1>2

LEMMA NextCopiesInv == IInv /\ CopiesInv /\ [Next]_vars => CopiesInv'
<1>1. ASSUME CopiesInv, UNCHANGED vars
      PROVE  CopiesInv'
  BY <1>1 DEF CopiesInv, vars, cluster, request, budget, Staged, Marking
<1>2. QED
  BY <1>1, EnsureKeepsCopies, EngineKeepsCopies, FaultsKeepCopies DEF Next

(* What the readers' copy and the copy under construction are.              *)
LEMMA CopiesAre ==
    ASSUME IInv, CopiesInv
    PROVE  /\ ~Rebuilding => Serving = Held(meta.generation) /\ Building = {}
           /\ Rebuilding => Building = Held(meta.generation)
           /\ \A h \in holders : Rebuilding => Serving = Held(h)
           /\ Serving \in SUBSET Rows /\ Building \in SUBSET Rows
           /\ Rebuilding \in BOOLEAN
<1>1. \A g : Held(g) \in SUBSET Rows
  BY DEF IInv, TypeOK, Held
<1>2. ASSUME NEW h \in holders, Rebuilding
      PROVE  Serving = Held(h)
  <2>1. holders = {h}
    BY <1>2 DEF CopiesInv
  <2>2. QED
    BY <1>2, <2>1 DEF Serving
<1>3. Rebuilding => \E h \in holders : TRUE
  BY DEF Rebuilding
<1>4. QED
  BY <1>1, <1>2, <1>3 DEF Serving, Building, Rebuilding

(* A step that moves neither alias nor meta document, and leaves what the   *)
(* generations they name hold, is not seen.                                 *)
LEMMA UnseenSteps ==
    ASSUME IInv, CopiesInv, UNCHANGED <<holders, meta, drops>>,
           \A g \in holders \cup {meta.generation} : Held(g)' = Held(g)
    PROVE  UNCHANGED Copies!vars
<1>1. Rebuilding' = Rebuilding /\ Held(meta.generation)' = Held(meta.generation)
  BY DEF Rebuilding
<1>2. {Held(g)' : g \in holders} = {Held(g) : g \in holders}
  OBVIOUS
<1>3. Serving' = Serving /\ Building' = Building
  BY <1>1, <1>2 DEF Serving, Building
<1>4. QED
  BY <1>1, <1>3 DEF Copies!vars

LEMMA EnsureIsUnseen ==
    ASSUME IInv, CopiesInv, IInv', CopiesInv', Ensure
    PROVE  Copies!Retract \/ UNCHANGED Copies!vars
<1> USE DEF Goto, cluster, request, budget
<1>1. CASE EnsureRead \/ EnsureConvenience
  BY <1>1, UnseenSteps DEF EnsureRead, EnsureConvenience, locals, Held
<1>2. CASE EnsureCreate
  <2>1. UNCHANGED <<holders, meta, drops>> /\ \A g : Held(g)' = Held(g)
    BY <1>2 DEF EnsureCreate, Held
  <2>2. QED
    BY <2>1, UnseenSteps
<1>3. CASE EnsureMeta
  <2>1. UNCHANGED <<holders, drops>> /\ \A g : Held(g)' = Held(g)
    BY <1>3 DEF EnsureMeta, Held
  <2>2. meta'.generation = physical /\ ~meta'.seeded /\ pc = "meta"
    BY <1>3 DEF EnsureMeta
  <2>3. CASE meta.generation = 0
    <3>1. holders = {} /\ holders' = {} /\ Held(meta.generation) = {} /\ Held(physical) = {}
      BY <2>1, <2>3 DEF CopiesInv, Held
    <3>2. ~Rebuilding /\ ~Rebuilding'
      BY <3>1 DEF Rebuilding
    <3>3. Serving = {} /\ Serving' = {} /\ Building = {} /\ Building' = {}
      BY <2>1, <2>2, <3>1, <3>2 DEF Serving, Building
    <3>4. meta.seeded = FALSE /\ meta'.seeded = FALSE
      BY <2>2, <2>3 DEF IInv, Marker, TypeOK
    <3>5. Rebuilding = FALSE /\ Rebuilding' = FALSE
      BY <3>2 DEF Rebuilding
    <3>6. QED
      BY <2>1, <3>3, <3>4, <3>5 DEF Copies!vars
  <2>4. CASE meta.generation # 0
    <3>1. meta'.generation = meta.generation
      BY <2>2, <2>4 DEF IInv, EnsurePhase
    <3>2. UNCHANGED <<Rebuilding, Serving, Building>>
      BY <2>1, <3>1 DEF Rebuilding, Serving, Building
    <3>3. CASE drops = 0
      <4>1. meta.seeded = FALSE /\ meta'.seeded = FALSE
        BY <2>2, <3>3 DEF CopiesInv, IInv, TypeOK
      <4>2. QED
        BY <2>1, <3>2, <4>1 DEF Copies!vars
    <3>4. CASE drops > 0
      BY <2>1, <2>2, <3>2, <3>4 DEF Copies!Retract, IInv, TypeOK
    <3>5. QED
      BY <3>3, <3>4 DEF IInv, TypeOK
  <2>5. QED
    BY <2>3, <2>4
<1>4. CASE EnsureAlias
  <2>1. UNCHANGED <<meta, drops>> /\ (\A g : Held(g)' = Held(g)) /\ physical = meta.generation
    BY <1>4 DEF EnsureAlias, IInv, EnsurePhase, Active, Held
  <2>2. CASE holders' = holders
    BY <2>1, <2>2, UnseenSteps
  <2>3. CASE holders' # holders
    <3>1. holders' = {meta.generation} /\ holders = {}
      BY <1>4, <2>1, <2>3 DEF EnsureAlias, IInv, EnsurePhase, Marker
    <3>2. ~Rebuilding /\ ~Rebuilding'
      BY <2>1, <3>1 DEF Rebuilding
    <3>3. Rebuilding = FALSE /\ Rebuilding' = FALSE
      BY <3>2 DEF Rebuilding
    <3>4. Held(meta.generation)' = Held(meta.generation)
      BY <1>4 DEF EnsureAlias, Held
    <3>5. Serving' = Serving /\ Building' = Building
      BY <3>2, <3>4 DEF Serving, Building
    <3>6. QED
      BY <2>1, <3>3, <3>5 DEF Copies!vars
  <2>4. QED
    BY <2>2, <2>3
<1>5. QED
  BY <1>1, <1>2, <1>3, <1>4 DEF Ensure

LEMMA RebuildIsReindex ==
    ASSUME IInv, CopiesInv, NEW from, StageRebuild(from), pc \in Staged, meta.seeded,
           UNCHANGED drops
    PROVE  Copies!Reindex
<1>1. holders = {meta.generation} /\ meta.generation \in DOMAIN content
  BY DEF IInv, CopiesInv, Marker, EnginePhase, Active
<1>2. /\ meta'.generation = next_generation(DOMAIN content)
      /\ meta'.seeded = FALSE
      /\ UNCHANGED <<content, holders>>
  BY DEF StageRebuild
<1>3. meta'.generation \notin DOMAIN content
  BY <1>2, NextOfExisting DEF IInv, TypeOK
<1>4. ~Rebuilding /\ Rebuilding' = TRUE
  BY <1>1, <1>2, <1>3 DEF Rebuilding
<1>5. Serving = Held(meta.generation) /\ Serving' = Held(meta.generation)
  <2>1. UNION {Held(g)' : g \in holders'} = Held(meta.generation)
    BY <1>1, <1>2 DEF Held
  <2>2. Serving' = UNION {Held(g)' : g \in holders'}
    BY <1>4 DEF Serving
  <2>3. QED
    BY <1>4, <2>1, <2>2 DEF Serving
<1>6. Building' = {}
  BY <1>2, <1>3, <1>4 DEF Building, Held
<1>7. QED
  BY <1>2, <1>4, <1>5, <1>6 DEF Copies!Reindex

LEMMA FlushIsApply ==
    ASSUME IInv, CopiesInv, IInv', CopiesInv', NEW rows, rows \subseteq Rows, pc = "run",
           Flush(rows), UNCHANGED <<holders, meta, drops>>
    PROVE  Copies!Apply
<1>1. physical = meta.generation /\ physical \in DOMAIN content /\ holders # {}
  BY DEF IInv, EnginePhase, Active, Staged, CopiesInv
<1>2. /\ \A g : g # physical => Held(g)' = Held(g)
      /\ Held(meta.generation)' = Held(meta.generation) \cup rows
  <2>1. DOMAIN content' = DOMAIN content
        /\ \A g \in DOMAIN content :
              content'[g] = IF g = physical THEN content[g] \cup rows ELSE content[g]
    BY <1>1 DEF Flush
  <2>2. QED
    BY <1>1, <2>1 DEF Held
<1>3. Copies!Written(Held(meta.generation), Held(meta.generation)')
  <2>1. Held(meta.generation)' \in SUBSET Rows
    BY <1>1, FlushResult DEF Held, IInv, TypeOK
  <2>2. QED
    BY <1>2, <2>1 DEF Copies!Written
<1>4. Rebuilding' = Rebuilding
  BY DEF Rebuilding
<1>5. CASE Rebuilding
  <2>1. Building = Held(meta.generation) /\ Building' = Held(meta.generation)'
    BY <1>4, <1>5 DEF Building
  <2>2. PICK h \in holders : h # physical
    BY <1>1, <1>5 DEF Rebuilding
  <2>3. Serving = Held(h) /\ Serving' = Held(h)'
    BY <1>4, <1>5, <2>2, CopiesAre DEF CopiesInv, Serving
  <2>4. QED
    BY <1>2, <1>3, <1>4, <1>5, <2>1, <2>2, <2>3 DEF Copies!Apply
<1>6. CASE ~Rebuilding
  BY <1>3, <1>4, <1>6 DEF Building, Serving, Copies!Apply
<1>7. QED
  BY <1>5, <1>6

LEMMA MarkIsSeed ==
    ASSUME IInv, CopiesInv, IInv', CopiesInv', MarkSeeded
    PROVE  Copies!Swap \/ Copies!Seed \/ UNCHANGED Copies!vars
<1> USE DEF Goto, cluster, locals, request, budget
<1>1. CASE MarkRefresh \/ MarkSuperseded \/ MarkSwapConvenience \/ MarkDone
  BY <1>1, UnseenSteps
     DEF MarkRefresh, MarkSuperseded, MarkSwapConvenience, MarkDone, Held
<1>2. ASSUME pc \in Marking
      PROVE  physical = meta.generation /\ Held(meta.generation) = Rows
  <2>1. physical = meta.generation /\ physical \in DOMAIN content
    BY <1>2 DEF IInv, EnginePhase, Active
  <2>2. content[meta.generation] = Rows
    BY <1>2, <2>1 DEF IInv, EnginePhase, Filling, TypeOK
  <2>3. QED
    BY <2>1, <2>2 DEF Held
<1>3. CASE MarkSwap
  <2>1. UNCHANGED <<content, meta, drops>> /\ holders' = {meta.generation}
    BY <1>2, <1>3 DEF MarkSwap, Marking
  <2>2. ~Rebuilding' /\ Serving' = Held(meta.generation) /\ Building' = {}
    BY <2>1 DEF Rebuilding, Serving, Building, Held
  <2>3. Held(meta.generation) = Rows
    BY <1>2, <1>3 DEF MarkSwap, Marking
  <2>4. CASE Rebuilding
    BY <2>1, <2>2, <2>3, <2>4, CopiesAre DEF Copies!Swap, Copies!Serve, Rebuilding
  <2>5. CASE ~Rebuilding
    BY <2>1, <2>2, <2>5, CopiesAre DEF Copies!vars, Rebuilding
  <2>6. QED
    BY <2>4, <2>5
<1>4. CASE MarkDrop
  <2>1. CASE superseded = {}
    BY <1>4, <2>1, UnseenSteps DEF MarkDrop, Held
  <2>2. CASE superseded # {}
    <3>1. PICK g \in superseded : Remove(g)
      BY <1>4, <2>2 DEF MarkDrop
    <3>2. g # physical /\ holders = {physical} /\ physical = meta.generation
      BY <1>2, <1>4, <3>1 DEF MarkDrop, IInv, EnginePhase, Marking, Swapped
    <3>3. holders' = holders /\ Held(meta.generation)' = Held(meta.generation)
      BY <1>4, <3>1, <3>2, RemoveResult DEF Held, MarkDrop
    <3>4. QED
      BY <1>4, <3>2, <3>3, UnseenSteps DEF MarkDrop
  <2>3. QED
    BY <2>1, <2>2
<1>5. CASE MarkMeta
  <2>1. UNCHANGED <<content, holders, drops>> /\ meta'.generation = meta.generation
        /\ meta'.seeded = TRUE /\ holders = {meta.generation}
    BY <1>2, <1>5 DEF MarkMeta, IInv, EnginePhase, Marking, Swapped
  <2>2. ~Rebuilding /\ ~Rebuilding' /\ Held(meta.generation)' = Held(meta.generation)
    BY <2>1 DEF Rebuilding, Held
  <2>3. Held(meta.generation) = Rows
    BY <1>2, <1>5 DEF MarkMeta, Marking
  <2>4. Serving = Rows /\ Serving' = Rows /\ Building' = {}
    BY <2>2, <2>3 DEF Serving, Building
  <2>5. QED
    BY <2>1, <2>2, <2>4 DEF Copies!Seed, Copies!Serve, Rebuilding
<1>6. QED
  BY <1>1, <1>3, <1>4, <1>5 DEF MarkSeeded

LEMMA DropIsLose ==
    ASSUME IInv, CopiesInv, OperatorDrop
    PROVE  Copies!Lose
<1>1. PICK g \in DOMAIN content : Remove(g)
  BY DEF OperatorDrop
<1>2. UNCHANGED meta /\ (drops > 0)' = TRUE
  BY DEF OperatorDrop, IInv, TypeOK
<1>3. /\ holders' = holders \ {g}
      /\ Held(g)' = {}
      /\ \A h : h # g => Held(h)' = Held(h)
  BY <1>1, RemoveResult DEF Held
<1>4. CASE g \in holders /\ ~Rebuilding
  <2>1. holders' = {} /\ g = meta.generation
    BY <1>3, <1>4 DEF Rebuilding, CopiesInv
  <2>2. ~Rebuilding' /\ Serving' = {} /\ Building' = {} /\ Building = {}
    BY <1>2, <1>3, <1>4, <2>1 DEF Rebuilding, Serving, Building
  <2>3. QED
    BY <1>2, <1>4, <2>2 DEF Copies!Lose, Rebuilding
<1>5. CASE g \in holders /\ Rebuilding
  <2>1. holders' = {} /\ g # meta.generation
    BY <1>3, <1>5 DEF Rebuilding, CopiesInv
  <2>2. /\ Rebuilding' = FALSE /\ Serving' = Held(meta.generation) /\ Building' = {}
        /\ Building = Held(meta.generation)
    BY <1>2, <1>3, <1>5, <2>1 DEF Rebuilding, Serving, Building
  <2>3. QED
    BY <1>2, <1>5, <2>2 DEF Copies!Lose
<1>6. CASE g \notin holders
  <2>1. holders' = holders /\ Rebuilding' = Rebuilding
    BY <1>2, <1>3, <1>6 DEF Rebuilding
  <2>2. Rebuilding => Serving' = Serving
    <3>1. {Held(h)' : h \in holders} = {Held(h) : h \in holders}
      BY <1>3, <1>6
    <3>2. QED
      BY <2>1, <3>1 DEF Serving
  <2>3. CASE g = meta.generation
    BY <1>2, <1>3, <2>1, <2>2, <2>3 DEF Serving, Building, Copies!Lose
  <2>4. CASE g # meta.generation
    BY <1>2, <1>3, <2>1, <2>2, <2>4 DEF Serving, Building, Copies!Lose
  <2>5. QED
    BY <2>3, <2>4
<1>7. QED
  BY <1>4, <1>5, <1>6

LEMMA CopiesStep ==
    ASSUME IInv, CopiesInv, IInv', CopiesInv', [Next]_vars
    PROVE  [Copies!Next]_Copies!vars
<1> USE DEF Goto, cluster, locals, request, budget
<1>1. CASE Ensure
  BY <1>1, EnsureIsUnseen DEF Copies!Next
<1>2. CASE RebuildStale
  <2>1. CASE IsSeeded
    BY <1>2, <2>1, RebuildIsReindex DEF RebuildStale, IsSeeded, Staged, Copies!Next
  <2>2. CASE ~IsSeeded
    BY <1>2, <2>2, UnseenSteps DEF RebuildStale, Held
  <2>3. QED
    BY <2>1, <2>2
<1>3. CASE ControlReindex
  <2>1. meta.seeded /\ pc \in Staged /\ UNCHANGED drops /\ StageRebuild("control")
    BY <1>3 DEF ControlReindex, CopiesInv, Staged
  <2>2. QED
    BY <2>1, RebuildIsReindex DEF Copies!Next
<1>4. CASE FlushSnapshot \/ FlushLive
  <2>1. PICK r \in Rows : Flush({r})
    BY <1>4 DEF FlushSnapshot, FlushLive, IInv, TypeOK
  <2>2. UNCHANGED <<holders, meta, drops>> /\ pc = "run"
    BY <1>4 DEF FlushSnapshot, FlushLive
  <2>3. Copies!Apply
    BY <2>1, <2>2, FlushIsApply
  <2>4. QED
    BY <2>3 DEF Copies!Next
<1>5. CASE MarkSeeded
  BY <1>5, MarkIsSeed DEF Copies!Next
<1>6. CASE OperatorDrop
  BY <1>6, DropIsLose DEF Copies!Next
<1>7. CASE RequestBackfill \/ Fail \/ Restage \/ Crash \/ Start \/ UNCHANGED vars
  BY <1>7, UnseenSteps DEF RequestBackfill, Fail, Restage, Crash, Start, vars, Held
<1>8. QED
  BY <1>1, <1>2, <1>3, <1>4, <1>5, <1>6, <1>7 DEF Next

(* ensure_index, reindex, apply and mark_seeded on generations, aliases and *)
(* the meta document, interrupted anywhere, implement the two copies and    *)
(* the marker that the engines work with (sink_impl.rs:55-310).             *)
THEOREM SinkImplementsTwoCopies == Spec => SinkIsTwoCopies
<1>1. Init => Copies!Init
  BY DEF Init, Copies!Init, Rebuilding, Serving, Building, Held
<1>2. IInv /\ CopiesInv /\ IInv' /\ CopiesInv' /\ [Next]_vars => [Copies!Next]_Copies!vars
  BY CopiesStep
<1>3. Spec => []CopiesInv
  BY InitCopiesInv, NextCopiesInv, SinkInvariant, PTL DEF Spec
<1>4. QED
  BY <1>1, <1>2, <1>3, SinkInvariant, PTL DEF Spec, SinkIsTwoCopies, Copies!Spec
=============================================================================
