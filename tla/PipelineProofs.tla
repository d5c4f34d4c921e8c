--------------------------- MODULE PipelineProofs ---------------------------
(***************************************************************************)
(* Proofs about one deployment, for every set of sinks, documents and      *)
(* values, every capacity and every number of writes, faults, reindexes    *)
(* and slot losses: its types, and that no backfill is ever forgotten.     *)
(***************************************************************************)
EXTENDS Pipeline, Greatest, SequenceTheorems, TLAPS

-----------------------------------------------------------------------------
(* The inductive invariant.                                                *)

Items ==
    [kind : {"batch", "complete"}, docs : UNION {[D -> Rows] : D \in SUBSET Docs},
     position : Nat]

\* The types, as sets of functions and sequences.
Typed ==
    /\ db \in Contents
    /\ wal \in Seq(Docs) /\ Len(wal) =< MaxWrites
    /\ slot \in Nat \cup {NoSlot}
    /\ store \in [Sinks -> Store]
    /\ phase \in {"down", "staging", "running"}
    /\ continuity \in {"Fresh", "Resumed"}
    /\ engine \in [Sinks -> Places]
    /\ outstanding \in [Sinks -> BOOLEAN]
    /\ lane \in [Sinks -> Seq(Items)]
    /\ taken \in [Sinks -> BOOLEAN]
    /\ \A s \in Sinks : taken[s] => lane[s] # <<>>
    /\ \A s \in Sinks : engine[s] = "item" => taken[s]
    /\ acked \in [Sinks -> Nat]
    /\ requests \in Seq(Sinks)
    /\ popped \in 0 .. Len(requests) /\ held \in 0 .. popped
    /\ ingest \in {"off", "open", "loop", "collect", "publish", "backoff", "ended"}
    /\ stream \in Nat
    /\ read \in 0 .. Len(wal)
    /\ snapshot \in [on : BOOLEAN, open : BOOLEAN, for : SUBSET Sinks, rows : SUBSET Docs]
    /\ outbox \in [item : Items, to : SUBSET Sinks]
    /\ budget \in [{"faults", "reindexes", "losses"} -> Nat]

\* The ingest engine has a live stream open.
Live == ingest \in {"loop", "collect", "publish", "ended"}

\* The marker of a snapshot is being published.
Answering == ingest = "publish" /\ outbox.item.kind = "complete"

\* Where the engines and the supervisor can be at the same time.
Control ==
    /\ ingest # "publish" => outbox = NothingOut
    /\ ~snapshot.on => snapshot = NoSnapshot
    /\ snapshot.on => ingest \in {"loop", "publish"} /\ snapshot.for = Asked
    /\ snapshot.open => snapshot.on
    /\ snapshot.rows # {} => snapshot.open
    /\ Answering => snapshot.on /\ outbox.to \subseteq snapshot.for
    /\ (phase = "running") = (ingest # "off")
    /\ ingest = "off" => \A s \in Sinks : lane[s] = <<>> /\ acked[s] = 0
    /\ phase = "down" =>
          requests = <<>> /\ \A s \in Sinks : engine[s] = "off" /\ ~outstanding[s]
    /\ \A s \in Sinks :
          /\ engine[s] = "staged" => phase = "staging"
          /\ engine[s] \in {"run", "item"} => phase = "running"

\* What is on its way to a sink: its lane, then the item being published.
Pipe(s) == lane[s] \o (IF s \in outbox.to THEN <<outbox.item>> ELSE <<>>)

\* The highest position a lane can have been given.
Top == IF Live THEN Position(read) ELSE Position(MaxWrites)

\* The slot stays behind what was read, and what was read bounds every
\* position on a lane or acknowledged.
Numbers ==
    /\ slot # NoSlot => slot =< Len(wal)
    /\ Live => slot # NoSlot /\ slot =< read
    /\ \A s \in Sinks :
          /\ acked[s] =< Top
          /\ \A k \in 1 .. Len(Pipe(s)) : Pipe(s)[k].position =< Top

\* A request no marker answers yet.
Pending(i) == ~(Answering /\ i =< held)

\* A marker is among the items, and at most one.
Marked(items) == \E k \in 1 .. Len(items) : items[k].kind = "complete"
OneMarker(items) ==
    \A j, k \in 1 .. Len(items) :
        items[j].kind = "complete" /\ items[k].kind = "complete" => j = k

\* A sink engine waits for a backfill exactly while one pending request of its
\* own, or one marker on its way to it, will end the wait.
Backfills ==
    /\ \A i \in 1 .. Len(requests) : Pending(i) =>
          outstanding[requests[i]] /\ ~Marked(Pipe(requests[i]))
    /\ \A i, j \in 1 .. Len(requests) :
          Pending(i) /\ Pending(j) /\ requests[i] = requests[j] => i = j
    /\ \A s \in Sinks :
          /\ Marked(Pipe(s)) => outstanding[s]
          /\ OneMarker(Pipe(s))
          /\ engine[s] = "request" => ~outstanding[s]
          /\ outstanding[s] =>
                \/ Marked(Pipe(s))
                \/ \E i \in 1 .. Len(requests) : Pending(i) /\ requests[i] = s

DeployInv == Typed /\ Control /\ Numbers /\ Backfills

-----------------------------------------------------------------------------
(* The model's operators.                                                  *)

LEMMA ItemTypes ==
    ASSUME db \in Contents
    PROVE  /\ Marker \in Items /\ Marker.kind = "complete"
           /\ Marker.docs \in [{} -> Rows] /\ Marker.position = 0
           /\ NothingOut \in [item : Items, to : SUBSET Sinks]
           /\ NothingOut.to = {} /\ NothingOut.item = Marker
           /\ \A D \in SUBSET Docs, p \in Nat :
                 /\ Batch(D, p) \in Items
                 /\ Batch(D, p).kind = "batch"
                 /\ Batch(D, p).position = p
                 /\ Batch(D, p).docs = [d \in D |-> db[d]]
<1>1. [d \in {} |-> Absent] \in [{} -> Rows]
  OBVIOUS
<1>2. Marker \in Items /\ Marker.kind = "complete" /\ Marker.position = 0
      /\ Marker.docs \in [{} -> Rows]
  BY <1>1 DEF Marker, Items
<1>3. ASSUME NEW D \in SUBSET Docs, NEW p \in Nat
      PROVE  /\ Batch(D, p) \in Items
             /\ Batch(D, p).kind = "batch"
             /\ Batch(D, p).position = p
             /\ Batch(D, p).docs = [d \in D |-> db[d]]
  <2>1. [d \in D |-> db[d]] \in [D -> Rows]
    BY DEF Contents
  <2> QED
    BY <2>1 DEF Batch, Items
<1> QED
  BY <1>2, <1>3 DEF NothingOut

\* An item of the lanes, field by field.
LEMMA ItemFields ==
    ASSUME NEW x \in Items
    PROVE  /\ x.kind \in {"batch", "complete"}
           /\ x.position \in Nat
           /\ DOMAIN x.docs \subseteq Docs
           /\ \A d \in DOMAIN x.docs : x.docs[d] \in Rows
           /\ IsItem(x)
<1>1. PICK D \in SUBSET Docs : x.docs \in [D -> Rows]
  BY DEF Items
<1>2. DOMAIN x.docs = D
  BY <1>1
<1>3. x.kind \in {"batch", "complete"} /\ x.position \in Nat
  BY DEF Items
<1> QED
  BY <1>1, <1>2, <1>3 DEF IsItem

LEMMA TypedImplies == Typed => TypeOK
<1> SUFFICES ASSUME Typed PROVE TypeOK
  OBVIOUS
<1>1. \A s \in Sinks : \A i \in 1 .. Len(lane[s]) : IsItem(lane[s][i])
  <2> SUFFICES ASSUME NEW s \in Sinks, NEW i \in 1 .. Len(lane[s])
               PROVE  IsItem(lane[s][i])
    OBVIOUS
  <2>1. lane[s] \in Seq(Items)
    BY DEF Typed
  <2>2. lane[s][i] \in Items
    BY <2>1, ElementOfSeq
  <2> QED
    BY <2>2, ItemFields
<1>2. IsItem(outbox.item) /\ outbox.to \subseteq Sinks
  BY ItemFields DEF Typed
<1>3. held =< popped /\ popped =< Len(requests)
  BY DEF Typed
<1> QED
  BY <1>1, <1>2, <1>3 DEF Typed, TypeOK

\* The copy that takes a sink's writes.
CopyOf(st) == IF st.rebuilding THEN st.building ELSE st.serving

\* What the sink port's calls make of a store.
LEMMA StoreResult ==
    ASSUME NEW st \in Store
    PROVE  /\ CopyOf(st) \in Contents
           /\ st.seeded \in BOOLEAN /\ st.rebuilding \in BOOLEAN
           /\ Reindexed(st) \in Store
           /\ CopyOf(Reindexed(st)) = Empty
           /\ Reindexed(st).seeded = FALSE
           /\ Swapped(st) \in Store
           /\ CopyOf(Swapped(st)) = CopyOf(st)
           /\ Swapped(st).seeded = st.seeded
           /\ Swapped(st).rebuilding = FALSE
           /\ Seeded(st) \in Store
           /\ CopyOf(Seeded(st)) = CopyOf(st)
           /\ Seeded(st).seeded = TRUE
           /\ Seeded(st).rebuilding = FALSE
<1>1. Empty \in Contents
  BY DEF Empty, Contents, Rows
<1>2. CopyOf(st) \in Contents /\ st.seeded \in BOOLEAN /\ st.rebuilding \in BOOLEAN
  BY DEF Store, CopyOf
<1>3. /\ Reindexed(st) \in Store
      /\ CopyOf(Reindexed(st)) = Empty
      /\ Reindexed(st).seeded = FALSE
  BY <1>1 DEF Reindexed, CopyOf, Store
<1>4. /\ Swapped(st) \in Store
      /\ CopyOf(Swapped(st)) = CopyOf(st)
      /\ Swapped(st).seeded = st.seeded
      /\ Swapped(st).rebuilding = FALSE
  BY <1>1 DEF Swapped, CopyOf, Store
<1>5. \A t \in Store : /\ [t EXCEPT !.seeded = TRUE] \in Store
                       /\ CopyOf([t EXCEPT !.seeded = TRUE]) = CopyOf(t)
                       /\ [t EXCEPT !.seeded = TRUE].seeded = TRUE
                       /\ [t EXCEPT !.seeded = TRUE].rebuilding = t.rebuilding
  BY DEF CopyOf, Store
<1> QED
  BY <1>2, <1>3, <1>4, <1>5 DEF Seeded

\* What processing an item makes of a store.
LEMMA ProcessedResult ==
    ASSUME NEW st \in Store, NEW x \in Items
    PROVE  LET new == Processed(st, x) IN
           /\ new \in Store
           /\ CopyOf(new) \in Contents
           /\ \A d \in Docs :
                 CopyOf(new)[d] = IF x.kind = "batch" /\ d \in DOMAIN x.docs
                                    THEN x.docs[d] ELSE CopyOf(st)[d]
           /\ new.seeded = (st.seeded \/ x.kind = "complete")
           /\ x.kind = "complete" => new = Seeded(st)
           /\ x.kind = "batch" => new.rebuilding = st.rebuilding
<1> DEFINE W(copy) == [d \in Docs |-> IF d \in DOMAIN x.docs THEN x.docs[d] ELSE copy[d]]
<1>1. CASE x.kind = "complete"
  BY <1>1, StoreResult DEF Processed
<1>2. CASE x.kind = "batch"
  <2>1. \A copy \in Contents : W(copy) \in Contents
    BY ItemFields DEF Contents
  <2>2. /\ st.serving \in Contents /\ st.building \in Contents
        /\ st.rebuilding \in BOOLEAN /\ st.seeded \in BOOLEAN
        /\ st = [serving |-> st.serving, building |-> st.building,
                 rebuilding |-> st.rebuilding, seeded |-> st.seeded]
    BY DEF Store
  <2>3. CASE st.rebuilding
    <3>1. Processed(st, x) = [serving |-> st.serving, building |-> W(st.building),
                              rebuilding |-> st.rebuilding, seeded |-> st.seeded]
      BY <1>2, <2>2, <2>3 DEF Processed, Applied
    <3> QED
      BY <1>2, <2>1, <2>2, <2>3, <3>1 DEF CopyOf, Store
  <2>4. CASE ~st.rebuilding
    <3>1. Processed(st, x) = [serving |-> W(st.serving), building |-> st.building,
                              rebuilding |-> st.rebuilding, seeded |-> st.seeded]
      BY <1>2, <2>2, <2>4 DEF Processed, Applied
    <3> QED
      BY <1>2, <2>1, <2>2, <2>4, <3>1 DEF CopyOf, Store
  <2> QED
    BY <2>3, <2>4
<1> QED
  BY <1>1, <1>2, ItemFields

\* Positions of one stream, and of the one after it.
LEMMA PositionFacts ==
    ASSUME stream \in Nat
    PROVE  /\ Position(0) \in Nat
           /\ \A n \in Nat : Position(n) \in Nat /\ Position(n) = Position(0) + n
           /\ stream' = stream + 1 =>
                 \A n \in Nat : Position(n)' = Position(MaxWrites) + 1 + n
<1>1. MaxWrites + 1 \in Nat
  BY BoundsAssumption
<1>2. stream * (MaxWrites + 1) \in Nat
  BY <1>1
<1>3. stream' = stream + 1 =>
          stream' * (MaxWrites + 1) = stream * (MaxWrites + 1) + (MaxWrites + 1)
  BY <1>1
<1> QED
  BY <1>2, <1>3, BoundsAssumption DEF Position

\* Where the slot goes when the watermark is confirmed: never back, never past
\* what was read, never past what some lane acknowledged.
LEMMA ConfirmedResult ==
    ASSUME Typed, Numbers, Live
    PROVE  /\ Confirmed \in Nat
           /\ slot \in Nat /\ slot =< Confirmed /\ Confirmed =< read
           /\ Confirmed = slot \/ \A s \in Sinks : acked[s] >= Position(Confirmed)
<1> DEFINE A == {acked[s] : s \in Sinks}
           P == Position(0)
<1>1. /\ slot \in Nat /\ slot =< read /\ read \in Nat /\ stream \in Nat
      /\ \A s \in Sinks : acked[s] \in Nat /\ acked[s] =< Position(read)
  BY DEF Typed, Numbers, Top, NoSlot
<1>2. /\ P \in Nat
      /\ \A n \in Nat : Position(n) = P + n
  BY <1>1, PositionFacts
<1>3. A \subseteq Nat /\ A # {}
  BY <1>1, SinksAssumption
<1>4. Watermark \in A /\ \A x \in A : Watermark =< x
  BY <1>3, MinProperties DEF Watermark
<1>5. Watermark \in Nat /\ Watermark =< P + read /\ \A s \in Sinks : Watermark =< acked[s]
  BY <1>1, <1>2, <1>3, <1>4
<1> HIDE DEF A, P
<1>6. CASE Watermark > P
  <2> DEFINE w == Watermark - P
  <2>1. w \in Nat /\ w =< read /\ \A s \in Sinks : acked[s] >= P + w
    BY <1>1, <1>2, <1>5, <1>6
  <2>2. Confirmed = IF slot =< w THEN w ELSE slot
    BY <1>1, <1>6, <2>1, MaxOfTwo DEF Confirmed, P
  <2> HIDE DEF w
  <2> QED
    BY <1>1, <1>2, <2>1, <2>2
<1>7. CASE ~(Watermark > P)
  BY <1>1, <1>7 DEF Confirmed, P
<1> QED
  BY <1>6, <1>7

\* The requests behind the first n.
LEMMA RestOfRequests ==
    ASSUME NEW S, NEW q \in Seq(S), NEW n \in 0 .. Len(q)
    PROVE  /\ SubSeq(q, n + 1, Len(q)) \in Seq(S)
           /\ Len(SubSeq(q, n + 1, Len(q))) = Len(q) - n
           /\ \A i \in 1 .. (Len(q) - n) : SubSeq(q, n + 1, Len(q))[i] = q[n + i]
OBVIOUS

-----------------------------------------------------------------------------
(* Types.                                                                  *)

\* The process is gone: everything it held is back where a start finds it.
LEMMA GoneTyped ==
    ASSUME Typed, Gone, UNCHANGED <<db, wal, store>>, slot' \in Nat \cup {NoSlot},
           budget' \in [{"faults", "reindexes", "losses"} -> Nat]
    PROVE  Typed'
<1>1. /\ outbox' \in [item : Items, to : SUBSET Sinks]
      /\ snapshot' \in [on : BOOLEAN, open : BOOLEAN, for : SUBSET Sinks, rows : SUBSET Docs]
  BY ItemTypes DEF Gone, NoSnapshot, Typed
<1>2. /\ lane' \in [Sinks -> Seq(Items)]
      /\ taken' \in [Sinks -> BOOLEAN] /\ \A s \in Sinks : ~taken'[s]
      /\ engine' \in [Sinks -> Places] /\ \A s \in Sinks : engine'[s] = "off"
      /\ outstanding' \in [Sinks -> BOOLEAN]
      /\ acked' \in [Sinks -> Nat]
      /\ requests' \in Seq(Sinks) /\ Len(requests') = 0 /\ popped' = 0 /\ held' = 0
  BY EmptySeq DEF Gone, Places
<1>3. stream' = 0 /\ read' = 0 /\ read' \in 0 .. Len(wal')
  BY DEF Gone, Typed
<1>4. phase' = "down" /\ continuity' = "Fresh" /\ ingest' = "off"
  BY DEF Gone
<1> QED
  BY <1>1, <1>2, <1>3, <1>4 DEF Typed

\* A fault, a reindex or a loss is counted.
LEMMA SpendTyped ==
    ASSUME Typed, NEW what \in {"faults", "reindexes", "losses"}, NEW max, Spend(what, max)
    PROVE  budget' \in [{"faults", "reindexes", "losses"} -> Nat]
BY DEF Typed, Spend

\* The ingest engine's run ends.
LEMMA DownTyped ==
    ASSUME Typed, IngestDown, UNCHANGED <<source, store, daemon, sinkside, lanes>>,
           slot' \in Nat \cup {NoSlot},
           budget' \in [{"faults", "reindexes", "losses"} -> Nat]
    PROVE  Typed'
<1>1. /\ outbox' \in [item : Items, to : SUBSET Sinks]
      /\ snapshot' \in [on : BOOLEAN, open : BOOLEAN, for : SUBSET Sinks, rows : SUBSET Docs]
  BY ItemTypes DEF IngestDown, NoSnapshot, Typed
<1>2. ingest' = "backoff" /\ held' = 0 /\ popped' = popped /\ popped \in Nat
      /\ UNCHANGED <<requests, stream, read>>
  BY DEF IngestDown, Typed
<1> QED
  BY <1>1, <1>2 DEF Typed, source, daemon, sinkside, lanes

\* What a live batch carries, and to whom.
LEMMA LiveItem ==
    ASSUME Typed, LiveBatch
    PROVE  \E n \in (read + 1) .. Len(wal), item \in Items :
              /\ outbox' = [item |-> item, to |-> Sinks] /\ ingest' = "publish" /\ read' = n
              /\ item.kind = "batch" /\ item.position = Position(n)
              /\ item.docs = [d \in {wal[i] : i \in (read + 1) .. n} |-> db[d]]
<1>1. PICK n \in (read + 1) .. Len(wal) :
          /\ Publish(Batch({wal[i] : i \in (read + 1) .. n}, Position(n)), Sinks)
          /\ read' = n
  BY DEF LiveBatch
<1>2. {wal[i] : i \in (read + 1) .. n} \in SUBSET Docs
  <2>1. \A i \in (read + 1) .. n : i \in 1 .. Len(wal)
    BY DEF Typed
  <2> QED
    BY <2>1, ElementOfSeq DEF Typed
<1>3. Position(n) \in Nat
  BY PositionFacts DEF Typed
<1> DEFINE changed == {wal[i] : i \in (read + 1) .. n}
           item == Batch(changed, Position(n))
<1> HIDE DEF changed
<1>4. /\ item \in Items /\ item.kind = "batch" /\ item.position = Position(n)
      /\ item.docs = [d \in changed |-> db[d]]
  <2>1. db \in Contents /\ changed \in SUBSET Docs
    BY <1>2 DEF Typed, changed
  <2> QED
    BY <1>3, <2>1, ItemTypes
<1>5. outbox' = [item |-> item, to |-> Sinks] /\ ingest' = "publish"
  BY <1>1 DEF Publish, changed
<1> HIDE DEF item
<1> QED
  BY <1>1, <1>4, <1>5 DEF changed

\* A snapshot batch or marker, and for whom.
LEMMA SnapshotItem ==
    ASSUME Typed, SnapshotBatch \/ SnapshotEnd
    PROVE  \E item \in Items :
              /\ outbox' = [item |-> item, to |-> snapshot.for] /\ ingest' = "publish"
              /\ item.position = 0
              /\ SnapshotEnd => item.kind = "complete" /\ item.docs \in [{} -> Rows]
              /\ SnapshotBatch =>
                    /\ item.kind = "batch"
                    /\ \E rows \in SUBSET Docs : /\ item.docs = [d \in rows |-> db[d]]
                                                 /\ snapshot' = [snapshot EXCEPT !.rows = @ \ rows]
<1>1. db \in Contents
  BY DEF Typed
<1>2. CASE SnapshotEnd
  <2>1. outbox' = [item |-> Marker, to |-> snapshot.for] /\ ingest' = "publish"
    BY <1>2 DEF SnapshotEnd, Publish
  <2>2. /\ Marker \in Items /\ Marker.kind = "complete" /\ Marker.position = 0
        /\ Marker.docs \in [{} -> Rows]
    BY <1>1, ItemTypes
  <2>3. ~SnapshotBatch
    <3>1. outbox'.item.kind = "complete"
      BY <2>1, <2>2
    <3>2. SnapshotBatch => outbox'.item.kind = "batch"
      BY DEF SnapshotBatch, Publish, Batch
    <3> QED
      BY <3>1, <3>2
  <2> QED
    BY <2>1, <2>2, <2>3
<1>3. CASE SnapshotBatch
  <2>1. PICK rows \in (SUBSET snapshot.rows) \ {{}} :
            /\ Publish(Batch(rows, 0), snapshot.for)
            /\ snapshot' = [snapshot EXCEPT !.rows = @ \ rows]
    BY <1>3 DEF SnapshotBatch
  <2>2. rows \in SUBSET Docs
    BY <2>1 DEF Typed
  <2> DEFINE item == Batch(rows, 0)
  <2>3. /\ item \in Items /\ item.kind = "batch" /\ item.position = 0
        /\ item.docs = [d \in rows |-> db[d]]
    BY <1>1, <2>2, ItemTypes
  <2>4. outbox' = [item |-> item, to |-> snapshot.for] /\ ingest' = "publish"
    BY <2>1 DEF Publish
  <2> HIDE DEF item
  <2>5. ~SnapshotEnd
    <3>1. outbox'.item.kind = "batch"
      BY <2>3, <2>4
    <3>2. SnapshotEnd => outbox'.item.kind = "complete"
      BY DEF SnapshotEnd, Publish, Marker
    <3> QED
      BY <3>1, <3>2
  <2> QED
    BY <2>1, <2>2, <2>3, <2>4, <2>5
<1> QED
  BY <1>2, <1>3

\* The source and the supervisor keep the types.
LEMMA DaemonTyped ==
    ASSUME Typed, Control, Numbers,
           Write \/ Start \/ RunAll \/ Crash \/ SlotLostRunning \/ SlotLostDown \/ Drained
    PROVE  Typed'
<1>1. CASE Write
  <2>1. /\ db' \in Contents /\ wal' \in Seq(Docs) /\ Len(wal') = Len(wal) + 1
        /\ Len(wal) < MaxWrites
    BY <1>1, AppendProperties DEF Typed, Write, Contents
  <2>2. Len(wal') =< MaxWrites /\ read \in 0 .. Len(wal')
    BY <2>1, BoundsAssumption DEF Typed
  <2>3. UNCHANGED <<slot, store, daemon, sinkside, lanes, requestlane, ingestside, budget>>
    BY <1>1 DEF Write
  <2> QED
    BY <2>1, <2>2, <2>3 DEF Typed, daemon, sinkside, lanes, requestlane, ingestside
<1>2. CASE Start
  <2>1. engine' \in [Sinks -> Places] /\ \A s \in Sinks : engine'[s] # "item"
    BY <1>2 DEF Start, Places
  <2>2. phase' = "staging" /\ continuity' \in {"Fresh", "Resumed"}
    BY <1>2 DEF Start
  <2>3. UNCHANGED <<source, slot, store, outstanding, lanes, requestlane, ingestside, budget>>
    BY <1>2 DEF Start
  <2> QED
    BY <2>1, <2>2, <2>3 DEF Typed, source, lanes, requestlane, ingestside
<1>3. CASE RunAll
  <2>1. engine' \in [Sinks -> Places] /\ \A s \in Sinks : engine'[s] # "item"
    BY <1>3 DEF RunAll, Places
  <2>2. /\ phase' = "running" /\ ingest' = "open"
        /\ UNCHANGED <<source, slot, store, continuity, outstanding, lanes, requestlane,
                       stream, read, snapshot, outbox, budget>>
    BY <1>3 DEF RunAll
  <2> QED
    BY <2>1, <2>2 DEF Typed, source, lanes, requestlane
<1>4. CASE Crash
  <2>1. Gone /\ UNCHANGED <<db, wal, slot, store>> /\ Spend("faults", MaxFaults)
    BY <1>4 DEF Crash, source
  <2>2. slot' \in Nat \cup {NoSlot}
    BY <2>1 DEF Typed
  <2> QED
    BY <2>1, <2>2, SpendTyped, GoneTyped
<1>5. CASE SlotLostRunning
  <2>1. /\ IngestDown /\ Spend("losses", MaxLosses) /\ slot' \in Nat \cup {NoSlot}
        /\ UNCHANGED <<source, store, daemon, sinkside, lanes>>
    BY <1>5 DEF SlotLostRunning
  <2> QED
    BY <2>1, SpendTyped, DownTyped
<1>6. CASE SlotLostDown
  <2>1. /\ Spend("losses", MaxLosses) /\ slot' \in Nat \cup {NoSlot}
        /\ UNCHANGED <<source, store, daemon, sinkside, lanes, requestlane, ingestside>>
    BY <1>6 DEF SlotLostDown
  <2>2. budget' \in [{"faults", "reindexes", "losses"} -> Nat]
    BY <2>1, SpendTyped
  <2> QED
    BY <2>1, <2>2 DEF Typed, source, daemon, sinkside, lanes, requestlane, ingestside
<1>7. CASE Drained
  <2>1. Gone /\ UNCHANGED <<db, wal, store, budget>>
    BY <1>7 DEF Drained, source
  <2>2. slot' \in Nat
    BY <1>7, ConfirmedResult DEF Drained, Live
  <2>3. budget' \in [{"faults", "reindexes", "losses"} -> Nat]
    BY <2>1 DEF Typed
  <2> QED
    BY <2>1, <2>2, <2>3, GoneTyped
<1> QED
  BY <1>1, <1>2, <1>3, <1>4, <1>5, <1>6, <1>7

\* What a failed call can leave, place by place.
LEMMA LeftoverCases ==
    ASSUME NEW s \in Sinks, NEW left \in Leftovers(s)
    PROVE  /\ engine[s] = "stage" => left \in {store[s], Unstaled(s)}
           /\ engine[s] = "run" =>
                 \/ left = store[s]
                 \/ ~outstanding[s] /\ left = Reindexed(store[s])
           /\ engine[s] = "item" =>
                 \/ left \in {store[s], Processed(store[s], Head(lane[s]))}
                 \/ Head(lane[s]).kind = "complete" /\ left = Swapped(store[s])
<1>1. CASE engine[s] = "stage"
  <2>1. Leftovers(s) = {store[s], Unstaled(s)}
    BY <1>1 DEF Leftovers
  <2> QED
    BY <1>1, <2>1
<1>2. CASE engine[s] = "run"
  <2>1. Leftovers(s) =
            {store[s]} \cup (IF outstanding[s] THEN {} ELSE {Reindexed(store[s])})
    BY <1>2 DEF Leftovers
  <2> QED
    BY <1>2, <2>1
<1>3. CASE engine[s] = "item"
  <2>1. Leftovers(s) = HalfProcessed(store[s], Head(lane[s]))
    BY <1>3 DEF Leftovers
  <2> QED
    BY <1>3, <2>1 DEF HalfProcessed
<1> QED
  BY <1>1, <1>2, <1>3

\* A sink engine's step changes its own store, place and lane alone.
LEMMA SinkTyped ==
    ASSUME Typed, Control, NEW s \in Sinks,
           Sink(s) \/ Reindex(s) \/ SinkFail(s)
    PROVE  Typed'
<1>0. /\ store[s] \in Store /\ store \in [Sinks -> Store]
      /\ engine \in [Sinks -> Places] /\ outstanding \in [Sinks -> BOOLEAN]
      /\ lane \in [Sinks -> Seq(Items)] /\ lane[s] \in Seq(Items)
      /\ taken \in [Sinks -> BOOLEAN] /\ acked \in [Sinks -> Nat]
  BY DEF Typed
<1>1. CASE Stage(s)
  <2>1. Unstaled(s) \in Store
    BY <1>0, StoreResult DEF Unstaled
  <2>2. store' \in [Sinks -> Store]
    BY <1>0, <1>1, <2>1 DEF Stage
  <2>3. PICK place \in {"request", "staged", "run"} : engine' = [engine EXCEPT ![s] = place]
    BY <1>1 DEF Stage, AfterStage
  <2>4. engine' \in [Sinks -> Places] /\ \A x \in Sinks : engine'[x] = "item" => taken[x]
    BY <1>0, <2>3 DEF Places, Typed
  <2>5. UNCHANGED <<source, slot, daemon, outstanding, lanes, requestlane, ingestside, budget>>
    BY <1>1 DEF Stage
  <2> QED
    BY <2>2, <2>4, <2>5 DEF Typed, source, daemon, lanes, requestlane, ingestside
<1>2. CASE RequestBackfill(s)
  <2>1. PICK place \in {"staged", "run"} : engine' = [engine EXCEPT ![s] = place]
    BY <1>2 DEF RequestBackfill, AfterStage
  <2>2. engine' \in [Sinks -> Places] /\ \A x \in Sinks : engine'[x] = "item" => taken[x]
    BY <1>0, <2>1 DEF Places, Typed
  <2>3. /\ requests' \in Seq(Sinks) /\ Len(requests') = Len(requests) + 1
        /\ popped \in 0 .. Len(requests')
    BY <1>2, AppendProperties DEF Typed, RequestBackfill
  <2>4. outstanding' \in [Sinks -> BOOLEAN]
    BY <1>0, <1>2 DEF RequestBackfill
  <2>5. UNCHANGED <<source, slot, store, daemon, lanes, popped, held, ingestside, budget>>
    BY <1>2 DEF RequestBackfill
  <2> QED
    BY <2>2, <2>3, <2>4, <2>5 DEF Typed, source, daemon, lanes, ingestside
<1>3. CASE SinkRecv(s)
  <2>1. /\ engine' \in [Sinks -> Places] /\ taken' \in [Sinks -> BOOLEAN]
        /\ \A x \in Sinks : engine'[x] = "item" => taken'[x]
        /\ \A x \in Sinks : taken'[x] => lane[x] # <<>>
    BY <1>0, <1>3 DEF Places, Typed, SinkRecv
  <2>2. UNCHANGED <<source, slot, store, daemon, outstanding, lane, acked, requestlane,
                    ingestside, budget>>
    BY <1>3 DEF SinkRecv
  <2> QED
    BY <2>1, <2>2 DEF Typed, source, daemon, requestlane, ingestside
<1>4. CASE SinkCommit(s)
  <2>1. lane[s] # <<>>
    BY <1>4 DEF Typed, SinkCommit
  <2>2. Head(lane[s]) \in Items /\ Tail(lane[s]) \in Seq(Items)
    BY <1>0, <2>1, HeadTailProperties
  <2>3. store' \in [Sinks -> Store]
    BY <1>0, <1>4, <2>2, ProcessedResult DEF SinkCommit
  <2>4. /\ engine' \in [Sinks -> Places] /\ taken' \in [Sinks -> BOOLEAN]
        /\ \A x \in Sinks : engine'[x] = "item" => taken'[x]
    BY <1>0, <1>4 DEF Places, Typed, SinkCommit
  <2>5. lane' \in [Sinks -> Seq(Items)] /\ \A x \in Sinks : taken'[x] => lane'[x] # <<>>
    BY <1>0, <1>4, <2>2 DEF Typed, SinkCommit
  <2>6. Max({acked[s], Head(lane[s]).position}) \in Nat
    <3>1. acked[s] \in Nat /\ Head(lane[s]).position \in Nat
      BY <1>0, <2>2, ItemFields
    <3> QED
      BY <3>1, MaxOfTwo
  <2>7. acked' \in [Sinks -> Nat]
    BY <1>0, <1>4, <2>6 DEF SinkCommit
  <2>8. outstanding' \in [Sinks -> BOOLEAN]
    <3>1. (outstanding[s] /\ Head(lane[s]).kind # "complete") \in BOOLEAN
      OBVIOUS
    <3> QED
      BY <1>0, <1>4, <3>1 DEF SinkCommit
  <2>9. UNCHANGED <<source, slot, daemon, requestlane, ingestside, budget>>
    BY <1>4 DEF SinkCommit
  <2> QED
    BY <2>3, <2>4, <2>5, <2>7, <2>8, <2>9 DEF Typed, source, daemon, requestlane, ingestside
<1>5. CASE SinkRestart(s)
  <2>1. engine' \in [Sinks -> Places] /\ \A x \in Sinks : engine'[x] = "item" => taken[x]
    BY <1>0, <1>5 DEF Places, Typed, SinkRestart
  <2>2. UNCHANGED <<source, slot, store, daemon, outstanding, lanes, requestlane, ingestside,
                    budget>>
    BY <1>5 DEF SinkRestart
  <2> QED
    BY <2>1, <2>2 DEF Typed, source, daemon, lanes, requestlane, ingestside
<1>6. CASE Reindex(s)
  <2>1. store' \in [Sinks -> Store]
    BY <1>0, <1>6, StoreResult DEF Reindex
  <2>2. engine' \in [Sinks -> Places] /\ \A x \in Sinks : engine'[x] = "item" => taken[x]
    BY <1>0, <1>6 DEF Places, Typed, Reindex
  <2>3. UNCHANGED <<source, slot, daemon, outstanding, lanes, requestlane, ingestside>>
    BY <1>6 DEF Reindex
  <2>4. budget' \in [{"faults", "reindexes", "losses"} -> Nat]
    BY <1>6, SpendTyped DEF Reindex
  <2> QED
    BY <2>1, <2>2, <2>3, <2>4 DEF Typed, source, daemon, lanes, requestlane, ingestside
<1>7. CASE SinkFail(s)
  <2>1. PICK left \in Leftovers(s) : store' = [store EXCEPT ![s] = left]
    BY <1>7 DEF SinkFail
  <2>2. left \in Store
    <3>1. CASE engine[s] = "stage"
      <4>1. left \in {store[s], Unstaled(s)}
        BY <2>1, <3>1, LeftoverCases
      <4>2. Unstaled(s) \in Store
        BY <1>0, StoreResult DEF Unstaled
      <4> QED
        BY <1>0, <4>1, <4>2
    <3>2. CASE engine[s] = "run"
      <4>1. left \in {store[s], Reindexed(store[s])}
        BY <2>1, <3>2, LeftoverCases
      <4>2. Reindexed(store[s]) \in Store
        BY <1>0, StoreResult
      <4> QED
        BY <1>0, <4>1, <4>2
    <3>3. CASE engine[s] = "item"
      <4>1. Head(lane[s]) \in Items
        BY <1>0, <3>3, HeadTailProperties DEF Typed
      <4>2. left \in {store[s], Processed(store[s], Head(lane[s])), Swapped(store[s])}
        BY <2>1, <3>3, LeftoverCases
      <4>3. Swapped(store[s]) \in Store
        BY <1>0, StoreResult
      <4>4. Processed(store[s], Head(lane[s])) \in Store
        BY <1>0, <4>1, ProcessedResult
      <4> QED
        BY <1>0, <4>2, <4>3, <4>4
    <3> QED
      BY <1>7, <3>1, <3>2, <3>3 DEF SinkFail
  <2>3. store' \in [Sinks -> Store]
    BY <1>0, <2>1, <2>2
  <2>4. engine' \in [Sinks -> Places] /\ \A x \in Sinks : engine'[x] = "item" => taken[x]
    BY <1>0, <1>7 DEF Places, Typed, SinkFail
  <2>5. UNCHANGED <<source, slot, daemon, outstanding, lanes, requestlane, ingestside>>
    BY <1>7 DEF SinkFail
  <2>6. budget' \in [{"faults", "reindexes", "losses"} -> Nat]
    BY <1>7, SpendTyped DEF SinkFail
  <2> QED
    BY <2>3, <2>4, <2>5, <2>6 DEF Typed, source, daemon, lanes, requestlane, ingestside
<1> QED
  BY <1>1, <1>2, <1>3, <1>4, <1>5, <1>6, <1>7 DEF Sink

\* The ingest engine keeps the types.
LEMMA IngestTyped ==
    ASSUME Typed, Control, Numbers,
           Ingest \/ Confirm \/ IngestFail \/ LiveEnd
    PROVE  Typed'
<1>0. /\ db \in Contents /\ wal \in Seq(Docs) /\ Len(wal) \in Nat
      /\ stream \in Nat /\ read \in 0 .. Len(wal)
      /\ slot \in Nat \cup {NoSlot}
      /\ requests \in Seq(Sinks) /\ Len(requests) \in Nat
      /\ popped \in 0 .. Len(requests) /\ held \in 0 .. popped
      /\ snapshot \in [on : BOOLEAN, open : BOOLEAN, for : SUBSET Sinks, rows : SUBSET Docs]
      /\ outbox \in [item : Items, to : SUBSET Sinks]
      /\ NothingOut \in [item : Items, to : SUBSET Sinks]
  BY ItemTypes DEF Typed
<1>1. CASE IngestOpen
  <2>1. slot' \in Nat /\ slot' =< Len(wal)
    BY <1>0, <1>1 DEF IngestOpen, Numbers, NoSlot
  <2>2. /\ read' \in 0 .. Len(wal) /\ stream' \in Nat /\ ingest' = "loop"
        /\ UNCHANGED <<source, store, daemon, sinkside, lanes, requestlane, snapshot, outbox,
                       budget>>
    BY <1>0, <1>1, <2>1 DEF IngestOpen
  <2> QED
    BY <2>1, <2>2 DEF Typed, source, daemon, sinkside, lanes, requestlane
<1>2. CASE LiveBatch
  <2>1. PICK n \in (read + 1) .. Len(wal), item \in Items :
            outbox' = [item |-> item, to |-> Sinks] /\ ingest' = "publish" /\ read' = n
    BY <1>2, LiveItem
  <2>2. outbox' \in [item : Items, to : SUBSET Sinks] /\ read' \in 0 .. Len(wal)
    BY <1>0, <2>1
  <2>3. UNCHANGED <<source, slot, store, daemon, sinkside, lanes, requestlane, stream, snapshot,
                    budget>>
    BY <1>2 DEF LiveBatch
  <2> QED
    BY <2>1, <2>2, <2>3 DEF Typed, source, daemon, sinkside, lanes, requestlane
<1>3. CASE PublishedBatch
  <2>1. slot' \in Nat
    BY <1>3, ConfirmedResult DEF PublishedBatch, Live
  <2>2. /\ ingest' = "loop" /\ outbox' = NothingOut
        /\ UNCHANGED <<source, store, daemon, sinkside, lanes, requestlane, stream, read, snapshot,
                       budget>>
    BY <1>3 DEF PublishedBatch
  <2> QED
    BY <1>0, <2>1, <2>2 DEF Typed, source, daemon, sinkside, lanes, requestlane
<1>4. CASE TakeRequest
  <2>1. /\ held < Len(requests) /\ held' = held + 1 /\ popped' = Max({popped, held'})
        /\ ingest' = "collect"
        /\ UNCHANGED <<source, slot, store, daemon, sinkside, lanes, requests, stream, read,
                       snapshot, outbox, budget>>
    BY <1>4 DEF TakeRequest
  <2>2. held \in Nat /\ popped \in Nat /\ held' \in Nat /\ held' =< Len(requests)
    BY <1>0, <2>1
  <2>3. popped' = IF popped =< held' THEN held' ELSE popped
    BY <2>1, <2>2, MaxOfTwo
  <2>4. popped' \in 0 .. Len(requests') /\ held' \in 0 .. popped'
    BY <1>0, <2>1, <2>2, <2>3
  <2> QED
    BY <2>1, <2>4 DEF Typed, source, daemon, sinkside, lanes
<1>5. CASE StartSnapshot
  <2>1. Asked \in SUBSET Sinks
    BY <1>0, ElementOfSeq DEF Asked
  <2>2. snapshot' \in [on : BOOLEAN, open : BOOLEAN, for : SUBSET Sinks, rows : SUBSET Docs]
    <3>1. snapshot' = [on |-> TRUE, open |-> FALSE, for |-> Asked, rows |-> {}]
      BY <1>5 DEF StartSnapshot
    <3> QED
      BY <2>1, <3>1
  <2>3. /\ ingest' = "loop"
        /\ UNCHANGED <<source, slot, store, daemon, sinkside, lanes, requestlane, stream, read,
                       outbox, budget>>
    BY <1>5 DEF StartSnapshot
  <2> QED
    BY <2>2, <2>3 DEF Typed, source, daemon, sinkside, lanes, requestlane
<1>6. CASE SnapshotOpen
  <2> DEFINE present == {d \in Docs : db[d] # Absent}
  <2>1. present \in SUBSET Docs
    OBVIOUS
  <2>2. snapshot' = [snapshot EXCEPT !.open = TRUE, !.rows = present]
    BY <1>6 DEF SnapshotOpen
  <2> HIDE DEF present
  <2>3. snapshot' \in [on : BOOLEAN, open : BOOLEAN, for : SUBSET Sinks, rows : SUBSET Docs]
    BY <1>0, <2>1, <2>2
  <2>4. UNCHANGED <<source, slot, store, daemon, sinkside, lanes, requestlane, ingest, stream,
                    read, outbox, budget>>
    BY <1>6 DEF SnapshotOpen
  <2> QED
    BY <2>3, <2>4 DEF Typed, source, daemon, sinkside, lanes, requestlane
<1>7. CASE SnapshotBatch
  <2>1. PICK rows \in (SUBSET snapshot.rows) \ {{}} :
            /\ Publish(Batch(rows, 0), snapshot.for)
            /\ snapshot' = [snapshot EXCEPT !.rows = @ \ rows]
    BY <1>7 DEF SnapshotBatch
  <2>2. snapshot.rows \in SUBSET Docs /\ snapshot.for \in SUBSET Sinks
    BY <1>0
  <2>3. Batch(rows, 0) \in Items
    BY <1>0, <2>2, ItemTypes
  <2>4. outbox' \in [item : Items, to : SUBSET Sinks] /\ ingest' = "publish"
    BY <2>1, <2>2, <2>3 DEF Publish
  <2>5. snapshot.rows \ rows \in SUBSET Docs
    BY <2>2
  <2>6. snapshot' \in [on : BOOLEAN, open : BOOLEAN, for : SUBSET Sinks, rows : SUBSET Docs]
    BY <1>0, <2>1, <2>5
  <2>7. UNCHANGED <<source, slot, store, daemon, sinkside, lanes, requestlane, stream, read,
                    budget>>
    BY <1>7 DEF SnapshotBatch
  <2> QED
    BY <2>4, <2>6, <2>7 DEF Typed, source, daemon, sinkside, lanes, requestlane
<1>8. CASE SnapshotEnd
  <2>1. snapshot.for \in SUBSET Sinks /\ Marker \in Items
    BY <1>0, ItemTypes
  <2>2. outbox' \in [item : Items, to : SUBSET Sinks] /\ ingest' = "publish"
    BY <1>8, <2>1 DEF SnapshotEnd, Publish
  <2>3. UNCHANGED <<source, slot, store, daemon, sinkside, lanes, requestlane, stream, read,
                    snapshot, budget>>
    BY <1>8 DEF SnapshotEnd
  <2> QED
    BY <2>2, <2>3 DEF Typed, source, daemon, sinkside, lanes, requestlane
<1>9. CASE FinishSnapshot
  <2>1. /\ requests' = SubSeq(requests, held + 1, Len(requests))
        /\ popped' = popped - held /\ held' = 0
        /\ snapshot' = NoSnapshot /\ ingest' = "loop" /\ outbox' = NothingOut
        /\ UNCHANGED <<source, slot, store, daemon, sinkside, lanes, stream, read, budget>>
    BY <1>9 DEF FinishSnapshot
  <2>2. requests' \in Seq(Sinks) /\ Len(requests') = Len(requests) - held
    BY <1>0, <2>1, RestOfRequests
  <2>3. popped' \in 0 .. Len(requests') /\ held' \in 0 .. popped'
    BY <1>0, <2>1, <2>2
  <2>4. snapshot' \in [on : BOOLEAN, open : BOOLEAN, for : SUBSET Sinks, rows : SUBSET Docs]
    BY <2>1 DEF NoSnapshot
  <2> QED
    BY <1>0, <2>1, <2>2, <2>3, <2>4 DEF Typed, source, daemon, sinkside, lanes
<1>10. CASE IngestRestart
  <2>1. /\ ingest' = "open"
        /\ UNCHANGED <<source, slot, store, daemon, sinkside, lanes, requestlane, stream, read,
                       snapshot, outbox, budget>>
    BY <1>10 DEF IngestRestart
  <2> QED
    BY <2>1 DEF Typed, source, daemon, sinkside, lanes, requestlane
<1>11. CASE Confirm
  <2>1. slot' \in Nat
    BY <1>11, ConfirmedResult DEF Confirm, Live
  <2>2. UNCHANGED <<source, store, daemon, sinkside, lanes, requestlane, ingestside, budget>>
    BY <1>11 DEF Confirm
  <2> QED
    BY <2>1, <2>2 DEF Typed, source, daemon, sinkside, lanes, requestlane, ingestside
<1>12. CASE IngestFail
  <2>1. /\ IngestDown /\ Spend("faults", MaxFaults)
        /\ UNCHANGED <<source, slot, store, daemon, sinkside, lanes>>
    BY <1>12 DEF IngestFail
  <2> QED
    BY <1>0, <2>1, SpendTyped, DownTyped
<1>13. CASE LiveEnd
  <2>1. /\ ingest' = "ended" /\ Spend("faults", MaxFaults)
        /\ UNCHANGED <<source, slot, store, daemon, sinkside, lanes, requestlane, stream, read,
                       snapshot, outbox>>
    BY <1>13 DEF LiveEnd
  <2>2. budget' \in [{"faults", "reindexes", "losses"} -> Nat]
    BY <2>1, SpendTyped
  <2> QED
    BY <2>1, <2>2 DEF Typed, source, daemon, sinkside, lanes, requestlane
<1> QED
  BY <1>1, <1>2, <1>3, <1>4, <1>5, <1>6, <1>7, <1>8, <1>9, <1>10, <1>11, <1>12, <1>13 DEF Ingest

\* One lane takes the item being published.
LEMMA PublishTyped ==
    ASSUME Typed, NEW s \in Sinks, PublishTo(s)
    PROVE  Typed'
<1>1. /\ lane \in [Sinks -> Seq(Items)] /\ lane[s] \in Seq(Items)
      /\ outbox.item \in Items /\ outbox.to \in SUBSET Sinks
      /\ outbox \in [item : Items, to : SUBSET Sinks]
  BY DEF Typed
<1>2. /\ lane' = [lane EXCEPT ![s] = Append(@, outbox.item)]
      /\ outbox' = [outbox EXCEPT !.to = @ \ {s}]
      /\ UNCHANGED <<source, slot, store, daemon, sinkside, taken, acked, requestlane, ingest,
                     stream, read, snapshot, budget>>
  BY DEF PublishTo
<1>3. Append(lane[s], outbox.item) \in Seq(Items) /\ Append(lane[s], outbox.item) # <<>>
  BY <1>1, AppendProperties
<1>4. lane' \in [Sinks -> Seq(Items)] /\ \A x \in Sinks : taken[x] => lane'[x] # <<>>
  BY <1>1, <1>2, <1>3 DEF Typed
<1>5. outbox.to \ {s} \in SUBSET Sinks
  BY <1>1
<1>6. outbox' \in [item : Items, to : SUBSET Sinks]
  BY <1>1, <1>2, <1>5
<1> QED
  BY <1>2, <1>4, <1>6 DEF Typed, source, daemon, sinkside, requestlane

LEMMA NextTyped ==
    ASSUME Typed, Control, Numbers, [Next]_vars
    PROVE  Typed'
<1>1. CASE UNCHANGED vars
  BY <1>1 DEF vars, Typed, source, daemon, sinkside, lanes, requestlane, ingestside
<1> QED
  BY <1>1, DaemonTyped, SinkTyped, IngestTyped, PublishTyped DEF Next

LEMMA InitTyped == Init => Typed
<1> SUFFICES ASSUME Init PROVE Typed
  OBVIOUS
<1>1. Empty \in Contents
  BY DEF Empty, Contents, Rows
<1>2. store \in [Sinks -> Store]
  BY <1>1 DEF Init, Store
<1>3. /\ outbox \in [item : Items, to : SUBSET Sinks]
      /\ snapshot \in [on : BOOLEAN, open : BOOLEAN, for : SUBSET Sinks, rows : SUBSET Docs]
  BY ItemTypes DEF Init, NoSnapshot
<1>4. /\ wal \in Seq(Docs) /\ Len(wal) = 0 /\ requests \in Seq(Sinks) /\ Len(requests) = 0
      /\ lane \in [Sinks -> Seq(Items)]
  BY EmptySeq DEF Init
<1>5. /\ engine \in [Sinks -> Places] /\ outstanding \in [Sinks -> BOOLEAN]
      /\ taken \in [Sinks -> BOOLEAN] /\ acked \in [Sinks -> Nat]
      /\ \A s \in Sinks : ~taken[s] /\ engine[s] # "item"
  BY DEF Init, Places
<1>6. /\ Len(wal) =< MaxWrites /\ popped \in 0 .. Len(requests) /\ held \in 0 .. popped
      /\ read \in 0 .. Len(wal) /\ stream \in Nat /\ slot = NoSlot
  BY <1>4, BoundsAssumption DEF Init
<1>7. budget \in [{"faults", "reindexes", "losses"} -> Nat]
  BY DEF Init
<1> QED
  BY <1>2, <1>3, <1>4, <1>5, <1>6, <1>7 DEF Init, Typed

-----------------------------------------------------------------------------
(* The places of the engines and the supervisor.                           *)

\* A step that leaves the places of the supervisor and the ingest engine alone.
LEMMA ControlSame ==
    ASSUME Control, NEW s \in Sinks, NEW place \in {"stage", "backoff"}, engine \in [Sinks -> Places],
           engine' = [engine EXCEPT ![s] = place], phase # "down",
           UNCHANGED <<phase, outstanding, lane, acked, requests, held, ingest, snapshot, outbox>>
    PROVE  Control'
<1>1. Asked' = Asked /\ Answering' = Answering
  BY DEF Asked, Answering
<1>2. /\ engine'[s] = place
      /\ \A x \in Sinks : x # s => engine'[x] = engine[x]
  OBVIOUS
<1> QED
  BY <1>1, <1>2 DEF Control

\* A step of the snapshot reader.
LEMMA ControlSnapshot ==
    ASSUME Control, snapshot.on, snapshot'.on, snapshot'.for = snapshot.for,
           snapshot'.rows # {} => snapshot'.open,
           ingest = "loop",
           \/ ingest' = "publish" /\ outbox'.item.kind = "batch"
           \/ ingest' = "loop" /\ outbox' = outbox,
           UNCHANGED <<phase, engine, outstanding, lane, acked, requests, held>>
    PROVE  Control'
<1>1. Asked' = Asked
  BY DEF Asked
<1>2. ~Answering'
  BY DEF Answering
<1> QED
  BY <1>1, <1>2 DEF Control

LEMMA NextControl ==
    ASSUME Typed, Control, Typed', [Next]_vars
    PROVE  Control'
<1> USE ItemTypes
    DEF Typed, Control, Answering, Asked, AfterStage, NoSnapshot, NothingOut, Marker, Gone, IngestDown,
        Spend, Publish, source, daemon, sinkside, lanes, requestlane, ingestside
<1>1. CASE Write
  BY <1>1, SMTT(30) DEF Write
<1>2. CASE Start
  BY <1>2, SMTT(30) DEF Start
<1>3. CASE RunAll
  BY <1>3, SMTT(30) DEF RunAll
<1>4. CASE Crash
  BY <1>4, SMTT(30) DEF Crash
<1>5. CASE SlotLostRunning
  BY <1>5, SMTT(30) DEF SlotLostRunning
<1>6. CASE SlotLostDown
  BY <1>6, SMTT(30) DEF SlotLostDown
<1>7. CASE Drained
  BY <1>7, SMTT(30) DEF Drained
<1>8. CASE IngestOpen
  BY <1>8, SMTT(30) DEF IngestOpen
<1>9. CASE PublishedBatch
  BY <1>9, SMTT(30) DEF PublishedBatch
<1>10. CASE TakeRequest
  BY <1>10, SMTT(30) DEF TakeRequest
<1>11. CASE StartSnapshot
  BY <1>11, SMTT(30) DEF StartSnapshot
<1>12. CASE SnapshotEnd
  BY <1>12, SMTT(30) DEF SnapshotEnd
<1>13. CASE FinishSnapshot
  BY <1>13, SMTT(30) DEF FinishSnapshot
<1>14. CASE IngestRestart
  BY <1>14, SMTT(30) DEF IngestRestart
<1>15. CASE Confirm
  BY <1>15, SMTT(30) DEF Confirm
<1>16. CASE IngestFail
  BY <1>16, SMTT(30) DEF IngestFail
<1>17. CASE LiveEnd
  BY <1>17, SMTT(30) DEF LiveEnd
<1>18. CASE LiveBatch
  <2>1. PICK item \in Items : outbox' = [item |-> item, to |-> Sinks] /\ item.kind = "batch"
    BY <1>18, LiveItem DEF LiveBatch
  <2>2. ingest = "loop" /\ ingest' = "publish"
    BY <1>18 DEF LiveBatch
  <2>3. UNCHANGED <<phase, engine, outstanding, lane, acked, requests, held, snapshot>>
    BY <1>18 DEF LiveBatch
  <2>4. Asked' = Asked
    BY <2>3
  <2> QED
    BY <2>1, <2>2, <2>3, <2>4, SMTT(30)
<1>19. CASE SnapshotOpen
  <2> DEFINE present == {d \in Docs : db[d] # Absent}
  <2>1. snapshot' = [snapshot EXCEPT !.open = TRUE, !.rows = present] /\ snapshot.on
    BY <1>19 DEF SnapshotOpen
  <2> HIDE DEF present
  <2>2. /\ ingest = "loop" /\ snapshot'.on /\ snapshot'.open /\ snapshot'.for = snapshot.for
        /\ UNCHANGED <<phase, engine, outstanding, lane, acked, requests, held, ingest, outbox>>
    BY <1>19, <2>1 DEF SnapshotOpen
  <2> QED
    BY <2>1, <2>2, ControlSnapshot
<1>20. CASE SnapshotBatch
  <2>1. PICK rows \in (SUBSET snapshot.rows) \ {{}} :
            /\ outbox' = [item |-> Batch(rows, 0), to |-> snapshot.for]
            /\ snapshot' = [snapshot EXCEPT !.rows = @ \ rows]
    BY <1>20 DEF SnapshotBatch
  <2>2. Batch(rows, 0).kind = "batch"
    BY DEF Batch
  <2>3. snapshot'.on = snapshot.on /\ snapshot'.open = snapshot.open /\ snapshot'.for = snapshot.for
    BY <2>1
  <2>4. ingest = "loop" /\ ingest' = "publish"
    BY <1>20 DEF SnapshotBatch
  <2>6. outbox'.item.kind = "batch"
    BY <2>1, <2>2
  <2>7. snapshot.rows # {}
    BY <2>1
  <2>5. UNCHANGED <<phase, engine, outstanding, lane, acked, requests, held>>
    BY <1>20 DEF SnapshotBatch
  <2> QED
    BY <2>3, <2>4, <2>5, <2>6, <2>7, ControlSnapshot
<1>21. ASSUME NEW s \in Sinks, Sink(s) \/ Reindex(s) \/ SinkFail(s) \/ PublishTo(s)
      PROVE  Control'
  <2>1. CASE Stage(s)
    BY <2>1, SMTT(30) DEF Stage
  <2>2. CASE RequestBackfill(s)
    BY <2>2, SMTT(30) DEF RequestBackfill
  <2>3. CASE SinkRecv(s)
    BY <2>3, SMTT(30) DEF SinkRecv
  <2>4. CASE SinkCommit(s)
    BY <2>4, SMTT(30) DEF SinkCommit
  <2>5. CASE Reindex(s)
    BY <2>5, SMTT(30) DEF Reindex
  <2>6. CASE SinkFail(s)
    BY <2>6, SMTT(30) DEF SinkFail
  <2>7. CASE PublishTo(s)
    BY <2>7, SMTT(30) DEF PublishTo
  <2>8. CASE SinkRestart(s)
    <3>1. engine' = [engine EXCEPT ![s] = "stage"]
      BY <2>8 DEF SinkRestart
    <3>2. UNCHANGED <<phase, outstanding, lane, acked, requests, held, ingest, snapshot, outbox>>
      BY <2>8 DEF SinkRestart
    <3>3. phase # "down" /\ engine \in [Sinks -> Places]
      BY <2>8 DEF SinkRestart
    <3> QED
      BY <3>1, <3>2, <3>3, ControlSame
  <2> QED
    BY <1>21, <2>1, <2>2, <2>3, <2>4, <2>5, <2>6, <2>7, <2>8 DEF Sink
<1>22. CASE UNCHANGED vars
  BY <1>22 DEF vars
<1> QED
  BY <1>1, <1>2, <1>3, <1>4, <1>5, <1>6, <1>7, <1>8, <1>9, <1>10, <1>11, <1>12, <1>13, <1>14, <1>15, <1>16, <1>17, <1>18, <1>19, <1>20, <1>21, <1>22 DEF Next, Ingest

-----------------------------------------------------------------------------
(* What a step makes of the pipes.                                         *)

LEMMA PipeTypes ==
    ASSUME Typed, NEW s \in Sinks
    PROVE  /\ Pipe(s) \in Seq(Items) /\ Len(Pipe(s)) \in Nat
           /\ lane[s] \in Seq(Items)
           /\ lane[s] # <<>> => Pipe(s) # <<>> /\ Head(Pipe(s)) = Head(lane[s])
<1>1. lane[s] \in Seq(Items) /\ outbox.item \in Items
  BY DEF Typed
<1> DEFINE last == IF s \in outbox.to THEN <<outbox.item>> ELSE <<>>
<1>2. last \in Seq(Items)
  BY <1>1
<1> HIDE DEF last
<1>3. Pipe(s) = lane[s] \o last
  BY DEF Pipe, last
<1>4. /\ Pipe(s) \in Seq(Items) /\ Len(Pipe(s)) = Len(lane[s]) + Len(last)
      /\ \A i \in 1 .. Len(lane[s]) : Pipe(s)[i] = lane[s][i]
  BY <1>1, <1>2, <1>3, ConcatProperties
<1>5. Len(Pipe(s)) \in Nat /\ Len(lane[s]) \in Nat /\ Len(last) \in Nat
  BY <1>1, <1>2, <1>4, LenProperties
<1>6. ASSUME lane[s] # <<>>
      PROVE  Pipe(s) # <<>> /\ Head(Pipe(s)) = Head(lane[s])
  <2>1. Len(lane[s]) >= 1 /\ Len(Pipe(s)) >= 1
    BY <1>1, <1>4, <1>5, <1>6, EmptySeq
  <2>2. Pipe(s)[1] = lane[s][1]
    BY <1>4, <1>5, <2>1
  <2> QED
    BY <1>1, <1>4, <2>1, <2>2
<1> QED
  BY <1>1, <1>4, <1>5, <1>6

\* A step that publishes nothing new and takes nothing off a lane.
LEMMA PipeSame ==
    ASSUME Typed, NEW s \in Sinks, lane'[s] = lane[s],
           \/ outbox' = outbox
           \/ outbox = NothingOut /\ outbox' = NothingOut
           \/ outbox.to = {} /\ outbox' = NothingOut
    PROVE  Pipe(s)' = Pipe(s)
<1>1. CASE outbox' = outbox
  BY <1>1 DEF Pipe
<1>2. CASE outbox.to = {} /\ outbox'.to = {}
  BY <1>2 DEF Pipe
<1>3. NothingOut.to = {}
  BY DEF NothingOut
<1> QED
  BY <1>1, <1>2, <1>3

\* An item handed to a lane was on its way to it already.
LEMMA PipePublished ==
    ASSUME Typed, NEW s \in Sinks, NEW t \in Sinks, PublishTo(t)
    PROVE  Pipe(s)' = Pipe(s)
<1>1. /\ lane' = [lane EXCEPT ![t] = Append(@, outbox.item)]
      /\ outbox' = [outbox EXCEPT !.to = @ \ {t}]
      /\ t \in outbox.to
  BY DEF PublishTo
<1>2. /\ lane \in [Sinks -> Seq(Items)] /\ lane[t] \in Seq(Items)
      /\ outbox.item \in Items /\ outbox \in [item : Items, to : SUBSET Sinks]
  BY DEF Typed
<1>3. outbox'.item = outbox.item /\ outbox'.to = outbox.to \ {t}
  BY <1>1, <1>2
<1>4. CASE s = t
  <2>1. lane'[s] = Append(lane[s], outbox.item) /\ s \notin outbox'.to /\ s \in outbox.to
    BY <1>1, <1>2, <1>3, <1>4
  <2>2. Append(lane[s], outbox.item) \in Seq(Items)
    BY <1>2, <1>4, AppendProperties
  <2>3. Pipe(s)' = Append(lane[s], outbox.item) \o <<>>
    BY <2>1 DEF Pipe
  <2>4. Pipe(s)' = Append(lane[s], outbox.item)
    BY <2>2, <2>3, ConcatEmptySeq
  <2>5. Pipe(s) = lane[s] \o <<outbox.item>>
    BY <2>1 DEF Pipe
  <2> QED
    BY <1>2, <1>4, <2>4, <2>5, AppendIsConcat
<1>5. CASE s # t
  BY <1>1, <1>2, <1>3, <1>5 DEF Pipe
<1> QED
  BY <1>4, <1>5

\* A new item goes behind everything on its way to the sinks it is for.
LEMMA PipeGrows ==
    ASSUME Typed, NEW s \in Sinks, lane'[s] = lane[s], outbox = NothingOut,
           NEW item, NEW to, outbox' = [item |-> item, to |-> to], item \in Items
    PROVE  Pipe(s)' = IF s \in to THEN Append(Pipe(s), item) ELSE Pipe(s)
<1>1. lane[s] \in Seq(Items) /\ outbox'.item = item /\ outbox'.to = to /\ outbox.to = {}
  BY DEF Typed, NothingOut
<1>2. Pipe(s) = lane[s] \o <<>>
  BY <1>1 DEF Pipe
<1>3. Pipe(s) = lane[s]
  BY <1>1, <1>2, ConcatEmptySeq
<1>4. CASE s \in to
  <2>1. Pipe(s)' = lane[s] \o <<item>>
    BY <1>1, <1>4 DEF Pipe
  <2> QED
    BY <1>1, <1>3, <1>4, <2>1, AppendIsConcat
<1>5. CASE s \notin to
  <2>1. Pipe(s)' = lane[s] \o <<>>
    BY <1>1, <1>5 DEF Pipe
  <2> QED
    BY <1>2, <1>5, <2>1
<1> QED
  BY <1>4, <1>5

\* The item a sink commits is the first on its way to it.
LEMMA PipeDrops ==
    ASSUME Typed, NEW s \in Sinks, NEW t \in Sinks, SinkCommit(t)
    PROVE  /\ Pipe(s)' = IF s = t THEN Tail(Pipe(s)) ELSE Pipe(s)
           /\ Pipe(t) # <<>> /\ Head(Pipe(t)) = Head(lane[t]) /\ Head(lane[t]) \in Items
<1>1. /\ lane \in [Sinks -> Seq(Items)] /\ lane[t] \in Seq(Items) /\ outbox.item \in Items
      /\ lane[t] # <<>> /\ lane' = [lane EXCEPT ![t] = Tail(@)] /\ outbox' = outbox
  BY DEF Typed, SinkCommit, ingestside
<1>2. Pipe(t) # <<>> /\ Head(Pipe(t)) = Head(lane[t])
  BY <1>1, PipeTypes
<1>3. Head(lane[t]) \in Items
  BY <1>1, HeadTailProperties
<1>4. CASE s = t
  <2> DEFINE last == IF s \in outbox.to THEN <<outbox.item>> ELSE <<>>
  <2>1. last \in Seq(Items)
    BY <1>1
  <2>2. Pipe(s)' = Tail(lane[t]) \o last /\ Pipe(s) = lane[t] \o last
    BY <1>1, <1>4 DEF Pipe
  <2> HIDE DEF last
  <2>3. Tail(lane[t] \o last) = Tail(lane[t]) \o last
    BY <1>1, <2>1
  <2> QED
    BY <1>2, <1>3, <1>4, <2>2, <2>3
<1>5. CASE s # t
  BY <1>1, <1>2, <1>3, <1>5 DEF Pipe
<1> QED
  BY <1>4, <1>5

LEMMA PipeGone ==
    ASSUME Crash \/ Drained, NEW s \in Sinks
    PROVE  Pipe(s)' = <<>>
<1>1. lane'[s] = <<>> /\ outbox' = NothingOut
  BY DEF Crash, Drained, Gone
<1>2. Pipe(s)' = <<>> \o <<>>
  BY <1>1 DEF Pipe, NothingOut
<1> QED
  BY <1>2, EmptySeq, ConcatEmptySeq

\* The steps that change what is on its way to a sink.
LEMMA PipeStep ==
    ASSUME Typed, Control, [Next]_vars, NEW s \in Sinks
    PROVE  \/ (Crash \/ Drained) /\ Pipe(s)' = <<>>
           \/ LiveBatch \/ SnapshotBatch \/ SnapshotEnd
           \/ \E t \in Sinks : SinkCommit(t)
           \/ ~Crash /\ ~Drained /\ Pipe(s)' = Pipe(s)
<1>1. CASE Crash \/ Drained
  BY <1>1, PipeGone
<1> SUFFICES ASSUME ~Crash, ~Drained
             PROVE  \/ LiveBatch \/ SnapshotBatch \/ SnapshotEnd
                    \/ \E t \in Sinks : SinkCommit(t)
                    \/ Pipe(s)' = Pipe(s)
  BY <1>1
<1>2. CASE \/ Write \/ Start \/ RunAll \/ SlotLostDown
           \/ IngestOpen \/ TakeRequest \/ StartSnapshot \/ SnapshotOpen
           \/ IngestRestart \/ Confirm \/ LiveEnd
  <2>1. lane' = lane /\ outbox' = outbox
    BY <1>2 DEF Write, Start, RunAll, SlotLostDown, IngestOpen, TakeRequest, StartSnapshot,
                SnapshotOpen, IngestRestart, Confirm, LiveEnd, lanes, ingestside
  <2> QED
    BY <2>1, PipeSame
<1>3. CASE SlotLostRunning \/ IngestFail
  <2>1. lane' = lane /\ outbox' = NothingOut /\ outbox = NothingOut
    BY <1>3 DEF SlotLostRunning, IngestFail, IngestDown, Control, lanes
  <2> QED
    BY <2>1, PipeSame
<1>4. CASE PublishedBatch \/ FinishSnapshot
  <2>1. lane' = lane /\ outbox' = NothingOut /\ outbox.to = {}
    BY <1>4 DEF PublishedBatch, FinishSnapshot, lanes
  <2> QED
    BY <2>1, PipeSame
<1>5. CASE \E t \in Sinks : \/ Stage(t) \/ RequestBackfill(t) \/ SinkRecv(t) \/ SinkRestart(t)
                            \/ Reindex(t) \/ SinkFail(t)
  <2>1. lane' = lane /\ outbox' = outbox
    BY <1>5 DEF Stage, RequestBackfill, SinkRecv, SinkRestart, Reindex, SinkFail, lanes, ingestside
  <2> QED
    BY <2>1, PipeSame
<1>6. CASE \E t \in Sinks : PublishTo(t)
  BY <1>6, PipePublished
<1>7. CASE UNCHANGED vars
  <2>1. lane' = lane /\ outbox' = outbox
    BY <1>7 DEF vars, lanes, ingestside
  <2> QED
    BY <2>1, PipeSame
<1> QED
  BY <1>1, <1>2, <1>3, <1>4, <1>5, <1>6, <1>7 DEF Next, Ingest, Sink

\* The steps that move the slot or an acknowledgement, or open and end streams.
LEMMA NumbersStep ==
    ASSUME Control, [Next]_vars
    PROVE  \/ Crash \/ Drained \/ SlotLostRunning \/ SlotLostDown \/ IngestOpen \/ LiveBatch
           \/ PublishedBatch \/ Confirm \/ IngestFail
           \/ \E t \in Sinks : SinkCommit(t)
           \/ Write
           \/ UNCHANGED <<db, wal, slot, acked, stream, read, Live>>
<1>1. CASE \/ Start \/ SnapshotOpen
  BY <1>1 DEF Start, SnapshotOpen, source, lanes, ingestside, Live
<1>2. CASE \/ RunAll \/ TakeRequest \/ StartSnapshot \/ IngestRestart \/ LiveEnd \/ SnapshotBatch
           \/ SnapshotEnd \/ FinishSnapshot
  BY <1>2 DEF RunAll, TakeRequest, StartSnapshot, IngestRestart, LiveEnd, SnapshotBatch,
              SnapshotEnd, FinishSnapshot, Publish, source, lanes, Live, Control
<1>3. CASE \E t \in Sinks : \/ Stage(t) \/ RequestBackfill(t) \/ SinkRecv(t) \/ SinkRestart(t)
                            \/ Reindex(t) \/ SinkFail(t) \/ PublishTo(t)
  BY <1>3 DEF Stage, RequestBackfill, SinkRecv, SinkRestart, Reindex, SinkFail, PublishTo,
              source, lanes, ingestside, Live
<1>4. CASE UNCHANGED vars
  BY <1>4 DEF vars, source, lanes, ingestside, Live
<1> QED
  BY <1>1, <1>2, <1>3, <1>4 DEF Next, Ingest, Sink

-----------------------------------------------------------------------------
(* The slot, what was read and the positions.                              *)

\* Top only grows until the process is gone.
LEMMA TopGrows ==
    ASSUME Typed, Control, Numbers, Typed', [Next]_vars
    PROVE  /\ Top \in Nat /\ Top' \in Nat
           /\ Crash \/ Drained \/ Top =< Top'
<1>1. /\ stream \in Nat /\ read \in Nat /\ read =< MaxWrites
      /\ stream' \in Nat /\ read' \in Nat /\ read' =< MaxWrites
      /\ MaxWrites \in Nat
  <2>1. MaxWrites \in Nat
    BY BoundsAssumption
  <2>2. stream \in Nat /\ read \in Nat /\ read =< MaxWrites
    BY <2>1 DEF Typed
  <2>3. stream' \in Nat /\ read' \in Nat /\ read' =< MaxWrites
    BY <2>1 DEF Typed
  <2> QED
    BY <2>1, <2>2, <2>3
<1>2. \A n \in Nat : Position(n) \in Nat /\ Position(n) = Position(0) + n
  BY <1>1, PositionFacts
<1>3. Position(0) \in Nat /\ Position(read)' \in Nat /\ Position(MaxWrites)' \in Nat
  <2>1. \A a, b, n \in Nat : a * b + n \in Nat
    <3>1. \A a, b \in Nat : a * b \in Nat
      OBVIOUS
    <3>2. \A c, n \in Nat : c + n \in Nat
      OBVIOUS
    <3> QED
      BY <3>1, <3>2, Zenon
  <2>2. MaxWrites + 1 \in Nat
    BY <1>1
  <2>3. stream' * (MaxWrites + 1) + read' \in Nat /\ stream' * (MaxWrites + 1) + MaxWrites \in Nat
    BY <1>1, <2>1, <2>2, Zenon
  <2> QED
    <3>1. Position(0) \in Nat
      BY <1>2
    <3>2. Position(read)' \in Nat /\ Position(MaxWrites)' \in Nat
      BY <2>3 DEF Position
    <3> QED
      BY <3>1, <3>2
<1>4. Top \in Nat /\ Top' \in Nat
  BY <1>1, <1>2, <1>3 DEF Top
<1>5. CASE IngestOpen
  <2>1. ~Live /\ Live' /\ stream' = stream + 1
    BY <1>5 DEF IngestOpen, Live
  <2>2. Position(read)' = Position(MaxWrites) + 1 + read'
    BY <1>1, <2>1, BoundsAssumption DEF Position
  <2> QED
    BY <1>1, <1>2, <1>4, <2>1, <2>2 DEF Top
<1>6. CASE stream' = stream /\ (Live' => Live /\ read =< read')
  <2>1. Position(read)' = Position(read') /\ Position(MaxWrites)' = Position(MaxWrites)
    BY <1>6 DEF Position
  <2> QED
    BY <1>1, <1>2, <1>4, <1>6, <2>1 DEF Top
<1>7. CASE \/ SlotLostRunning \/ IngestFail \/ SlotLostDown
  BY <1>6, <1>7 DEF SlotLostRunning, IngestFail, SlotLostDown, IngestDown, Live, ingestside, Control
<1>8. CASE LiveBatch
  <2>1. stream' = stream /\ ingest = "loop" /\ read' \in (read + 1) .. Len(wal)
    BY <1>8 DEF LiveBatch
  <2>2. Len(wal) \in Nat
    BY DEF Typed
  <2> QED
    BY <1>1, <1>6, <2>1, <2>2 DEF Live
<1>9. CASE PublishedBatch \/ Confirm \/ Write \/ \E t \in Sinks : SinkCommit(t)
  <2>1. stream' = stream /\ read' = read /\ (Live' => Live)
    BY <1>9 DEF PublishedBatch, Confirm, Write, SinkCommit, Live, ingestside
  <2> QED
    BY <1>1, <1>6, <2>1
<1>10. CASE UNCHANGED <<stream, read, Live>>
  BY <1>1, <1>6, <1>10
<1> QED
  BY <1>4, <1>5, <1>7, <1>8, <1>9, <1>10, NumbersStep

LEMMA NextNumbers ==
    ASSUME Typed, Control, Numbers, Typed', [Next]_vars
    PROVE  Numbers'
<1>0. /\ wal \in Seq(Docs) /\ Len(wal) \in Nat /\ read \in Nat /\ read =< Len(wal)
      /\ slot \in Nat \cup {NoSlot} /\ NoSlot \notin Nat
      /\ acked \in [Sinks -> Nat] /\ stream \in Nat
  BY DEF Typed, NoSlot
<1>1. /\ slot' # NoSlot => slot' =< Len(wal')
      /\ Live' => slot' # NoSlot /\ slot' =< read'
  <2>1. CASE Crash \/ Drained \/ SlotLostDown
    <3>1. ~Live'
      BY <2>1 DEF Crash, Drained, SlotLostDown, Gone, ingestside, Control, Live
    <3>2. \/ slot' \in {slot, NoSlot}
          \/ Drained /\ slot' = Confirmed
      <4>1. Crash => slot' = slot
        BY DEF Crash
      <4>2. SlotLostDown => slot' = NoSlot
        BY DEF SlotLostDown
      <4>3. Drained => slot' = Confirmed
        BY DEF Drained
      <4> QED
        BY <2>1, <4>1, <4>2, <4>3
    <3>3. wal' = wal
      BY <2>1 DEF Crash, Drained, SlotLostDown, source
    <3>4. Drained => Confirmed \in Nat /\ Confirmed =< read
      BY ConfirmedResult DEF Drained, Live
    <3> QED
      BY <1>0, <3>1, <3>2, <3>3, <3>4 DEF Numbers
  <2>2. CASE SlotLostRunning \/ IngestFail
    BY <1>0, <2>2 DEF SlotLostRunning, IngestFail, IngestDown, Live, source, Numbers
  <2>3. CASE IngestOpen
    BY <1>0, <2>3 DEF IngestOpen, source, Numbers
  <2>4. CASE LiveBatch
    <3>1. slot' = slot /\ wal' = wal /\ read' \in (read + 1) .. Len(wal) /\ Live
      BY <2>4 DEF LiveBatch, source, Live
    <3> QED
      BY <1>0, <3>1 DEF Numbers
  <2>5. CASE PublishedBatch \/ Confirm
    <3>1. slot' \in {slot, Confirmed} /\ wal' = wal /\ read' = read /\ Live
      BY <2>5 DEF PublishedBatch, Confirm, source, ingestside, Live
    <3> QED
      BY <1>0, <3>1, ConfirmedResult DEF Numbers
  <2>6. CASE Write
    <3>1. Len(wal') = Len(wal) + 1 /\ slot' = slot /\ read' = read /\ Live' = Live
      BY <1>0, <2>6 DEF Write, ingestside, Live
    <3> QED
      BY <1>0, <3>1 DEF Numbers
  <2>7. CASE \E t \in Sinks : SinkCommit(t)
    <3>1. UNCHANGED <<wal, slot, read, ingest>>
      BY <2>7 DEF SinkCommit, source, ingestside
    <3> QED
      BY <1>0, <3>1 DEF Numbers, Live
  <2>8. CASE UNCHANGED <<db, wal, slot, acked, stream, read, Live>>
    BY <1>0, <2>8 DEF Numbers
  <2> QED
    BY <2>1, <2>2, <2>3, <2>4, <2>5, <2>6, <2>7, <2>8, NumbersStep
<1>2. ASSUME NEW s \in Sinks
      PROVE  acked'[s] =< Top'
  <2>1. acked'[s] \in Nat /\ acked[s] \in Nat /\ acked[s] =< Top /\ Top \in Nat /\ Top' \in Nat
    BY <1>0, TopGrows DEF Typed, Numbers
  <2>2. CASE Crash \/ Drained
    <3>1. acked'[s] = 0
      BY <2>2 DEF Crash, Drained, Gone
    <3> QED
      BY <2>1, <3>1
  <2>3. CASE acked'[s] = acked[s] /\ Top =< Top'
    BY <2>1, <2>3
  <2>4. CASE \E t \in Sinks : SinkCommit(t)
    <3>1. PICK t \in Sinks : SinkCommit(t)
      BY <2>4
    <3>2. UNCHANGED <<ingest, read, stream>> /\ Top' = Top
      BY <3>1 DEF SinkCommit, ingestside, Top, Live, Position
    <3>3. CASE s = t
      <4>1. Pipe(t)[1] = Head(lane[t]) /\ 1 \in 1 .. Len(Pipe(t)) /\ Head(lane[t]) \in Items
        BY <3>1, PipeTypes, PipeDrops
      <4>2. Head(lane[t]).position =< Top /\ Head(lane[t]).position \in Nat
        BY <4>1, ItemFields DEF Numbers
      <4>3. acked'[s] = Max({acked[s], Head(lane[t]).position})
        BY <1>0, <3>1, <3>3 DEF SinkCommit
      <4> QED
        BY <2>1, <3>2, <4>2, <4>3, MaxOfTwo
    <3>4. CASE s # t
      BY <1>0, <2>1, <3>1, <3>2, <3>4 DEF SinkCommit
    <3> QED
      BY <3>3, <3>4
  <2>5. CASE \/ SlotLostRunning \/ SlotLostDown \/ IngestOpen \/ LiveBatch
             \/ PublishedBatch \/ Confirm \/ IngestFail \/ Write
    <3>1. acked' = acked
      BY <2>5 DEF SlotLostRunning, SlotLostDown, IngestOpen, LiveBatch, PublishedBatch, Confirm,
                  IngestFail, Write, lanes
    <3> QED
      BY <2>2, <2>3, <3>1, TopGrows
  <2>6. CASE UNCHANGED <<db, wal, slot, acked, stream, read, Live>>
    BY <2>2, <2>3, <2>6, TopGrows
  <2> QED
    BY <2>2, <2>4, <2>5, <2>6, NumbersStep
<1>3. ASSUME NEW s \in Sinks, NEW k \in 1 .. Len(Pipe(s)')
      PROVE  Pipe(s)'[k].position =< Top'
  <2>1. /\ Pipe(s) \in Seq(Items) /\ Len(Pipe(s)) \in Nat /\ Top \in Nat /\ Top' \in Nat
        /\ \A i \in 1 .. Len(Pipe(s)) : Pipe(s)[i].position =< Top /\ Pipe(s)[i].position \in Nat
    BY PipeTypes, TopGrows, ItemFields, ElementOfSeq DEF Numbers
  <2>2. CASE (Crash \/ Drained) /\ Pipe(s)' = <<>>
    BY <2>2
  <2>3. CASE ~Crash /\ ~Drained /\ Pipe(s)' = Pipe(s)
    BY <2>1, <2>3, TopGrows
  <2>4. ASSUME NEW item \in Items, item.position =< Top', Top =< Top',
               Pipe(s)' \in {Pipe(s), Append(Pipe(s), item)}
        PROVE  Pipe(s)'[k].position =< Top'
    <3>1. CASE Pipe(s)' = Append(Pipe(s), item)
      BY <2>1, <2>4, <3>1
    <3> QED
      BY <2>1, <2>4, <3>1
  <2>5. CASE LiveBatch
    <3>1. PICK n \in (read + 1) .. Len(wal), item \in Items :
              /\ outbox' = [item |-> item, to |-> Sinks] /\ ingest' = "publish" /\ read' = n
              /\ item.position = Position(n)
      BY <2>5, LiveItem
    <3>2. lane' = lane /\ outbox = NothingOut /\ stream' = stream /\ ingest = "loop"
      BY <2>5 DEF LiveBatch, lanes, Control
    <3>3. Pipe(s)' = Append(Pipe(s), item)
      BY <3>1, <3>2, PipeGrows
    <3>4. Top' = Position(n)
      BY <3>1, <3>2 DEF Top, Live, Position
    <3>5. ~Crash /\ ~Drained
      BY <3>1 DEF Crash, Drained, Gone
    <3> QED
      BY <2>1, <2>4, <3>1, <3>3, <3>4, <3>5, TopGrows
  <2>6. CASE SnapshotBatch \/ SnapshotEnd
    <3>1. PICK item \in Items : outbox' = [item |-> item, to |-> snapshot.for] /\ item.position = 0
      BY <2>6, SnapshotItem
    <3>2. lane' = lane /\ outbox = NothingOut /\ ingest' = "publish"
      BY <2>6 DEF SnapshotBatch, SnapshotEnd, Publish, lanes, Control
    <3>3. Pipe(s)' \in {Pipe(s), Append(Pipe(s), item)}
      BY <3>1, <3>2, PipeGrows
    <3>4. ~Crash /\ ~Drained
      BY <3>2 DEF Crash, Drained, Gone
    <3> QED
      BY <2>1, <2>4, <3>1, <3>3, <3>4, TopGrows
  <2>7. CASE \E t \in Sinks : SinkCommit(t)
    <3>1. PICK t \in Sinks : SinkCommit(t)
      BY <2>7
    <3>2. Top' = Top
      BY <3>1 DEF SinkCommit, ingestside, Top, Live, Position
    <3>3. Pipe(s)' \in {Pipe(s), Tail(Pipe(s))} /\ (Pipe(s)' = Tail(Pipe(s)) => Pipe(s) # <<>>)
      BY <3>1, PipeDrops
    <3> QED
      BY <2>1, <3>2, <3>3
  <2> QED
    BY <2>2, <2>3, <2>5, <2>6, <2>7, PipeStep
<1> QED
  BY <1>1, <1>2, <1>3 DEF Numbers

-----------------------------------------------------------------------------
(* Requests and markers.                                                   *)

LEMMA MarkedResult ==
    /\ ~Marked(<<>>) /\ OneMarker(<<>>)
    /\ \A items \in Seq(Items), x \in Items :
          /\ Marked(Append(items, x)) = (Marked(items) \/ x.kind = "complete")
          /\ OneMarker(items) /\ ~(Marked(items) /\ x.kind = "complete") =>
                OneMarker(Append(items, x))
    /\ \A items \in Seq(Items) : items # <<>> /\ OneMarker(items) =>
          /\ Marked(Tail(items)) = (Marked(items) /\ Head(items).kind # "complete")
          /\ OneMarker(Tail(items))
<1>1. ~Marked(<<>>) /\ OneMarker(<<>>)
  BY DEF Marked, OneMarker
<1>2. ASSUME NEW items \in Seq(Items), NEW x \in Items
      PROVE  /\ Marked(Append(items, x)) = (Marked(items) \/ x.kind = "complete")
             /\ OneMarker(items) /\ ~(Marked(items) /\ x.kind = "complete") =>
                   OneMarker(Append(items, x))
  <2> DEFINE n == Len(items)
             new == Append(items, x)
  <2>1. /\ n \in Nat /\ Len(new) = n + 1 /\ new[n + 1] = x
        /\ \A k \in 1 .. n : new[k] = items[k]
    BY AppendProperties
  <2>2. \A k \in 1 .. (n + 1) : k \in 1 .. n \/ k = n + 1
    BY <2>1
  <2>3. 1 .. n \subseteq 1 .. (n + 1) /\ n + 1 \in 1 .. (n + 1)
    BY <2>1
  <2> HIDE DEF n, new
  <2>4. Marked(new) = (Marked(items) \/ x.kind = "complete")
    <3>1. ASSUME Marked(new) PROVE Marked(items) \/ x.kind = "complete"
      BY <2>1, <2>2, <3>1 DEF Marked, n
    <3>2. ASSUME Marked(items) \/ x.kind = "complete" PROVE Marked(new)
      BY <2>1, <2>3, <3>2 DEF Marked, n
    <3>3. Marked(new) \in BOOLEAN /\ Marked(items) \in BOOLEAN
      BY DEF Marked
    <3> QED
      BY <3>1, <3>2, <3>3
  <2>5. OneMarker(items) /\ ~(Marked(items) /\ x.kind = "complete") => OneMarker(new)
    BY <2>1, <2>2 DEF Marked, OneMarker, n
  <2> QED
    BY <2>4, <2>5 DEF new
<1>3. ASSUME NEW items \in Seq(Items), items # <<>>, OneMarker(items)
      PROVE  /\ Marked(Tail(items)) = (Marked(items) /\ Head(items).kind # "complete")
             /\ OneMarker(Tail(items))
  <2> DEFINE n == Len(items)
             new == Tail(items)
  <2>1. /\ n \in Nat /\ n >= 1 /\ Len(new) = n - 1 /\ Head(items) = items[1]
        /\ \A k \in 1 .. (n - 1) : new[k] = items[k + 1]
    BY <1>3, EmptySeq
  <2>2. \A k \in 1 .. n : k = 1 \/ (k - 1 \in 1 .. (n - 1) /\ (k - 1) + 1 = k)
    BY <2>1
  <2>3. \A k \in 1 .. (n - 1) : k + 1 \in 1 .. n /\ k + 1 # 1
    BY <2>1
  <2>4. 1 \in 1 .. n
    BY <2>1
  <2>5. \A k \in 2 .. n : k - 1 \in 1 .. (n - 1) /\ new[k - 1] = items[k]
    BY <2>1
  <2> HIDE DEF n, new
  <2>6. Marked(new) = (Marked(items) /\ Head(items).kind # "complete")
    <3>1. ASSUME Marked(new) PROVE Marked(items) /\ Head(items).kind # "complete"
      BY <1>3, <2>1, <2>3, <2>4, <3>1 DEF Marked, OneMarker, n
    <3>2. ASSUME Marked(items), Head(items).kind # "complete" PROVE Marked(new)
      <4>1. PICK k \in 1 .. n : items[k].kind = "complete"
        BY <3>2 DEF Marked, n
      <4>2. k \in 2 .. n
        BY <2>1, <3>2, <4>1
      <4>3. k - 1 \in 1 .. Len(new) /\ new[k - 1].kind = "complete"
        BY <2>1, <2>5, <4>1, <4>2
      <4> QED
        BY <4>3 DEF Marked
    <3>3. Marked(new) \in BOOLEAN /\ Marked(items) \in BOOLEAN
      BY DEF Marked
    <3> QED
      BY <3>1, <3>2, <3>3
  <2>7. OneMarker(new)
    <3> SUFFICES ASSUME NEW j \in 1 .. (n - 1), NEW k \in 1 .. (n - 1),
                        new[j].kind = "complete", new[k].kind = "complete"
                 PROVE  j = k
      BY <2>1 DEF OneMarker
    <3>1. j + 1 = k + 1
      BY <1>3, <2>1, <2>3 DEF OneMarker, n
    <3> QED
      BY <2>1, <3>1
  <2> QED
    BY <2>6, <2>7 DEF new
<1> QED
  BY <1>1, <1>2, <1>3

\* The steps that put a marker on its way or take one off.
LEMMA MarkerStep ==
    ASSUME Typed, Control, \A s \in Sinks : OneMarker(Pipe(s)), ~Crash, ~Drained, [Next]_vars,
           NEW s \in Sinks
    PROVE  /\ Marked(Pipe(s))' =
                \/ Marked(Pipe(s)) /\ ~(SinkCommit(s) /\ Head(lane[s]).kind = "complete")
                \/ SnapshotEnd /\ s \in snapshot.for
           /\ ~(SnapshotEnd /\ s \in snapshot.for /\ Marked(Pipe(s))) => OneMarker(Pipe(s))'
           /\ SinkCommit(s) /\ Head(lane[s]).kind = "complete" => Marked(Pipe(s))
<1>0. Pipe(s) \in Seq(Items) /\ Marked(Pipe(s)) \in BOOLEAN
  BY PipeTypes DEF Marked
<1>1. ~(SinkCommit(s) /\ SnapshotEnd)
  BY DEF SinkCommit, SnapshotEnd, Publish, ingestside
<1>2. CASE LiveBatch \/ SnapshotBatch \/ SnapshotEnd
  <2>1. lane' = lane /\ outbox = NothingOut
    BY <1>2 DEF LiveBatch, SnapshotBatch, SnapshotEnd, lanes, Control
  <2>2. PICK item \in Items, to \in SUBSET Sinks :
            /\ outbox' = [item |-> item, to |-> to]
            /\ SnapshotEnd => to = snapshot.for /\ item.kind = "complete"
            /\ ~SnapshotEnd => item.kind = "batch"
    <3>1. CASE LiveBatch
      <4>1. PICK item \in Items : outbox' = [item |-> item, to |-> Sinks] /\ item.kind = "batch"
        BY <3>1, LiveItem
      <4>2. ~SnapshotEnd
        BY <4>1 DEF SnapshotEnd, Publish, Marker
      <4> QED
        BY <4>1, <4>2
    <3>2. CASE SnapshotBatch \/ SnapshotEnd
      <4>1. snapshot.for \in SUBSET Sinks
        BY DEF Typed
      <4> QED
        BY <3>2, <4>1, SnapshotItem
    <3> QED
      BY <1>2, <3>1, <3>2
  <2>3. Pipe(s)' = IF s \in to THEN Append(Pipe(s), item) ELSE Pipe(s)
    BY <2>1, <2>2, PipeGrows
  <2>4. ~SinkCommit(s)
    BY <1>1, <1>2 DEF SinkCommit, LiveBatch, SnapshotBatch, SnapshotEnd, Publish, ingestside
  <2>5. Marked(Pipe(s))' = Marked(Pipe(s)') /\ OneMarker(Pipe(s))' = OneMarker(Pipe(s)')
    BY DEF Marked, OneMarker
  <2>6. Marked(Pipe(s)') = (Marked(Pipe(s)) \/ (SnapshotEnd /\ s \in snapshot.for))
    BY <1>0, <2>2, <2>3, MarkedResult
  <2>7. ~(SnapshotEnd /\ s \in snapshot.for /\ Marked(Pipe(s))) => OneMarker(Pipe(s)')
    BY <1>0, <2>2, <2>3, MarkedResult
  <2> QED
    BY <2>4, <2>5, <2>6, <2>7
<1>3. CASE \E t \in Sinks : SinkCommit(t)
  <2>1. PICK t \in Sinks : SinkCommit(t)
    BY <1>3
  <2>2. ~SnapshotEnd
    BY <2>1 DEF SinkCommit, SnapshotEnd, Publish, ingestside
  <2>3. CASE s = t
    <3>1. Pipe(s)' = Tail(Pipe(s)) /\ Pipe(s) # <<>> /\ Head(Pipe(s)) = Head(lane[s])
      BY <2>1, <2>3, PipeDrops
    <3>2. /\ Marked(Pipe(s)') = (Marked(Pipe(s)) /\ Head(lane[s]).kind # "complete")
          /\ OneMarker(Pipe(s)')
      BY <1>0, <3>1, MarkedResult
    <3>3. Head(lane[s]).kind = "complete" => Marked(Pipe(s))
      BY <1>0, <3>1, EmptySeq DEF Marked
    <3> QED
      BY <2>1, <2>2, <2>3, <3>2, <3>3
  <2>4. CASE s # t
    <3>1. Pipe(s)' = Pipe(s)
      BY <2>1, <2>4, PipeDrops
    <3>2. engine'[s] = engine[s] /\ engine'[t] = "run" /\ engine[t] = "item"
      BY <2>1, <2>4 DEF SinkCommit, Typed
    <3>3. ~SinkCommit(s)
      BY <3>2 DEF SinkCommit, Typed
    <3>4. Marked(Pipe(s))' = Marked(Pipe(s)) /\ OneMarker(Pipe(s))'
      BY <3>1 DEF Marked, OneMarker
    <3> QED
      BY <1>0, <2>2, <3>3, <3>4
  <2> QED
    BY <2>3, <2>4
<1>4. CASE /\ ~(LiveBatch \/ SnapshotBatch \/ SnapshotEnd)
           /\ ~(\E t \in Sinks : SinkCommit(t))
           /\ Pipe(s)' = Pipe(s)
  <2>1. Marked(Pipe(s))' = Marked(Pipe(s)) /\ OneMarker(Pipe(s))'
    BY <1>4 DEF Marked, OneMarker
  <2> QED
    BY <1>0, <1>4, <2>1
<1> QED
  BY <1>2, <1>3, <1>4, PipeStep

\* Requests that stay as they are, with the markers that answer them.
LEMMA BackfillsStay ==
    ASSUME Typed, Backfills, UNCHANGED <<requests, outstanding>>,
           \A i \in 1 .. Len(requests) : Pending(i)' = Pending(i),
           \A s \in Sinks : Marked(Pipe(s))' = Marked(Pipe(s)) /\ OneMarker(Pipe(s))',
           \A s \in Sinks : engine'[s] = "request" => ~outstanding[s]
    PROVE  Backfills'
<1>1. \A i \in 1 .. Len(requests) : requests[i] \in Sinks
  BY ElementOfSeq DEF Typed
<1> QED
  BY <1>1 DEF Backfills

LEMMA NextBackfills ==
    ASSUME Typed, Control, Backfills, Typed', Control', [Next]_vars
    PROVE  Backfills'
<1>0. /\ requests \in Seq(Sinks) /\ Len(requests) \in Nat /\ held \in Nat /\ held =< Len(requests)
      /\ outstanding \in [Sinks -> BOOLEAN] /\ outstanding' \in [Sinks -> BOOLEAN]
      /\ engine \in [Sinks -> Places]
      /\ \A i \in 1 .. Len(requests) : requests[i] \in Sinks
      /\ \A s \in Sinks : OneMarker(Pipe(s)) /\ Marked(Pipe(s)) \in BOOLEAN
  <2>1. \A s \in Sinks : Marked(Pipe(s)) \in BOOLEAN
    BY DEF Marked
  <2>2. \A i \in 1 .. Len(requests) : requests[i] \in Sinks
    BY ElementOfSeq DEF Typed
  <2>3. \A s \in Sinks : OneMarker(Pipe(s))
    BY DEF Backfills
  <2>4. outstanding' \in [Sinks -> BOOLEAN]
    BY DEF Typed
  <2>5. /\ requests \in Seq(Sinks) /\ outstanding \in [Sinks -> BOOLEAN]
        /\ engine \in [Sinks -> Places]
        /\ popped \in 0 .. Len(requests) /\ held \in 0 .. popped
    BY DEF Typed
  <2>6. Len(requests) \in Nat /\ held \in Nat /\ held =< Len(requests)
    BY <2>5
  <2> QED
    BY <2>1, <2>2, <2>3, <2>4, <2>5, <2>6
<1>1. CASE Crash \/ Drained
  <2>1. /\ requests' = <<>> /\ outstanding' = [s \in Sinks |-> FALSE]
        /\ engine' = [s \in Sinks |-> "off"]
    BY <1>1 DEF Crash, Drained, Gone
  <2>2. \A s \in Sinks : ~Marked(Pipe(s))' /\ OneMarker(Pipe(s))'
    BY <1>1, PipeGone, MarkedResult DEF Marked, OneMarker
  <2> QED
    BY <2>1, <2>2 DEF Backfills
<1> SUFFICES ASSUME ~Crash, ~Drained PROVE Backfills'
  BY <1>1
<1>2. \A s \in Sinks :
          /\ Marked(Pipe(s))' =
                \/ Marked(Pipe(s)) /\ ~(SinkCommit(s) /\ Head(lane[s]).kind = "complete")
                \/ SnapshotEnd /\ s \in snapshot.for
          /\ ~(SnapshotEnd /\ s \in snapshot.for /\ Marked(Pipe(s))) => OneMarker(Pipe(s))'
          /\ SinkCommit(s) /\ Head(lane[s]).kind = "complete" => Marked(Pipe(s))
  BY <1>0, MarkerStep
\* The marker answers what the snapshot holds.
<1>3. CASE SnapshotEnd
  <2>1. /\ UNCHANGED <<requests, outstanding, held, engine>> /\ ingest = "loop" /\ snapshot.open
    BY <1>3 DEF SnapshotEnd, sinkside, requestlane
  <2>2. ~Answering /\ snapshot.on /\ snapshot.for = Asked
    BY <2>1 DEF Answering, Control
  <2>3. Answering'
    BY <1>3 DEF SnapshotEnd, Publish, Answering, Marker
  <2>4. \A i \in 1 .. Len(requests) : Pending(i) /\ (Pending(i)' = (i > held))
    BY <1>0, <2>1, <2>2, <2>3 DEF Pending
  <2>5. /\ \A i \in 1 .. held : requests[i] \in snapshot.for
        /\ \A s \in snapshot.for : \E i \in 1 .. held : requests[i] = s
    BY <2>2 DEF Asked
  <2>6. \A s \in Sinks : ~SinkCommit(s)
    BY <2>1, <1>3 DEF SinkCommit, ingestside, SnapshotEnd, Publish
  <2>7. ASSUME NEW s \in Sinks, s \in snapshot.for PROVE ~Marked(Pipe(s)) /\ outstanding[s]
    <3>1. PICK i \in 1 .. held : requests[i] = s
      BY <2>5, <2>7
    <3>2. i \in 1 .. Len(requests) /\ Pending(i)
      BY <1>0, <2>4
    <3> QED
      BY <3>1, <3>2 DEF Backfills
  <2>8. \A s \in Sinks : Marked(Pipe(s))' = (Marked(Pipe(s)) \/ s \in snapshot.for) /\ OneMarker(Pipe(s))'
    BY <1>2, <1>3, <2>6, <2>7
  <2>9. ASSUME NEW i \in 1 .. Len(requests), i > held PROVE requests[i] \notin snapshot.for
    <3> SUFFICES ASSUME requests[i] \in snapshot.for PROVE FALSE
      OBVIOUS
    <3>1. PICK j \in 1 .. held : requests[j] = requests[i]
      BY <2>5
    <3>2. j \in 1 .. Len(requests) /\ j # i
      BY <1>0, <2>9
    <3> QED
      BY <2>4, <3>1, <3>2 DEF Backfills
  <2>10. (\A i \in 1 .. Len(requests) : Pending(i) =>
             outstanding[requests[i]] /\ ~Marked(Pipe(requests[i])))'
    BY <1>0, <2>1, <2>4, <2>8, <2>9 DEF Backfills
  <2>11. \A i, j \in 1 .. Len(requests) : requests[i] = requests[j] => i = j
    BY <2>4 DEF Backfills
  <2>12. \A s \in Sinks :
             /\ Marked(Pipe(s))' => outstanding'[s]
             /\ engine'[s] = "request" => ~outstanding'[s]
    BY <2>1, <2>7, <2>8 DEF Backfills
  <2>13. \A s \in Sinks : outstanding'[s] =>
             \/ Marked(Pipe(s))'
             \/ \E i \in 1 .. Len(requests) : Pending(i)' /\ requests[i] = s
    <3> SUFFICES ASSUME NEW s \in Sinks, outstanding'[s], ~Marked(Pipe(s))'
                 PROVE  \E i \in 1 .. Len(requests) : Pending(i)' /\ requests[i] = s
      OBVIOUS
    <3>1. PICK i \in 1 .. Len(requests) : requests[i] = s
      BY <2>1, <2>8 DEF Backfills
    <3>2. i > held
      BY <1>0, <2>5, <2>8, <3>1
    <3> QED
      BY <2>4, <3>1, <3>2
  <2> QED
    BY <2>1, <2>8, <2>10, <2>11, <2>12, <2>13 DEF Backfills
\* The marker is committed, which ends the wait.
<1>4. CASE \E t \in Sinks : SinkCommit(t)
  <2>1. PICK t \in Sinks : SinkCommit(t)
    BY <1>4
  <2>2. /\ UNCHANGED <<requests, held, ingest, outbox>>
        /\ outstanding' = [outstanding EXCEPT ![t] = @ /\ Head(lane[t]).kind # "complete"]
        /\ engine' = [engine EXCEPT ![t] = "run"]
    BY <2>1 DEF SinkCommit, requestlane, ingestside
  <2>3. \A i \in 1 .. Len(requests) : Pending(i)' = Pending(i)
    BY <2>2 DEF Pending, Answering
  <2>4. ~SnapshotEnd
    BY <2>1 DEF SinkCommit, SnapshotEnd, Publish, ingestside
  <2>5. \A s \in Sinks : s # t => ~SinkCommit(s)
    BY <1>0, <2>2 DEF SinkCommit
  <2>6. \A s \in Sinks : s # t =>
            /\ Marked(Pipe(s))' = Marked(Pipe(s)) /\ OneMarker(Pipe(s))'
            /\ outstanding'[s] = outstanding[s]
            /\ engine'[s] = engine[s]
    BY <1>0, <1>2, <2>2, <2>4, <2>5
  <2>7. OneMarker(Pipe(t))' /\ engine'[t] = "run"
    BY <1>0, <1>2, <2>2, <2>4
  <2>8. CASE Head(lane[t]).kind = "complete"
    <3>1. Marked(Pipe(t)) /\ ~Marked(Pipe(t))' /\ ~outstanding'[t]
      BY <1>0, <1>2, <2>1, <2>2, <2>4, <2>8
    <3>2. \A i \in 1 .. Len(requests) : Pending(i) => requests[i] # t
      BY <3>1 DEF Backfills
    <3> QED
      BY <1>0, <2>2, <2>3, <2>6, <2>7, <3>1, <3>2 DEF Backfills
  <2>9. CASE Head(lane[t]).kind # "complete"
    <3>1. Marked(Pipe(t))' = Marked(Pipe(t)) /\ outstanding'[t] = outstanding[t]
      BY <1>0, <1>2, <2>1, <2>2, <2>4, <2>9
    <3> QED
      BY <1>0, <2>2, <2>3, <2>6, <2>7, <3>1 DEF Backfills
  <2> QED
    BY <2>8, <2>9
\* A new request.
<1>5. CASE \E t \in Sinks : RequestBackfill(t)
  <2>1. PICK t \in Sinks : RequestBackfill(t)
    BY <1>5
  <2>2. /\ engine[t] = "request" /\ requests' = Append(requests, t)
        /\ outstanding' = [outstanding EXCEPT ![t] = TRUE]
        /\ UNCHANGED <<held, ingest, outbox, lane>>
        /\ \E place \in {"staged", "run"} : engine' = [engine EXCEPT ![t] = place]
    BY <2>1 DEF RequestBackfill, AfterStage, ingestside, lanes
  <2> DEFINE n == Len(requests)
  <2>3. /\ n \in Nat /\ Len(requests') = n + 1 /\ requests'[n + 1] = t
        /\ \A i \in 1 .. n : requests'[i] = requests[i]
        /\ \A i \in 1 .. (n + 1) : i \in 1 .. n \/ i = n + 1
    BY <1>0, <2>2
  <2>4. \A i \in 1 .. n : Pending(i)' = Pending(i)
    BY <2>2 DEF Pending, Answering
  <2>5. \A i \in Nat : i > held => Pending(i)'
    BY <1>0, <2>2 DEF Pending
  <2>6. ~outstanding[t] /\ ~Marked(Pipe(t))
    BY <2>2 DEF Backfills
  <2>7. \A s \in Sinks : Marked(Pipe(s))' = Marked(Pipe(s)) /\ OneMarker(Pipe(s))'
    <3>1. ~SnapshotEnd /\ \A s \in Sinks : ~SinkCommit(s)
      BY <2>1 DEF SnapshotEnd, SinkCommit, RequestBackfill, sinkside, requestlane, Typed
    <3> QED
      BY <1>0, <1>2, <3>1
  <2>8. /\ \A s \in Sinks : s # t => outstanding'[s] = outstanding[s] /\ engine'[s] = engine[s]
        /\ outstanding'[t] /\ engine'[t] # "request"
    BY <1>0, <2>2
  <2>9. \A i \in 1 .. n : Pending(i) => requests[i] # t
    BY <1>0, <2>6 DEF Backfills
  <2>10. n + 1 \in 1 .. Len(requests') /\ 1 .. n \subseteq 1 .. Len(requests')
    BY <2>3
  <2> HIDE DEF n
  <2>11. (\A i \in 1 .. Len(requests) : Pending(i) =>
             outstanding[requests[i]] /\ ~Marked(Pipe(requests[i])))'
    <3> SUFFICES ASSUME NEW i \in 1 .. Len(requests'), Pending(i)'
                 PROVE  outstanding'[requests'[i]] /\ ~Marked(Pipe(requests[i]))'
      OBVIOUS
    <3>1. requests'[i] \in Sinks /\ outstanding'[requests'[i]] /\ ~Marked(Pipe(requests'[i]))
      BY <1>0, <2>3, <2>4, <2>6, <2>8, <2>9 DEF Backfills, n
    <3> QED
      BY <2>7, <3>1
  <2>12. \A i, j \in 1 .. Len(requests') :
             Pending(i)' /\ Pending(j)' /\ requests'[i] = requests'[j] => i = j
    BY <1>0, <2>3, <2>4, <2>9 DEF Backfills, n
  <2>13. \A s \in Sinks : outstanding'[s] =>
             \/ Marked(Pipe(s))'
             \/ \E i \in 1 .. Len(requests') : Pending(i)' /\ requests'[i] = s
    <3> SUFFICES ASSUME NEW s \in Sinks, outstanding'[s], ~Marked(Pipe(s))'
                 PROVE  \E i \in 1 .. Len(requests') : Pending(i)' /\ requests'[i] = s
      OBVIOUS
    <3>1. CASE s = t
      <4>1. n + 1 \in Nat /\ n + 1 > held
        BY <1>0 DEF n
      <4> QED
        BY <2>3, <2>5, <2>10, <3>1, <4>1
    <3>2. CASE s # t
      <4>1. PICK i \in 1 .. n : Pending(i) /\ requests[i] = s
        BY <2>7, <2>8, <3>2 DEF Backfills, n
      <4> QED
        BY <2>3, <2>4, <2>10, <4>1
    <3> QED
      BY <3>1, <3>2
  <2>14. \A s \in Sinks :
             /\ Marked(Pipe(s))' => outstanding'[s]
             /\ OneMarker(Pipe(s))'
             /\ engine'[s] = "request" => ~outstanding'[s]
    BY <2>7, <2>8 DEF Backfills
  <2> QED
    BY <2>11, <2>12, <2>13, <2>14 DEF Backfills
\* The requests the snapshot held are acknowledged.
<1>6. CASE FinishSnapshot
  <2>1. /\ UNCHANGED <<outstanding, engine>> /\ ingest' = "loop"
        /\ requests' = SubSeq(requests, held + 1, Len(requests))
    BY <1>6 DEF FinishSnapshot, sinkside
  <2>2. Answering /\ ~Answering'
    BY <1>6 DEF FinishSnapshot, Answering
  <2> DEFINE n == Len(requests) - held
  <2>3. /\ n \in Nat /\ Len(requests') = n
        /\ \A i \in 1 .. n : requests'[i] = requests[held + i] /\ held + i \in 1 .. Len(requests)
        /\ \A i \in 1 .. Len(requests) : i > held => i - held \in 1 .. n /\ held + (i - held) = i
    BY <1>0, <2>1, RestOfRequests
  <2>4. /\ \A i \in 1 .. n : Pending(i)' /\ Pending(held + i)
        /\ \A i \in 1 .. Len(requests) : Pending(i) => i > held
    BY <1>0, <2>2, <2>3 DEF Pending
  <2>5. \A s \in Sinks : Marked(Pipe(s))' = Marked(Pipe(s)) /\ OneMarker(Pipe(s))'
    <3>1. ~SnapshotEnd /\ \A s \in Sinks : ~SinkCommit(s)
      BY <1>6, <2>1, <2>2 DEF SnapshotEnd, SinkCommit, FinishSnapshot, ingestside, Publish
    <3> QED
      BY <1>0, <1>2, <3>1
  <2> HIDE DEF n
  <2>6. (\A i \in 1 .. Len(requests) : Pending(i) =>
             outstanding[requests[i]] /\ ~Marked(Pipe(requests[i])))'
    <3> SUFFICES ASSUME NEW i \in 1 .. Len(requests')
                 PROVE  outstanding'[requests'[i]] /\ ~Marked(Pipe(requests[i]))'
      OBVIOUS
    <3>1. requests'[i] \in Sinks /\ outstanding'[requests'[i]] /\ ~Marked(Pipe(requests'[i]))
      BY <1>0, <2>1, <2>3, <2>4 DEF Backfills
    <3> QED
      BY <2>5, <3>1
  <2>7. \A i, j \in 1 .. n : requests'[i] = requests'[j] => i = j
    <3> SUFFICES ASSUME NEW i \in 1 .. n, NEW j \in 1 .. n, requests'[i] = requests'[j]
                 PROVE  i = j
      OBVIOUS
    <3>1. held + i = held + j
      BY <2>3, <2>4 DEF Backfills
    <3> QED
      BY <1>0, <2>3, <3>1
  <2>8. \A s \in Sinks : outstanding'[s] =>
             Marked(Pipe(s))' \/ \E i \in 1 .. n : Pending(i)' /\ requests'[i] = s
    <3> SUFFICES ASSUME NEW s \in Sinks, outstanding'[s], ~Marked(Pipe(s))'
                 PROVE  \E i \in 1 .. n : Pending(i)' /\ requests'[i] = s
      OBVIOUS
    <3>1. PICK i \in 1 .. Len(requests) : Pending(i) /\ requests[i] = s
      BY <2>1, <2>5 DEF Backfills
    <3>2. i - held \in 1 .. n /\ requests'[i - held] = s
      BY <2>3, <2>4, <3>1
    <3> QED
      BY <2>4, <3>2
  <2>9. \A s \in Sinks : /\ Marked(Pipe(s))' => outstanding'[s]
                         /\ engine'[s] = "request" => ~outstanding'[s]
    BY <2>1, <2>5 DEF Backfills
  <2> QED
    BY <2>3, <2>5, <2>6, <2>7, <2>8, <2>9 DEF Backfills
\* Every other step leaves the requests and the markers alone.
<1>7. ASSUME ~SnapshotEnd, ~\E t \in Sinks : SinkCommit(t)
      PROVE  \A s \in Sinks : Marked(Pipe(s))' = Marked(Pipe(s)) /\ OneMarker(Pipe(s))'
  BY <1>0, <1>2, <1>7
<1>8. ASSUME ~SnapshotEnd, ~\E t \in Sinks : SinkCommit(t), ~\E t \in Sinks : RequestBackfill(t),
             ~FinishSnapshot
      PROVE  /\ UNCHANGED <<requests, outstanding>>
             /\ \A i \in 1 .. Len(requests) : Pending(i)' = Pending(i)
             /\ \A s \in Sinks : engine'[s] = "request" => ~outstanding[s]
  <2>1. CASE \/ Write \/ Start \/ RunAll \/ SlotLostDown \/ SnapshotOpen \/ Confirm
    <3>1. UNCHANGED <<requests, outstanding, held>> /\ Answering' = Answering
      BY <2>1 DEF Write, Start, RunAll, SlotLostDown, SnapshotOpen, Confirm, sinkside, requestlane,
                  ingestside, Answering, Control
    <3>2. \A s \in Sinks : engine'[s] = "request" => engine[s] = "request"
      BY <2>1 DEF Write, Start, RunAll, SlotLostDown, SnapshotOpen, Confirm, sinkside
    <3> QED
      BY <3>1, <3>2 DEF Pending, Backfills
  <2>2. CASE \/ SlotLostRunning \/ IngestFail \/ IngestOpen \/ LiveBatch \/ PublishedBatch
             \/ TakeRequest \/ StartSnapshot \/ SnapshotBatch \/ IngestRestart \/ LiveEnd
    <3>1. UNCHANGED <<requests, outstanding, engine>>
      BY <2>2 DEF SlotLostRunning, IngestFail, IngestOpen, LiveBatch, PublishedBatch, TakeRequest,
                  StartSnapshot, SnapshotBatch, IngestRestart, LiveEnd, IngestDown, sinkside,
                  requestlane
    <3>2. ~Answering
      BY <2>2 DEF SlotLostRunning, IngestFail, IngestOpen, LiveBatch, PublishedBatch, TakeRequest,
                  StartSnapshot, SnapshotBatch, IngestRestart, LiveEnd, Answering
    <3>3. LiveBatch \/ SnapshotBatch => outbox'.item.kind = "batch"
      <4>1. SnapshotBatch => outbox'.item.kind = "batch"
        BY DEF SnapshotBatch, Publish, Batch
      <4>2. ASSUME LiveBatch PROVE outbox'.item.kind = "batch"
        <5>1. PICK item \in Items : outbox' = [item |-> item, to |-> Sinks] /\ item.kind = "batch"
          BY <4>2, LiveItem
        <5> QED
          BY <5>1
      <4> QED
        BY <4>1, <4>2
    <3>4. ~Answering'
      BY <2>2, <3>3 DEF SlotLostRunning, IngestFail, IngestOpen, PublishedBatch, TakeRequest,
                        StartSnapshot, IngestRestart, LiveEnd, IngestDown, Answering
    <3> QED
      BY <3>1, <3>2, <3>4 DEF Pending, Backfills
  <2>3. ASSUME NEW t \in Sinks,
               Stage(t) \/ SinkRecv(t) \/ SinkRestart(t) \/ Reindex(t) \/ SinkFail(t)
        PROVE  /\ UNCHANGED <<requests, outstanding, held, Answering>>
               /\ \A s \in Sinks : engine'[s] = "request" => ~outstanding[s]
    <3>1. UNCHANGED <<requests, outstanding, held, ingest, outbox>>
      BY <2>3 DEF Stage, SinkRecv, SinkRestart, Reindex, SinkFail, sinkside, requestlane, ingestside
    <3>2. PICK place : engine' = [engine EXCEPT ![t] = place] /\ (place = "request" => ~outstanding[t])
      BY <2>3 DEF Stage, SinkRecv, SinkRestart, Reindex, SinkFail, AfterStage
    <3> QED
      BY <1>0, <3>1, <3>2 DEF Backfills, Answering
  <2>4. ASSUME NEW t \in Sinks, PublishTo(t)
        PROVE  UNCHANGED <<requests, outstanding, held, engine, Answering>>
    <3>1. UNCHANGED <<requests, outstanding, held, engine, ingest>>
      BY <2>4 DEF PublishTo, sinkside, requestlane
    <3>2. outbox'.item = outbox.item
      BY <2>4 DEF PublishTo, Typed
    <3> QED
      BY <3>1, <3>2 DEF Answering
  <2>5. CASE UNCHANGED vars
    BY <2>5 DEF vars, sinkside, requestlane, ingestside, Answering, Pending, Backfills
  <2> QED
    BY <1>8, <2>1, <2>2, <2>3, <2>4, <2>5 DEF Next, Ingest, Sink, Pending, Backfills
<1> QED
  BY <1>3, <1>4, <1>5, <1>6, <1>7, <1>8, BackfillsStay

-----------------------------------------------------------------------------
(* The theorems.                                                           *)

LEMMA InitDeploy == Init => DeployInv
<1> SUFFICES ASSUME Init PROVE DeployInv
  OBVIOUS
<1>1. Typed
  BY InitTyped
<1>2. /\ ingest = "off" /\ outbox = NothingOut /\ snapshot = NoSnapshot /\ requests = <<>>
      /\ phase = "down" /\ slot = NoSlot /\ ~Live
      /\ \A s \in Sinks : lane[s] = <<>> /\ acked[s] = 0 /\ engine[s] = "off" /\ ~outstanding[s]
  BY DEF Init, Live
<1>3. Control
  BY <1>2 DEF Control, NoSnapshot, Answering
<1>4. \A s \in Sinks : Pipe(s) = <<>>
  <2> SUFFICES ASSUME NEW s \in Sinks PROVE Pipe(s) = <<>>
    OBVIOUS
  <2>1. Pipe(s) = <<>> \o <<>>
    BY <1>2 DEF Pipe, NothingOut
  <2> QED
    BY <2>1, EmptySeq, ConcatEmptySeq
<1>5. Top \in Nat
  BY <1>1, <1>2, PositionFacts, BoundsAssumption DEF Top, Typed
<1>6. Numbers
  BY <1>2, <1>4, <1>5 DEF Numbers
<1>7. Backfills
  BY <1>2, <1>4, MarkedResult DEF Backfills
<1> QED
  BY <1>1, <1>3, <1>6, <1>7 DEF DeployInv

LEMMA NextDeploy == DeployInv /\ [Next]_vars => DeployInv'
<1> SUFFICES ASSUME DeployInv, [Next]_vars PROVE DeployInv'
  OBVIOUS
<1>1. Typed /\ Control /\ Numbers /\ Backfills
  BY DEF DeployInv
<1>2. Typed'
  BY <1>1, NextTyped
<1>3. Control'
  BY <1>1, <1>2, NextControl
<1>4. Numbers'
  BY <1>1, <1>2, NextNumbers
<1>5. Backfills'
  BY <1>1, <1>2, <1>3, NextBackfills
<1> QED
  BY <1>2, <1>3, <1>4, <1>5 DEF DeployInv

LEMMA Deployment == Spec => []DeployInv
BY InitDeploy, NextDeploy, PTL DEF Spec

\* Every variable of the deployment has its type, every cursor of the request
\* lane and of the WAL lies where its sequence has an element, and an engine
\* that processes an item has one.
THEOREM DeploymentTypes == Spec => []TypeOK
<1>1. DeployInv => TypeOK
  BY TypedImplies DEF DeployInv
<1> QED
  BY <1>1, Deployment, PTL

\* A backfill a sink engine waits for is never forgotten, whatever fails or
\* restarts and wherever the slot is lost: the ingest engine gives back the
\* requests it held when it fails, and a marker on its way answers exactly the
\* requests that are acknowledged once it is published.
THEOREM BackfillNeverForgotten == Spec => []NoForgottenBackfill
<1>1. DeployInv => NoForgottenBackfill
  <2> SUFFICES ASSUME Typed, Control, Backfills, NEW s \in Sinks, outstanding[s],
                      ~\E i \in 1 .. Len(requests) : requests[i] = s
               PROVE  \E i \in 1 .. Len(lane[s]) : lane[s][i].kind = "complete"
    BY DEF DeployInv, NoForgottenBackfill
  <2>1. PICK k \in 1 .. Len(Pipe(s)) : Pipe(s)[k].kind = "complete"
    BY DEF Backfills, Marked
  <2>2. lane[s] \in Seq(Items) /\ Len(lane[s]) \in Nat /\ outbox.item \in Items
    BY DEF Typed
  <2>3. CASE s \in outbox.to
    <3>1. Pipe(s) = Append(lane[s], outbox.item)
      BY <2>2, <2>3, AppendIsConcat DEF Pipe
    <3>2. \/ k \in 1 .. Len(lane[s]) /\ Pipe(s)[k] = lane[s][k]
          \/ Pipe(s)[k] = outbox.item
      BY <2>1, <2>2, <3>1, AppendProperties
    <3>3. outbox.item.kind # "complete"
      <4> SUFFICES ASSUME outbox.item.kind = "complete" PROVE FALSE
        OBVIOUS
      <4>1. Answering
        BY <2>3 DEF Answering, Control, NothingOut
      <4>2. s \in Asked
        BY <2>3, <4>1 DEF Control
      <4>3. PICK i \in 1 .. held : requests[i] = s
        BY <4>2 DEF Asked
      <4>4. i \in 1 .. Len(requests)
        BY DEF Typed
      <4> QED
        BY <4>3, <4>4
    <3> QED
      BY <2>1, <3>2, <3>3
  <2>4. CASE s \notin outbox.to
    <3>1. Pipe(s) = lane[s] \o <<>>
      BY <2>4 DEF Pipe
    <3>2. Pipe(s) = lane[s]
      BY <2>2, <3>1, ConcatEmptySeq
    <3> QED
      BY <2>1, <3>2
  <2> QED
    BY <2>3, <2>4
<1> QED
  BY <1>1, Deployment, PTL
=============================================================================
