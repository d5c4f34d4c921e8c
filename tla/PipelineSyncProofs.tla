-------------------------- MODULE PipelineSyncProofs --------------------------
(***************************************************************************)
(* Proofs about one deployment whose slot is lost, if ever, while it is    *)
(* down and every sink is seeded: what survives a crash is enough to       *)
(* recover, and a deployment at rest is synced.                            *)
(***************************************************************************)
EXTENDS PipelineProofs

-----------------------------------------------------------------------------
(* The inductive invariant, one sink and one document at a time.           *)

\* The copy of a sink's store that takes its writes, and its document d.
Copy(s) == CopyOf(store[s])

\* No change to d after the first n.
Seen(n, d) == \A i \in (n + 1) .. Len(wal) : wal[i] # d

\* The changes of the open stream a position stands for.
Upto(p) == IF p > Position(0) THEN p - Position(0) ELSE 0

\* The positions no change to d lies behind.
Past(d) == {p \in Nat : Seen(Upto(p), d)}

\* No change to d is left for s: none lies beyond the slot, or s acknowledged
\* the batch of the last.
SettledAt(s, d) ==
    slot # NoSlot /\ (Seen(slot, d) \/ (Live /\ acked[s] \in Past(d)))

Holds(item, d) == item.kind = "batch" /\ d \in DOMAIN item.docs

\* Every item that holds d carries v.
Fresh(items, d, v) == \A k \in 1 .. Len(items) : Holds(items[k], d) => items[k].docs[d] = v

Carries(items, d) == \E k \in 1 .. Len(items) : Holds(items[k], d)

\* Before every marker there is an item that holds d.
MarkersBehind(items, d) ==
    \A k \in 1 .. Len(items) : items[k].kind = "complete" =>
        \E j \in 1 .. (k - 1) : Holds(items[j], d)

\* The first item at a position of P holds d, and from there on d is v.
Caught(items, d, v, P) ==
    \E k \in 1 .. Len(items) :
        /\ Holds(items[k], d) /\ items[k].position \in P
        /\ \A j \in 1 .. (k - 1) : items[j].position \notin P
        /\ \A j \in k .. Len(items) : Holds(items[j], d) => items[j].docs[d] = v

\* The open snapshot has sent d to s, or found no row of it.
Covered(s, d) ==
    snapshot.open /\ ~Answering /\ s \in snapshot.for /\ d \notin snapshot.rows

SyncedAt(s, d) ==
    /\ SettledAt(s, d) =>
          /\ Fresh(Pipe(s), d, db[d])
          /\ Copy(s)[d] \in {Absent, db[d]}
          /\ Copy(s)[d] # db[d] =>
                /\ ~store[s].seeded
                /\ MarkersBehind(Pipe(s), d)
                /\ Covered(s, d) => Carries(Pipe(s), d)
    /\ Live /\ Seen(read, d) /\ ~SettledAt(s, d) => Caught(Pipe(s), d, db[d], Past(d))

\* A sink engine that runs has its index seeded or asked for it; a seeded index
\* is not being rebuilt.
Seeding ==
    \A s \in Sinks :
        /\ engine[s] \in {"run", "item", "staged"} => store[s].seeded \/ outstanding[s]
        /\ store[s].seeded => ~store[s].rebuilding

\* Without a slot nothing was sent, and every index that is not to be rebuilt
\* is being filled from nothing.
Unslotted ==
    slot = NoSlot =>
        /\ ingest \in {"off", "open"}
        /\ phase = "staging" => continuity = "Fresh"
        /\ \A s \in Sinks :
              /\ lane[s] = <<>>
              /\ store[s].seeded \/ Copy(s) = Empty
              /\ engine[s] \in {"request", "staged"} => ~store[s].seeded
              /\ phase = "running" => ~store[s].seeded

SyncInv ==
    /\ DeployInv /\ Seeding /\ Unslotted
    /\ \A s \in Sinks, d \in Docs : SyncedAt(s, d)

-----------------------------------------------------------------------------
(* Items on their way.                                                     *)

\* An item put behind the others.
LEMMA AppendResult ==
    ASSUME NEW q \in Seq(Items), NEW x \in Items, NEW d, NEW v
    PROVE  /\ Fresh(q, d, v) /\ (Holds(x, d) => x.docs[d] = v) => Fresh(Append(q, x), d, v)
           /\ Carries(q, d) \/ Holds(x, d) => Carries(Append(q, x), d)
           /\ MarkersBehind(q, d) /\ (x.kind = "complete" => Carries(q, d)) =>
                 MarkersBehind(Append(q, x), d)
<1> DEFINE n == Len(q)
           new == Append(q, x)
<1>1. /\ n \in Nat /\ Len(new) = n + 1 /\ new[n + 1] = x
      /\ \A k \in 1 .. n : new[k] = q[k]
      /\ \A k \in 1 .. (n + 1) : k \in 1 .. n \/ k = n + 1
      /\ 1 .. n \subseteq 1 .. (n + 1) /\ n + 1 \in 1 .. (n + 1)
  BY AppendProperties
<1>2. /\ \A k \in 1 .. n : 1 .. (k - 1) \subseteq 1 .. n
      /\ 1 .. ((n + 1) - 1) = 1 .. n
  BY <1>1
<1> HIDE DEF n, new
<1>3. Fresh(q, d, v) /\ (Holds(x, d) => x.docs[d] = v) => Fresh(new, d, v)
  BY <1>1 DEF Fresh, n
<1>4. Carries(q, d) \/ Holds(x, d) => Carries(new, d)
  BY <1>1 DEF Carries, n
<1>5. ASSUME MarkersBehind(q, d), x.kind = "complete" => Carries(q, d)
      PROVE  MarkersBehind(new, d)
  <2> SUFFICES ASSUME NEW k \in 1 .. (n + 1), new[k].kind = "complete"
               PROVE  \E j \in 1 .. (k - 1) : Holds(new[j], d)
    BY <1>1 DEF MarkersBehind
  <2>1. CASE k \in 1 .. n
    <3>1. PICK j \in 1 .. (k - 1) : Holds(q[j], d)
      BY <1>1, <1>5, <2>1 DEF MarkersBehind, n
    <3>2. new[j] = q[j]
      BY <1>1, <1>2, <2>1, <3>1
    <3> QED
      BY <3>1, <3>2
  <2>2. CASE k = n + 1
    <3>1. PICK j \in 1 .. n : Holds(q[j], d)
      BY <1>1, <1>5, <2>2 DEF Carries, n
    <3> QED
      BY <1>1, <1>2, <2>2, <3>1
  <2> QED
    BY <1>1, <2>1, <2>2
<1> QED
  BY <1>3, <1>4, <1>5 DEF new

\* The first item taken off.
LEMMA TailResult ==
    ASSUME NEW q \in Seq(Items), q # <<>>, NEW d, NEW v
    PROVE  /\ Fresh(q, d, v) => Fresh(Tail(q), d, v) /\ (Holds(Head(q), d) => Head(q).docs[d] = v)
           /\ Carries(q, d) => Holds(Head(q), d) \/ Carries(Tail(q), d)
           /\ MarkersBehind(q, d) =>
                 /\ Head(q).kind # "complete"
                 /\ Holds(Head(q), d) \/ MarkersBehind(Tail(q), d)
<1> DEFINE n == Len(q)
           new == Tail(q)
<1>1. /\ n \in Nat /\ n >= 1 /\ Len(new) = n - 1 /\ Head(q) = q[1]
      /\ \A k \in 1 .. (n - 1) : new[k] = q[k + 1]
      /\ \A k \in 2 .. n : new[k - 1] = q[k]
  BY EmptySeq
<1>2. /\ 1 \in 1 .. n
      /\ \A k \in 1 .. (n - 1) : k + 1 \in 1 .. n
      /\ \A k \in 1 .. n : k = 1 \/ k \in 2 .. n
      /\ \A k \in 2 .. n : k - 1 \in 1 .. (n - 1)
  BY <1>1
<1> HIDE DEF n, new
<1>3. Fresh(q, d, v) => Fresh(new, d, v) /\ (Holds(Head(q), d) => Head(q).docs[d] = v)
  BY <1>1, <1>2 DEF Fresh, n
<1>4. Carries(q, d) => Holds(Head(q), d) \/ Carries(new, d)
  BY <1>1, <1>2 DEF Carries, n
<1>5. ASSUME MarkersBehind(q, d)
      PROVE  /\ Head(q).kind # "complete"
             /\ Holds(Head(q), d) \/ MarkersBehind(new, d)
  <2>1. Head(q).kind # "complete"
    BY <1>1, <1>2, <1>5 DEF MarkersBehind, n
  <2>2. ASSUME ~Holds(Head(q), d), NEW k \in 1 .. (n - 1), new[k].kind = "complete"
        PROVE  \E j \in 1 .. (k - 1) : Holds(new[j], d)
    <3>1. k + 1 \in 1 .. n /\ q[k + 1].kind = "complete" /\ (k + 1) - 1 = k
      BY <1>1, <1>2, <2>2
    <3>2. PICK j \in 1 .. k : Holds(q[j], d)
      BY <1>5, <3>1 DEF MarkersBehind, n
    <3>3. j # 1
      BY <1>1, <2>2, <3>2
    <3>4. j \in 2 .. n /\ j - 1 \in 1 .. (k - 1)
      BY <1>1, <3>2, <3>3
    <3> QED
      BY <1>1, <3>2, <3>4
  <2> QED
    BY <1>1, <2>1, <2>2 DEF MarkersBehind
<1> QED
  BY <1>3, <1>4, <1>5 DEF new

\* A change that was on its way still is behind one more item.
LEMMA CaughtAppend ==
    ASSUME NEW q \in Seq(Items), NEW x \in Items, NEW d, NEW v, NEW P,
           Holds(x, d) => x.docs[d] = v,
           \/ Caught(q, d, v, P)
           \/ /\ \A j \in 1 .. Len(q) : q[j].position \notin P
              /\ Holds(x, d) /\ x.position \in P
    PROVE  Caught(Append(q, x), d, v, P)
<1> DEFINE n == Len(q)
           new == Append(q, x)
<1>1. /\ n \in Nat /\ Len(new) = n + 1 /\ new[n + 1] = x
      /\ \A k \in 1 .. n : new[k] = q[k]
  BY AppendProperties
<1> HIDE DEF n, new
<1>2. CASE Caught(q, d, v, P)
  <2>1. PICK k \in 1 .. n :
            /\ Holds(q[k], d) /\ q[k].position \in P
            /\ \A j \in 1 .. (k - 1) : q[j].position \notin P
            /\ \A j \in k .. n : Holds(q[j], d) => q[j].docs[d] = v
    BY <1>2 DEF Caught, n
  <2>2. \A j \in 1 .. (k - 1) : j \in 1 .. n
    BY <1>1, <2>1
  <2>3. \A j \in k .. (n + 1) : j = n + 1 \/ (j \in 1 .. n /\ j \in k .. n)
    BY <1>1, <2>1
  <2>4. k \in 1 .. (n + 1)
    BY <1>1, <2>1
  <2> QED
    BY <1>1, <2>1, <2>2, <2>3, <2>4 DEF Caught, new
<1>3. CASE /\ \A j \in 1 .. n : q[j].position \notin P
           /\ Holds(x, d) /\ x.position \in P
  <2>1. 1 .. ((n + 1) - 1) = 1 .. n /\ n + 1 \in 1 .. (n + 1)
    BY <1>1
  <2>2. \A j \in (n + 1) .. (n + 1) : j = n + 1
    BY <1>1
  <2> QED
    BY <1>1, <1>3, <2>1, <2>2 DEF Caught, new
<1> QED
  BY <1>2, <1>3 DEF n

\* The first item either is the one that carries the change, or leaves it to
\* the others.
LEMMA CaughtTail ==
    ASSUME NEW q \in Seq(Items), q # <<>>, NEW d, NEW v, NEW P, Caught(q, d, v, P)
    PROVE  \/ Head(q).position \in P /\ Holds(Head(q), d) /\ Fresh(q, d, v)
           \/ Head(q).position \notin P /\ Caught(Tail(q), d, v, P)
<1> DEFINE n == Len(q)
           new == Tail(q)
<1>1. /\ n \in Nat /\ n >= 1 /\ Len(new) = n - 1 /\ Head(q) = q[1]
      /\ \A k \in 1 .. (n - 1) : new[k] = q[k + 1]
      /\ \A k \in 2 .. n : new[k - 1] = q[k]
  BY EmptySeq
<1> HIDE DEF n, new
<1>2. PICK k \in 1 .. n :
          /\ Holds(q[k], d) /\ q[k].position \in P
          /\ \A j \in 1 .. (k - 1) : q[j].position \notin P
          /\ \A j \in k .. n : Holds(q[j], d) => q[j].docs[d] = v
  BY DEF Caught, n
<1>3. CASE k = 1
  BY <1>1, <1>2, <1>3 DEF Fresh, n
<1>4. CASE k # 1
  <2>1. k - 1 \in 1 .. (n - 1) /\ k \in 2 .. n /\ 1 \in 1 .. (k - 1)
    BY <1>1, <1>2, <1>4
  <2>2. \A j \in 1 .. ((k - 1) - 1) : j \in 1 .. (n - 1) /\ j + 1 \in 1 .. (k - 1)
    BY <1>1, <2>1
  <2>3. \A j \in (k - 1) .. (n - 1) : j \in 1 .. (n - 1) /\ j + 1 \in k .. n
    BY <1>1, <2>1
  <2>4. Holds(new[k - 1], d) /\ new[k - 1].position \in P
    BY <1>1, <1>2, <2>1
  <2>5. \A j \in 1 .. ((k - 1) - 1) : new[j].position \notin P
    BY <1>1, <1>2, <2>2
  <2>6. ASSUME NEW j \in (k - 1) .. (n - 1), Holds(new[j], d) PROVE new[j].docs[d] = v
    <3>1. new[j] = q[j + 1] /\ j + 1 \in k .. n
      BY <1>1, <2>3
    <3> QED
      BY <1>2, <2>6, <3>1
  <2>7. Caught(new, d, v, P)
    BY <1>1, <2>1, <2>4, <2>5, <2>6 DEF Caught
  <2> QED
    BY <1>1, <1>2, <2>1, <2>7 DEF new
<1> QED
  BY <1>3, <1>4

-----------------------------------------------------------------------------
(* Changes and positions.                                                  *)

LEMMA SeenLater ==
    ASSUME NEW d, NEW n \in Nat, NEW m \in Nat, n =< m, Seen(n, d), Len(wal) \in Nat
    PROVE  Seen(m, d)
<1>1. \A i \in (m + 1) .. Len(wal) : i \in (n + 1) .. Len(wal)
  OBVIOUS
<1> QED
  BY <1>1 DEF Seen

LEMMA UptoFacts ==
    ASSUME stream \in Nat
    PROVE  /\ \A p \in Nat : Upto(p) \in Nat
           /\ \A p, q \in Nat : p =< q => Upto(p) =< Upto(q)
           /\ \A p, n \in Nat : /\ p =< Position(n) => Upto(p) =< n
                                /\ p >= Position(n) => Upto(p) >= n
<1>1. Position(0) \in Nat
  BY PositionFacts
<1>2. \A n \in Nat : Position(n) = Position(0) + n
  BY PositionFacts
<1>3. ASSUME NEW p \in Nat
      PROVE  Upto(p) \in Nat /\ \A q \in Nat : p =< q => Upto(p) =< Upto(q)
  BY <1>1, <1>3 DEF Upto
<1>4. ASSUME NEW p \in Nat, NEW n \in Nat
      PROVE  /\ p =< Position(n) => Upto(p) =< n
             /\ p >= Position(n) => Upto(p) >= n
  <2>1. Position(n) = Position(0) + n
    BY <1>2
  <2> QED
    BY <1>1, <2>1 DEF Upto
<1> QED
  BY <1>3, <1>4

LEMMA PastFacts ==
    ASSUME Typed, NEW d
    PROVE  /\ \A p, q \in Nat : p =< q /\ p \in Past(d) => q \in Past(d)
           /\ \A p, n \in Nat : /\ p =< Position(n) /\ p \in Past(d) => Seen(n, d)
                                /\ p >= Position(n) /\ Seen(n, d) => p \in Past(d)
<1>1. stream \in Nat /\ Len(wal) \in Nat
  BY DEF Typed
<1>2. \A p \in Nat : Upto(p) \in Nat /\ (p \in Past(d) <=> Seen(Upto(p), d))
  BY <1>1, UptoFacts DEF Past
<1>3. ASSUME NEW p \in Nat, NEW q \in Nat, p =< q, p \in Past(d) PROVE q \in Past(d)
  BY <1>1, <1>2, <1>3, UptoFacts, SeenLater
<1>4. ASSUME NEW p \in Nat, NEW n \in Nat, p =< Position(n), p \in Past(d) PROVE Seen(n, d)
  <2>1. Upto(p) =< n
    BY <1>1, <1>4, UptoFacts
  <2> QED
    BY <1>1, <1>2, <1>4, <2>1, SeenLater
<1>5. ASSUME NEW p \in Nat, NEW n \in Nat, p >= Position(n), Seen(n, d) PROVE p \in Past(d)
  <2>1. Upto(p) >= n
    BY <1>1, <1>5, UptoFacts
  <2> QED
    BY <1>1, <1>2, <1>5, <2>1, SeenLater
<1> QED
  BY <1>3, <1>4, <1>5

\* Nothing is written and no stream opened.
LEMMA SeenSame ==
    ASSUME NEW d, UNCHANGED <<wal, stream>>
    PROVE  /\ \A n \in Nat : Seen(n, d)' = Seen(n, d)
           /\ Past(d)' = Past(d)
<1>1. \A n \in Nat : Seen(n, d)' = Seen(n, d)
  BY DEF Seen
<1>2. Past(d)' = Past(d)
  BY DEF Past, Upto, Position, Seen
<1> QED
  BY <1>1, <1>2

LEMMA SettledSame ==
    ASSUME NEW s \in Sinks, NEW d, UNCHANGED <<wal, stream, slot, Live>>, acked'[s] = acked[s]
    PROVE  SettledAt(s, d)' = SettledAt(s, d)
<1>1. Past(d)' = Past(d) /\ Seen(slot, d)' = Seen(slot, d)
  BY SeenSame DEF Seen
<1> QED
  BY <1>1 DEF SettledAt

\* A change committed at the source.
LEMMA WriteSeen ==
    ASSUME Typed, Write, NEW d \in Docs
    PROVE  \/ /\ db'[d] = db[d] /\ Past(d)' = Past(d)
              /\ \A n \in Nat : Seen(n, d)' = Seen(n, d)
           \/ \A n \in 0 .. Len(wal) : ~Seen(n, d)'
<1>1. PICK c \in Docs, v \in Rows : db' = [db EXCEPT ![c] = v] /\ wal' = Append(wal, c)
  BY DEF Write
<1>2. /\ wal \in Seq(Docs) /\ Len(wal) \in Nat /\ Len(wal') = Len(wal) + 1
      /\ wal'[Len(wal) + 1] = c /\ \A i \in 1 .. Len(wal) : wal'[i] = wal[i]
  BY <1>1, AppendProperties DEF Typed
<1>3. CASE c = d
  <2>1. ASSUME NEW n \in 0 .. Len(wal) PROVE ~Seen(n, d)'
    <3>1. Len(wal) + 1 \in (n + 1) .. Len(wal')
      BY <1>2
    <3> QED
      BY <1>2, <1>3, <3>1 DEF Seen
  <2> QED
    BY <2>1
<1>4. CASE c # d
  <2>1. ASSUME NEW n \in Nat PROVE Seen(n, d)' = Seen(n, d)
    <3>1. ASSUME Seen(n, d) PROVE Seen(n, d)'
      <4> SUFFICES ASSUME NEW i \in (n + 1) .. Len(wal') PROVE wal'[i] # d
        BY DEF Seen
      <4>1. \/ i \in (n + 1) .. Len(wal) /\ i \in 1 .. Len(wal)
            \/ i = Len(wal) + 1
        BY <1>2
      <4> QED
        BY <1>2, <1>4, <3>1, <4>1 DEF Seen
    <3>2. ASSUME Seen(n, d)' PROVE Seen(n, d)
      <4> SUFFICES ASSUME NEW i \in (n + 1) .. Len(wal) PROVE wal[i] # d
        BY DEF Seen
      <4>1. i \in (n + 1) .. Len(wal') /\ i \in 1 .. Len(wal)
        BY <1>2
      <4> QED
        BY <1>2, <3>2, <4>1 DEF Seen
    <3>3. Seen(n, d) \in BOOLEAN /\ Seen(n, d)' \in BOOLEAN
      BY DEF Seen
    <3> QED
      BY <3>1, <3>2, <3>3
  <2>2. db'[d] = db[d]
    BY <1>1, <1>4 DEF Typed, Contents
  <2>3. Past(d)' = Past(d)
    <3>1. stream' = stream /\ stream \in Nat
      BY DEF Write, ingestside, Typed
    <3>2. \A p \in Nat : Upto(p)' = Upto(p) /\ Upto(p) \in Nat
      BY <3>1, UptoFacts DEF Upto, Position
    <3>3. \A p \in Nat : Seen(Upto(p), d)' = Seen(Upto(p), d)
      BY <2>1, <3>2 DEF Seen
    <3> QED
      BY <3>3 DEF Past
  <2> QED
    BY <2>1, <2>2, <2>3
<1> QED
  BY <1>3, <1>4

-----------------------------------------------------------------------------
(* One sink and one document.                                              *)

\* Nothing new is put on its way and no acknowledgement made: the copy keeps d,
\* or it is emptied before anything relies on it, or it is given the row.
LEMMA PairSame ==
    ASSUME Typed, NEW s \in Sinks, NEW d \in Docs, SyncedAt(s, d), db'[d] = db[d],
           SettledAt(s, d)' => SettledAt(s, d),
           \/ Pipe(s)' = Pipe(s)
           \/ Pipe(s)' = <<>> /\ ~Live' /\ ~Covered(s, d)',
           \/ /\ Copy(s)'[d] = Copy(s)[d]
              /\ store'[s].seeded => store[s].seeded
              /\ Covered(s, d)' => Covered(s, d)
           \/ /\ Copy(s)'[d] = Absent
              /\ ~store'[s].seeded /\ MarkersBehind(Pipe(s), d) /\ ~Covered(s, d)'
           \/ SettledAt(s, d) => Copy(s)'[d] = db[d],
           Live' /\ Seen(read, d)' /\ ~SettledAt(s, d)' =>
               Live /\ Seen(read, d) /\ ~SettledAt(s, d) /\ Past(d)' = Past(d)
    PROVE  SyncedAt(s, d)'
<1>1. ASSUME SettledAt(s, d)'
      PROVE  /\ Fresh(Pipe(s)', d, db'[d])
             /\ Copy(s)'[d] \in {Absent, db'[d]}
             /\ Copy(s)'[d] # db'[d] =>
                   /\ ~store'[s].seeded
                   /\ MarkersBehind(Pipe(s)', d)
                   /\ Covered(s, d)' => Carries(Pipe(s)', d)
  <2>1. /\ SettledAt(s, d)
        /\ Fresh(Pipe(s), d, db[d]) /\ Copy(s)[d] \in {Absent, db[d]}
        /\ Copy(s)[d] # db[d] =>
              /\ ~store[s].seeded
              /\ MarkersBehind(Pipe(s), d)
              /\ Covered(s, d) => Carries(Pipe(s), d)
    BY <1>1 DEF SyncedAt
  <2>2. Fresh(<<>>, d, db[d]) /\ MarkersBehind(<<>>, d)
    BY DEF Fresh, MarkersBehind
  <2>3. Fresh(Pipe(s)', d, db'[d])
    BY <2>1, <2>2
  <2>4. MarkersBehind(Pipe(s), d) => MarkersBehind(Pipe(s)', d)
    BY <2>2
  <2>5. Covered(s, d)' => Pipe(s)' = Pipe(s)
    OBVIOUS
  <2> QED
    BY <2>1, <2>3, <2>4, <2>5
<1>2. ASSUME Live', Seen(read, d)', ~SettledAt(s, d)'
      PROVE  Caught(Pipe(s)', d, db'[d], Past(d)')
  <2>1. Pipe(s)' = Pipe(s) /\ Past(d)' = Past(d) /\ Caught(Pipe(s), d, db[d], Past(d))
    BY <1>2 DEF SyncedAt
  <2> QED
    BY <2>1
<1> QED
  BY <1>1, <1>2 DEF SyncedAt, Fresh, MarkersBehind, Carries, Caught

\* A new item is put on its way.
LEMMA PairGrows ==
    ASSUME Typed, NEW s \in Sinks, NEW d \in Docs, SyncedAt(s, d), NEW x \in Items,
           Pipe(s)' = Append(Pipe(s), x), Holds(x, d) => x.docs[d] = db[d],
           UNCHANGED <<db, store, Live>>, SettledAt(s, d)' = SettledAt(s, d), Past(d)' = Past(d),
           x.kind = "complete" => Covered(s, d),
           Covered(s, d)' => Covered(s, d) \/ Holds(x, d),
           \/ Seen(read, d)' => Seen(read, d)
           \/ Seen(read, d)' =>
                 /\ \A j \in 1 .. Len(Pipe(s)) : Pipe(s)[j].position \notin Past(d)
                 /\ Holds(x, d) /\ x.position \in Past(d)
    PROVE  SyncedAt(s, d)'
<1>1. Pipe(s) \in Seq(Items)
  BY PipeTypes
<1>2. Copy(s)' = Copy(s)
  BY DEF Copy, CopyOf
<1>3. ASSUME SettledAt(s, d)
      PROVE  /\ Fresh(Pipe(s)', d, db'[d])
             /\ Copy(s)'[d] \in {Absent, db'[d]}
             /\ Copy(s)'[d] # db'[d] =>
                   /\ ~store'[s].seeded
                   /\ MarkersBehind(Pipe(s)', d)
                   /\ Covered(s, d)' => Carries(Pipe(s)', d)
  <2>1. /\ Fresh(Pipe(s), d, db[d]) /\ Copy(s)[d] \in {Absent, db[d]}
        /\ Copy(s)[d] # db[d] =>
              /\ ~store[s].seeded
              /\ MarkersBehind(Pipe(s), d)
              /\ Covered(s, d) => Carries(Pipe(s), d)
    BY <1>3 DEF SyncedAt
  <2>2. Fresh(Pipe(s)', d, db[d])
    BY <1>1, <2>1, AppendResult
  <2>3. Copy(s)[d] # db[d] => MarkersBehind(Pipe(s)', d)
    BY <1>1, <2>1, AppendResult
  <2>4. Copy(s)[d] # db[d] /\ Covered(s, d)' => Carries(Pipe(s)', d)
    BY <1>1, <2>1, AppendResult
  <2> QED
    BY <1>2, <2>1, <2>2, <2>3, <2>4
<1>4. ASSUME Live', Seen(read, d)', ~SettledAt(s, d)
      PROVE  Caught(Pipe(s)', d, db'[d], Past(d)')
  <2>1. Seen(read, d) => Caught(Pipe(s), d, db[d], Past(d))
    BY <1>4 DEF SyncedAt
  <2>2. \/ Caught(Pipe(s), d, db[d], Past(d))
        \/ /\ \A j \in 1 .. Len(Pipe(s)) : Pipe(s)[j].position \notin Past(d)
           /\ Holds(x, d) /\ x.position \in Past(d)
    BY <1>4, <2>1
  <2>3. Caught(Append(Pipe(s), x), d, db[d], Past(d))
    BY <1>1, <2>2, CaughtAppend
  <2> QED
    BY <2>3
<1> QED
  BY <1>3, <1>4 DEF SyncedAt, Fresh, MarkersBehind, Carries, Caught

\* What the first item of a pipe makes of d at the sink that processes it.
LEMMA PairProcessed ==
    ASSUME Typed, NEW s \in Sinks, NEW d \in Docs, SyncedAt(s, d), SettledAt(s, d),
           Pipe(s) # <<>>
    PROVE  LET x   == Head(Pipe(s))
               new == Processed(store[s], x)
           IN  /\ x \in Items
               /\ \/ CopyOf(new)[d] = db[d]
                  \/ /\ CopyOf(new)[d] = Copy(s)[d] /\ x.kind # "complete" /\ ~Holds(x, d)
                     /\ new.seeded = store[s].seeded
<1> DEFINE x == Head(Pipe(s))
<1>1. Pipe(s) \in Seq(Items) /\ x \in Items /\ store[s] \in Store
  BY PipeTypes, HeadTailProperties DEF Typed
<1>2. /\ Holds(x, d) => x.docs[d] = db[d]
      /\ MarkersBehind(Pipe(s), d) => x.kind # "complete"
  BY <1>1, TailResult DEF SyncedAt
<1> HIDE DEF x
<1>3. /\ CopyOf(Processed(store[s], x))[d] = IF Holds(x, d) THEN x.docs[d] ELSE Copy(s)[d]
      /\ Processed(store[s], x).seeded = (store[s].seeded \/ x.kind = "complete")
  BY <1>1, ProcessedResult DEF Holds, Copy
<1>4. Copy(s)[d] # db[d] => MarkersBehind(Pipe(s), d)
  BY DEF SyncedAt
<1>5. store[s].seeded \in BOOLEAN
  BY <1>1 DEF Store
<1>6. CASE Holds(x, d)
  BY <1>1, <1>2, <1>3, <1>6 DEF x
<1>7. CASE ~Holds(x, d)
  <2>1. CopyOf(Processed(store[s], x))[d] = Copy(s)[d]
    BY <1>3, <1>7
  <2>2. CASE Copy(s)[d] = db[d]
    BY <1>1, <2>1, <2>2 DEF x
  <2>3. CASE Copy(s)[d] # db[d]
    <3>1. x.kind # "complete"
      BY <1>2, <1>4, <2>3
    <3>2. Processed(store[s], x).seeded = store[s].seeded
      BY <1>3, <1>5, <3>1
    <3> QED
      BY <1>1, <1>7, <2>1, <3>1, <3>2 DEF x
  <2> QED
    BY <2>2, <2>3
<1> QED
  BY <1>6, <1>7

\* The first item is processed and acknowledged: the changes it carried are
\* settled, and the copy has what it held.
LEMMA PairCommits ==
    ASSUME Typed, Numbers, NEW s \in Sinks, NEW d \in Docs, SyncedAt(s, d), SinkCommit(s)
    PROVE  SyncedAt(s, d)'
<1> DEFINE x == Head(Pipe(s))
           new == Processed(store[s], x)
<1>1. /\ Pipe(s) \in Seq(Items) /\ Pipe(s) # <<>> /\ Pipe(s)' = Tail(Pipe(s))
      /\ x = Head(lane[s]) /\ x \in Items
  BY PipeTypes, PipeDrops
<1>2. /\ UNCHANGED <<db, wal, slot, stream, read, snapshot, Live, Answering>>
      /\ store'[s] = new
      /\ acked'[s] = Max({acked[s], x.position})
  <2>1. x = Head(lane[s]) /\ SinkCommit(s)
    BY <1>1
  <2> HIDE DEF x
  <2> QED
    BY <2>1 DEF SinkCommit, source, ingestside, Live, Answering, Typed
<1>3. /\ acked[s] \in Nat /\ x.position \in Nat
      /\ x.position = Pipe(s)[1].position /\ 1 \in 1 .. Len(Pipe(s))
  BY <1>1, ItemFields, EmptySeq DEF Typed
<1> HIDE DEF x, new
<1>4. acked'[s] = IF acked[s] =< x.position THEN x.position ELSE acked[s]
  BY <1>2, <1>3, MaxOfTwo
<1>5. Past(d)' = Past(d) /\ Seen(slot, d)' = Seen(slot, d) /\ Seen(read, d)' = Seen(read, d)
  BY <1>2, SeenSame DEF Seen
<1>6. acked'[s] \in Past(d) <=> acked[s] \in Past(d) \/ x.position \in Past(d)
  <2>1. acked[s] \in Past(d) /\ acked[s] =< x.position => x.position \in Past(d)
    BY <1>3, PastFacts
  <2>2. x.position \in Past(d) /\ ~(acked[s] =< x.position) => acked[s] \in Past(d)
    BY <1>3, PastFacts
  <2> QED
    BY <1>4, <2>1, <2>2
<1>7. SettledAt(s, d)' <=> slot # NoSlot /\ (Seen(slot, d) \/ (Live /\ acked'[s] \in Past(d)))
  BY <1>2, <1>5 DEF SettledAt
<1>8. Copy(s)' = CopyOf(new) /\ Covered(s, d)' = Covered(s, d)
  BY <1>2 DEF Copy, CopyOf, Covered
<1>9. CASE SettledAt(s, d)
  <2>1. SettledAt(s, d)'
    BY <1>6, <1>7, <1>9 DEF SettledAt
  <2>2. /\ Fresh(Pipe(s), d, db[d]) /\ Copy(s)[d] \in {Absent, db[d]}
        /\ Copy(s)[d] # db[d] =>
              /\ ~store[s].seeded
              /\ MarkersBehind(Pipe(s), d)
              /\ Covered(s, d) => Carries(Pipe(s), d)
    BY <1>9 DEF SyncedAt
  <2>3. Fresh(Pipe(s)', d, db'[d])
    BY <1>1, <1>2, <2>2, TailResult
  <2>4. CASE CopyOf(new)[d] = db[d]
    BY <1>2, <1>8, <2>1, <2>3, <2>4 DEF SyncedAt, Fresh
  <2>5. CASE /\ CopyOf(new)[d] = Copy(s)[d] /\ CopyOf(new)[d] # db[d]
             /\ ~Holds(x, d) /\ new.seeded = store[s].seeded
    <3>1. MarkersBehind(Tail(Pipe(s)), d)
      BY <1>1, <2>2, <2>5, TailResult DEF x
    <3>2. Covered(s, d) => Carries(Tail(Pipe(s)), d)
      BY <1>1, <2>2, <2>5, TailResult DEF x
    <3>3. MarkersBehind(Pipe(s)', d) /\ (Covered(s, d)' => Carries(Pipe(s)', d))
      BY <1>1, <1>8, <3>1, <3>2
    <3> QED
      BY <1>2, <1>8, <2>1, <2>2, <2>3, <2>5, <3>3 DEF SyncedAt, Fresh, MarkersBehind, Carries
  <2> QED
    BY <1>1, <1>9, <2>4, <2>5, PairProcessed DEF x, new
<1>10. CASE ~SettledAt(s, d) /\ SettledAt(s, d)'
  <2>1. Live /\ x.position \in Past(d)
    BY <1>6, <1>7, <1>10 DEF SettledAt
  <2>2. Seen(read, d)
    <3>1. x.position =< Position(read) /\ read \in Nat
      BY <1>3, <2>1 DEF Numbers, Top, Typed
    <3> QED
      BY <1>3, <2>1, <3>1, PastFacts
  <2>3. Caught(Pipe(s), d, db[d], Past(d))
    BY <1>10, <2>1, <2>2 DEF SyncedAt
  <2>4. Holds(x, d) /\ Fresh(Pipe(s), d, db[d])
    BY <1>1, <2>1, <2>3, CaughtTail DEF x
  <2>5. Fresh(Tail(Pipe(s)), d, db[d]) /\ x.docs[d] = db[d]
    BY <1>1, <2>4, TailResult DEF x
  <2>6. CopyOf(new)[d] = db[d]
    BY <1>1, <2>4, <2>5, ProcessedResult DEF Holds, new, Typed
  <2>7. Fresh(Pipe(s)', d, db'[d]) /\ Copy(s)'[d] = db'[d]
    BY <1>1, <1>2, <1>8, <2>5, <2>6
  <2> QED
    BY <1>10, <2>7 DEF SyncedAt, Fresh
<1>11. CASE ~SettledAt(s, d) /\ ~SettledAt(s, d)'
  <2> SUFFICES ASSUME Live, Seen(read, d)
               PROVE  Caught(Pipe(s)', d, db'[d], Past(d)')
    BY <1>2, <1>5, <1>11 DEF SyncedAt, Caught
  <2>1. x.position \notin Past(d)
    BY <1>6, <1>7, <1>11 DEF Numbers
  <2>2. Caught(Pipe(s), d, db[d], Past(d))
    BY <1>11 DEF SyncedAt
  <2>3. Caught(Tail(Pipe(s)), d, db[d], Past(d))
    BY <1>1, <2>1, <2>2, CaughtTail DEF x
  <2> QED
    BY <1>1, <1>2, <1>5, <2>3
<1> QED
  BY <1>9, <1>10, <1>11

-----------------------------------------------------------------------------
(* What each step does to them.                                            *)

\* The steps that write to a store.
LEMMA StoreStep ==
    ASSUME [Next]_vars
    PROVE  \/ store' = store
           \/ \E t \in Sinks : Stage(t) \/ Reindex(t) \/ SinkFail(t) \/ SinkCommit(t)
<1>1. CASE Write \/ Start \/ RunAll \/ Crash \/ SlotLostRunning \/ SlotLostDown \/ Drained
  BY <1>1 DEF Write, Start, RunAll, Crash, SlotLostRunning, SlotLostDown, Drained
<1>2. CASE Ingest \/ Confirm \/ IngestFail \/ LiveEnd
  BY <1>2 DEF Ingest, IngestOpen, LiveBatch, PublishedBatch, TakeRequest, StartSnapshot,
              SnapshotOpen, SnapshotBatch, SnapshotEnd, FinishSnapshot, IngestRestart, Confirm,
              IngestFail, LiveEnd
<1>3. CASE \E t \in Sinks : RequestBackfill(t) \/ SinkRecv(t) \/ SinkRestart(t) \/ PublishTo(t)
  BY <1>3 DEF RequestBackfill, SinkRecv, SinkRestart, PublishTo
<1>4. CASE UNCHANGED vars
  BY <1>4 DEF vars
<1> QED
  BY <1>1, <1>2, <1>3, <1>4 DEF Next, Sink

\* Only opening a snapshot and sending rows of it cover a document.
LEMMA CoveredStep ==
    ASSUME Typed, Control, [Next]_vars, NEW s \in Sinks, NEW d \in Docs
    PROVE  SnapshotOpen \/ SnapshotBatch \/ (Covered(s, d)' => Covered(s, d))
<1>1. CASE \/ Write \/ Start \/ SlotLostDown \/ Confirm
           \/ \E t \in Sinks : \/ Stage(t) \/ RequestBackfill(t) \/ SinkRecv(t) \/ SinkCommit(t)
                               \/ SinkRestart(t) \/ Reindex(t) \/ SinkFail(t)
           \/ UNCHANGED vars
  <2>1. UNCHANGED <<snapshot, ingest, outbox>>
    BY <1>1 DEF Write, Start, SlotLostDown, Confirm, Stage, RequestBackfill, SinkRecv, SinkCommit,
                SinkRestart, Reindex, SinkFail, ingestside, vars
  <2> QED
    BY <2>1 DEF Covered, Answering
<1>2. CASE \/ Crash \/ Drained \/ SlotLostRunning \/ IngestFail \/ StartSnapshot \/ FinishSnapshot
  <2>1. ~snapshot'.open
    BY <1>2 DEF Crash, Drained, SlotLostRunning, IngestFail, StartSnapshot, FinishSnapshot, Gone,
                IngestDown, NoSnapshot
  <2> QED
    BY <2>1 DEF Covered
<1>3. CASE \/ RunAll \/ LiveBatch \/ PublishedBatch \/ TakeRequest \/ IngestOpen \/ IngestRestart
           \/ LiveEnd \/ SnapshotEnd
  <2>1. snapshot' = snapshot /\ ~Answering
    BY <1>3 DEF RunAll, LiveBatch, PublishedBatch, TakeRequest, IngestOpen, IngestRestart, LiveEnd,
                SnapshotEnd, Answering, Control
  <2> QED
    BY <2>1 DEF Covered
<1>4. CASE \E t \in Sinks : PublishTo(t)
  <2>1. UNCHANGED <<snapshot, ingest>> /\ outbox'.item = outbox.item
    BY <1>4 DEF PublishTo, Typed
  <2> QED
    BY <2>1 DEF Covered, Answering
<1> QED
  BY <1>1, <1>2, <1>3, <1>4 DEF Next, Ingest, Sink

\* Confirming the watermark settles nothing new.
LEMMA ConfirmedSettles ==
    ASSUME Typed, Numbers, Live, NEW s \in Sinks, NEW d \in Docs
    PROVE  /\ Seen(slot, d) => Seen(Confirmed, d)
           /\ Seen(Confirmed, d) => Seen(slot, d) \/ acked[s] \in Past(d)
<1>1. /\ Confirmed \in Nat /\ slot \in Nat /\ slot =< Confirmed /\ acked[s] \in Nat
      /\ Confirmed = slot \/ acked[s] >= Position(Confirmed)
      /\ Len(wal) \in Nat
  BY ConfirmedResult DEF Typed
<1>2. Seen(slot, d) => Seen(Confirmed, d)
  BY <1>1, SeenLater
<1>3. Seen(Confirmed, d) /\ acked[s] >= Position(Confirmed) => acked[s] \in Past(d)
  BY <1>1, PastFacts
<1> QED
  BY <1>1, <1>2, <1>3

\* A write to d leaves it to be sent and to be read; another write leaves d
\* where it was.
LEMMA WriteSynced ==
    ASSUME Typed, Control, Numbers, NEW s \in Sinks, NEW d \in Docs, SyncedAt(s, d), Write
    PROVE  SyncedAt(s, d)'
<1>1. UNCHANGED <<slot, store, acked, stream, read, Live>> /\ Pipe(s)' = Pipe(s)
      /\ (Covered(s, d)' => Covered(s, d))
  BY DEF Write, lanes, ingestside, Live, Pipe, Covered, Answering
<1>2. /\ slot # NoSlot => slot \in 0 .. Len(wal)
      /\ read \in 0 .. Len(wal) /\ acked[s] \in Nat
      /\ Live => acked[s] =< Position(read)
      /\ slot \in Nat \cup {NoSlot} /\ stream \in Nat /\ Len(wal) \in Nat
  BY DEF Typed, Numbers, Top, NoSlot
<1>3. CASE /\ db'[d] = db[d] /\ Past(d)' = Past(d)
           /\ \A n \in Nat : Seen(n, d)' = Seen(n, d)
  <2>1. slot # NoSlot => Seen(slot, d)' = Seen(slot, d)
    BY <1>1, <1>2, <1>3 DEF Seen
  <2>2. Seen(read, d)' = Seen(read, d)
    <3>1. read \in Nat /\ read' = read
      BY <1>1, <1>2
    <3> QED
      BY <1>3, <3>1 DEF Seen
  <2>3. SettledAt(s, d)' = SettledAt(s, d)
    BY <1>1, <1>3, <2>1 DEF SettledAt
  <2>4. Copy(s)'[d] = Copy(s)[d] /\ store'[s].seeded = store[s].seeded
    BY <1>1 DEF Copy, CopyOf
  <2> QED
    BY <1>1, <1>3, <2>2, <2>3, <2>4, PairSame
<1>4. CASE \A n \in 0 .. Len(wal) : ~Seen(n, d)'
  <2>1. ~Seen(read, d)'
    BY <1>1, <1>2, <1>4 DEF Seen
  <2>2. slot # NoSlot => ~Seen(slot, d)'
    BY <1>1, <1>2, <1>4 DEF Seen
  <2>3. Live => acked[s] \notin Past(d)'
    <3> SUFFICES ASSUME Live PROVE acked[s] \notin Past(d)'
      OBVIOUS
    <3>1. Upto(acked[s]) \in 0 .. Len(wal)
      <4>1. read \in Nat /\ acked[s] \in Nat /\ acked[s] =< Position(read) /\ stream \in Nat
        BY <1>2
      <4>2. Upto(acked[s]) \in Nat /\ Upto(acked[s]) =< read
        BY <4>1, UptoFacts
      <4> QED
        BY <1>2, <4>2
    <3>2. ~Seen(Upto(acked[s]), d)'
      BY <1>1, <1>4, <3>1 DEF Seen, Upto, Position
    <3> QED
      BY <1>1, <3>2 DEF Past
  <2>4. ~SettledAt(s, d)'
    BY <1>1, <2>2, <2>3 DEF SettledAt
  <2> QED
    BY <2>1, <2>4 DEF SyncedAt
<1> QED
  BY <1>3, <1>4, WriteSeen

\* The stream ends, or the process with it: what is settled is behind the slot.
LEMMA EndSynced ==
    ASSUME Typed, Control, Numbers, NEW s \in Sinks, NEW d \in Docs, SyncedAt(s, d),
           Crash \/ Drained \/ IngestFail
    PROVE  SyncedAt(s, d)'
<1>1. UNCHANGED <<db, wal, store>> /\ ~Live' /\ ~snapshot'.open
  BY DEF Crash, Drained, IngestFail, Gone, IngestDown, Live, NoSnapshot, source
<1>2. ~Covered(s, d)'
  BY <1>1 DEF Covered
<1>3. SettledAt(s, d)' => SettledAt(s, d)
  <2>1. CASE Crash \/ IngestFail
    <3>1. slot' = slot
      BY <2>1 DEF Crash, IngestFail
    <3> QED
      BY <1>1, <3>1 DEF SettledAt, Seen
  <2>2. CASE Drained
    <3>1. Live /\ slot' = Confirmed
      BY <2>2 DEF Drained, Live
    <3>2. SettledAt(s, d)' => Seen(Confirmed, d)
      BY <1>1, <3>1 DEF SettledAt, Seen
    <3>3. slot # NoSlot
      BY <3>1 DEF Numbers
    <3> QED
      BY <3>1, <3>2, <3>3, ConfirmedSettles DEF SettledAt
  <2> QED
    BY <2>1, <2>2
<1>4. Pipe(s)' = Pipe(s) \/ Pipe(s)' = <<>>
  <2>1. IngestFail => lane' = lane /\ outbox = NothingOut /\ outbox' = NothingOut
    BY DEF IngestFail, IngestDown, lanes, Control
  <2> QED
    BY <2>1, PipeGone, PipeSame
<1>5. Copy(s)'[d] = Copy(s)[d] /\ store'[s].seeded = store[s].seeded
  BY <1>1 DEF Copy, CopyOf
<1> QED
  BY <1>1, <1>2, <1>3, <1>4, <1>5, PairSame

\* A new stream reads from the slot on; without one, from the end of the WAL,
\* with every index empty or to be rebuilt.
LEMMA OpenSynced ==
    ASSUME Typed, Control, Numbers, Unslotted, NEW s \in Sinks, NEW d \in Docs, SyncedAt(s, d),
           IngestOpen
    PROVE  SyncedAt(s, d)'
<1>1. /\ ingest = "open" /\ UNCHANGED <<db, wal, store, acked>> /\ stream' = stream + 1
      /\ Live' /\ ~Live
      /\ read' = slot' /\ slot' = IF slot = NoSlot THEN Len(wal) ELSE slot
      /\ lane' = lane /\ outbox' = outbox
  BY DEF IngestOpen, source, lanes, Live
<1>2. /\ slot' \in Nat /\ slot' # NoSlot /\ stream \in Nat /\ acked[s] \in Nat
      /\ slot # NoSlot => slot \in Nat
      /\ acked[s] =< Position(MaxWrites) /\ Len(wal) \in Nat
  BY <1>1 DEF Typed, Numbers, Top, NoSlot
<1>3. /\ ~snapshot.open /\ snapshot' = snapshot /\ outbox = NothingOut /\ phase = "running"
  BY <1>1 DEF Control, IngestOpen
<1>4. ~Covered(s, d)'
  BY <1>3 DEF Covered
<1>5. SettledAt(s, d)' <=> Seen(slot, d)'
  <2>1. acked[s] \in Past(d)' => Seen(slot, d)'
    <3> SUFFICES ASSUME acked[s] \in Past(d)' PROVE Seen(slot, d)'
      OBVIOUS
    <3>1. Position(0)' = Position(MaxWrites) + 1 + 0 /\ Position(MaxWrites) \in Nat
      BY <1>1, <1>2, PositionFacts, BoundsAssumption
    <3>2. ~(acked[s] > Position(0)')
      BY <1>2, <3>1
    <3>3. Upto(acked[s])' = 0
      BY <1>1, <3>2 DEF Upto
    <3>4. Seen(0, d)
      BY <1>1, <3>3 DEF Past, Seen
    <3>5. Seen(slot', d)
      BY <1>2, <3>4, SeenLater
    <3> QED
      BY <1>1, <3>5 DEF Seen
  <2> QED
    BY <1>1, <1>2, <2>1 DEF SettledAt
<1>6. Seen(read, d)' => SettledAt(s, d)'
  BY <1>1, <1>5 DEF Seen
<1>7. Pipe(s)' = Pipe(s) /\ Copy(s)' = Copy(s)
  BY <1>1 DEF Pipe, Copy, CopyOf
<1>8. CASE slot # NoSlot
  <2>1. SettledAt(s, d)' => SettledAt(s, d)
    BY <1>1, <1>5, <1>8 DEF SettledAt, Seen
  <2> QED
    BY <1>1, <1>4, <1>6, <1>7, <2>1, PairSame
<1>9. CASE slot = NoSlot
  <2>1. lane[s] = <<>> /\ ~store[s].seeded /\ Copy(s) = Empty
    BY <1>3, <1>9 DEF Unslotted
  <2>2. Pipe(s) = <<>> \o <<>>
    BY <1>3, <2>1 DEF Pipe, NothingOut
  <2>3. Pipe(s) = <<>>
    BY <2>2, EmptySeq, ConcatEmptySeq
  <2>4. Fresh(Pipe(s)', d, db'[d]) /\ MarkersBehind(Pipe(s)', d)
    BY <1>7, <2>3 DEF Fresh, MarkersBehind
  <2>5. Copy(s)'[d] = Absent /\ ~store'[s].seeded
    BY <1>1, <1>7, <2>1 DEF Empty
  <2> QED
    BY <1>4, <1>6, <2>4, <2>5 DEF SyncedAt, Fresh, MarkersBehind
<1> QED
  BY <1>8, <1>9

\* The slot is confirmed.
LEMMA ConfirmSynced ==
    ASSUME Typed, Control, Numbers, NEW s \in Sinks, NEW d \in Docs, SyncedAt(s, d), [Next]_vars,
           PublishedBatch \/ Confirm
    PROVE  SyncedAt(s, d)'
<1>1. /\ UNCHANGED <<db, wal, store, acked, stream, read, lane>> /\ Live /\ Live'
      /\ slot' = slot \/ slot' = Confirmed
      /\ outbox' = outbox \/ (outbox.to = {} /\ outbox' = NothingOut)
  BY DEF PublishedBatch, Confirm, source, lanes, ingestside, Live
<1>2. Past(d)' = Past(d) /\ Seen(read, d)' = Seen(read, d)
  BY <1>1, SeenSame DEF Seen
<1>3. slot # NoSlot /\ slot' # NoSlot
  BY <1>1, ConfirmedResult DEF Numbers, NoSlot
<1>4. Seen(slot, d)' = Seen(slot', d)
  BY <1>1 DEF Seen
<1>5. SettledAt(s, d)' <=> SettledAt(s, d)
  BY <1>1, <1>2, <1>3, <1>4, ConfirmedSettles DEF SettledAt
<1>6. Pipe(s)' = Pipe(s)
  BY <1>1, PipeSame
<1>7. Copy(s)'[d] = Copy(s)[d] /\ store'[s].seeded = store[s].seeded
  BY <1>1 DEF Copy, CopyOf
<1>8. Covered(s, d)' => Covered(s, d)
  <2>1. ~SnapshotOpen /\ ~SnapshotBatch
    <3>1. PublishedBatch => ingest = "publish" /\ ingest' = "loop"
      BY DEF PublishedBatch
    <3>2. Confirm => ingest' = "loop" /\ snapshot' = snapshot
      BY DEF Confirm, ingestside
    <3>3. SnapshotOpen => ingest = "loop" /\ ~snapshot.open /\ snapshot'.open
      BY DEF SnapshotOpen, Typed
    <3>4. SnapshotBatch => ingest' = "publish"
      BY DEF SnapshotBatch, Publish
    <3> QED
      BY <3>1, <3>2, <3>3, <3>4
  <2> QED
    BY <2>1, CoveredStep
<1> QED
  BY <1>1, <1>2, <1>5, <1>6, <1>7, <1>8, PairSame

\* Changes are read: what they touch goes to every sink as it is now.
LEMMA LiveSynced ==
    ASSUME Typed, Control, Numbers, NEW s \in Sinks, NEW d \in Docs, SyncedAt(s, d), [Next]_vars,
           LiveBatch
    PROVE  SyncedAt(s, d)'
<1>1. PICK n \in (read + 1) .. Len(wal), x \in Items :
          /\ outbox' = [item |-> x, to |-> Sinks] /\ ingest' = "publish" /\ read' = n
          /\ x.kind = "batch" /\ x.position = Position(n)
          /\ x.docs = [c \in {wal[i] : i \in (read + 1) .. n} |-> db[c]]
  BY LiveItem
<1>2. /\ UNCHANGED <<db, wal, slot, store, acked, stream, lane, snapshot>> /\ ingest = "loop"
      /\ outbox = NothingOut
  BY DEF LiveBatch, source, lanes, Control
<1>3. Live /\ Live' /\ Live' = Live
  BY <1>1, <1>2 DEF Live
<1>4. Pipe(s)' = Append(Pipe(s), x)
  BY <1>1, <1>2, PipeGrows
<1>5. /\ Past(d)' = Past(d) /\ SettledAt(s, d)' = SettledAt(s, d)
      /\ Seen(read, d)' = Seen(n, d)
  BY <1>1, <1>2, <1>3, SeenSame, SettledSame DEF Seen
<1>6. Holds(x, d) => x.docs[d] = db[d]
  BY <1>1 DEF Holds
<1>7. Covered(s, d)' => Covered(s, d)
  BY <1>2 DEF Covered, Answering
<1>8. /\ read \in Nat /\ n \in Nat /\ x.position \in Nat /\ Len(wal) \in Nat
  BY <1>1, ItemFields DEF Typed
<1>9. CASE Seen(read, d)
  BY <1>1, <1>2, <1>3, <1>4, <1>5, <1>6, <1>7, <1>9, PairGrows
<1>10. CASE ~Seen(read, d)
  <2>1. ASSUME NEW j \in 1 .. Len(Pipe(s)) PROVE Pipe(s)[j].position \notin Past(d)
    <3>1. Pipe(s)[j].position =< Position(read)
      BY <1>3 DEF Numbers, Top
    <3>2. Pipe(s)[j].position \in Nat
      BY PipeTypes, ItemFields, ElementOfSeq
    <3> QED
      BY <1>8, <1>10, <3>1, <3>2, PastFacts
  <2>2. ASSUME Seen(n, d) PROVE Holds(x, d) /\ x.position \in Past(d)
    <3>1. PICK i \in (read + 1) .. Len(wal) : wal[i] = d
      BY <1>10 DEF Seen
    <3>2. i \in (read + 1) .. n
      BY <1>8, <2>2, <3>1 DEF Seen
    <3>3. Holds(x, d)
      BY <1>1, <3>1, <3>2 DEF Holds
    <3>4. x.position >= Position(n)
      BY <1>1, <1>8
    <3> QED
      BY <1>8, <2>2, <3>3, <3>4, PastFacts
  <2> QED
    BY <1>1, <1>2, <1>3, <1>4, <1>5, <1>6, <1>7, <2>1, <2>2, PairGrows
<1> QED
  BY <1>9, <1>10

\* Rows of the snapshot, or its marker, go to the sinks that asked.
LEMMA SnapshotSynced ==
    ASSUME Typed, Control, NEW s \in Sinks, NEW d \in Docs, SyncedAt(s, d),
           SnapshotBatch \/ SnapshotEnd
    PROVE  SyncedAt(s, d)'
<1>1. PICK x \in Items :
          /\ outbox' = [item |-> x, to |-> snapshot.for] /\ ingest' = "publish"
          /\ x.position = 0
          /\ SnapshotEnd => x.kind = "complete" /\ x.docs \in [{} -> Rows]
          /\ SnapshotBatch =>
                /\ x.kind = "batch"
                /\ \E rows \in SUBSET Docs : /\ x.docs = [c \in rows |-> db[c]]
                                             /\ snapshot' = [snapshot EXCEPT !.rows = @ \ rows]
  BY SnapshotItem
<1>2. /\ UNCHANGED <<db, wal, slot, store, acked, stream, lane, read>> /\ ingest = "loop"
      /\ outbox = NothingOut
  BY DEF SnapshotBatch, SnapshotEnd, source, lanes, Control
<1>3. Live' = Live /\ ~Answering
  BY <1>1, <1>2 DEF Live, Answering
<1>4. Pipe(s)' = IF s \in snapshot.for THEN Append(Pipe(s), x) ELSE Pipe(s)
  BY <1>1, <1>2, PipeGrows
<1>5. /\ Past(d)' = Past(d) /\ SettledAt(s, d)' = SettledAt(s, d)
      /\ Seen(read, d)' = Seen(read, d)
  BY <1>2, <1>3, SeenSame, SettledSame DEF Seen
<1>6. Holds(x, d) => x.docs[d] = db[d]
  BY <1>1 DEF Holds
<1>7. /\ snapshot'.for = snapshot.for
      /\ Covered(s, d)' => Covered(s, d) \/ Holds(x, d)
  <2>1. CASE SnapshotEnd
    <3>1. snapshot' = snapshot
      BY <2>1 DEF SnapshotEnd
    <3> QED
      BY <1>3, <3>1 DEF Covered
  <2>2. CASE SnapshotBatch
    <3>1. PICK rows \in SUBSET Docs : /\ x.docs = [c \in rows |-> db[c]]
                                      /\ snapshot' = [snapshot EXCEPT !.rows = @ \ rows]
      BY <1>1, <2>2
    <3>2. /\ snapshot'.open = snapshot.open /\ snapshot'.for = snapshot.for
          /\ snapshot'.rows = snapshot.rows \ rows
      BY <3>1 DEF Typed
    <3>3. d \in rows => Holds(x, d)
      BY <1>1, <2>2, <3>1 DEF Holds
    <3> QED
      BY <1>3, <3>2, <3>3 DEF Covered
  <2> QED
    BY <2>1, <2>2
<1>8. CASE s \in snapshot.for
  <2>1. x.kind = "complete" => Covered(s, d)
    <3>1. x.kind = "complete" => SnapshotEnd
      BY <1>1
    <3>2. SnapshotEnd => snapshot.open /\ snapshot.rows = {}
      BY DEF SnapshotEnd
    <3> QED
      BY <1>3, <1>8, <3>1, <3>2 DEF Covered
  <2> QED
    BY <1>2, <1>3, <1>4, <1>5, <1>6, <1>7, <1>8, <2>1, PairGrows
<1>9. CASE s \notin snapshot.for
  <2>1. ~Covered(s, d)'
    BY <1>7, <1>9 DEF Covered
  <2>2. Copy(s)'[d] = Copy(s)[d] /\ store'[s].seeded = store[s].seeded
    BY <1>2 DEF Copy, CopyOf
  <2>3. Pipe(s)' = Pipe(s)
    BY <1>4, <1>9
  <2> QED
    BY <1>2, <1>3, <1>5, <2>1, <2>2, <2>3, PairSame
<1> QED
  BY <1>8, <1>9

\* The snapshot is taken: of a document it has no row of, no sink has a ghost.
LEMMA OpenedSynced ==
    ASSUME Typed, Control, NEW s \in Sinks, NEW d \in Docs, SyncedAt(s, d), SnapshotOpen
    PROVE  SyncedAt(s, d)'
<1>1. /\ UNCHANGED <<db, wal, slot, store, acked, stream, lane, read, ingest, outbox>>
      /\ ingest = "loop" /\ outbox = NothingOut
  BY DEF SnapshotOpen, source, lanes, Control
<1>2. Live' = Live
  BY <1>1 DEF Live
<1>3. /\ Past(d)' = Past(d) /\ SettledAt(s, d)' = SettledAt(s, d)
      /\ Seen(read, d)' = Seen(read, d)
  BY <1>1, <1>2, SeenSame, SettledSame DEF Seen
<1>4. Pipe(s)' = Pipe(s)
  BY <1>1, PipeSame
<1>5. Copy(s)'[d] = Copy(s)[d] /\ store'[s].seeded = store[s].seeded
  BY <1>1 DEF Copy, CopyOf
<1>6. Covered(s, d)' => db[d] = Absent
  <2> DEFINE present == {c \in Docs : db[c] # Absent}
  <2>1. snapshot' = [snapshot EXCEPT !.open = TRUE, !.rows = present]
    BY DEF SnapshotOpen
  <2> HIDE DEF present
  <2>2. snapshot'.rows = present
    BY <2>1 DEF Typed
  <2> QED
    BY <2>2 DEF Covered, present
<1>7. CASE Covered(s, d)' /\ SettledAt(s, d)
  <2>1. Copy(s)[d] = db[d]
    BY <1>6, <1>7 DEF SyncedAt
  <2> QED
    BY <1>1, <1>2, <1>3, <1>4, <1>5, <2>1, PairSame
<1>8. CASE ~Covered(s, d)'
  BY <1>1, <1>2, <1>3, <1>4, <1>5, <1>8, PairSame
<1>9. CASE ~SettledAt(s, d)
  BY <1>1, <1>2, <1>3, <1>4, <1>5, <1>9, PairSame
<1> QED
  BY <1>7, <1>8, <1>9

-----------------------------------------------------------------------------
(* One sink engine and its store.                                          *)

\* The steps that touch a sink engine, what it waits for or its store.
LEMMA SinkStep ==
    ASSUME Typed, [Next]_vars, NEW s \in Sinks
    PROVE  \/ Crash \/ Drained \/ Start \/ RunAll
           \/ Stage(s) \/ RequestBackfill(s) \/ SinkRecv(s) \/ SinkCommit(s) \/ SinkRestart(s)
           \/ Reindex(s) \/ SinkFail(s)
           \/ /\ engine'[s] = engine[s] /\ outstanding'[s] = outstanding[s]
              /\ store'[s] = store[s] /\ UNCHANGED daemon
<1>1. CASE Write \/ SlotLostRunning \/ SlotLostDown \/ Confirm \/ IngestFail \/ LiveEnd
  BY <1>1 DEF Write, SlotLostRunning, SlotLostDown, Confirm, IngestFail, LiveEnd, sinkside, daemon
<1>2. CASE Ingest
  BY <1>2 DEF Ingest, IngestOpen, LiveBatch, PublishedBatch, TakeRequest, StartSnapshot,
              SnapshotOpen, SnapshotBatch, SnapshotEnd, FinishSnapshot, IngestRestart, sinkside,
              daemon
<1>3. ASSUME NEW t \in Sinks, t # s,
             \/ Stage(t) \/ RequestBackfill(t) \/ SinkRecv(t) \/ SinkCommit(t) \/ SinkRestart(t)
             \/ Reindex(t) \/ SinkFail(t)
      PROVE  /\ engine'[s] = engine[s] /\ outstanding'[s] = outstanding[s]
             /\ store'[s] = store[s] /\ UNCHANGED daemon
  <2>1. /\ engine' = [engine EXCEPT ![t] = engine'[t]]
        /\ outstanding' = outstanding \/ outstanding' = [outstanding EXCEPT ![t] = outstanding'[t]]
        /\ store' = store \/ store' = [store EXCEPT ![t] = store'[t]]
        /\ UNCHANGED daemon
    BY <1>3 DEF Stage, RequestBackfill, SinkRecv, SinkCommit, SinkRestart, Reindex, SinkFail, Typed,
                daemon
  <2> QED
    BY <1>3, <2>1 DEF Typed
<1>4. ASSUME NEW t \in Sinks, PublishTo(t)
      PROVE  /\ engine'[s] = engine[s] /\ outstanding'[s] = outstanding[s]
             /\ store'[s] = store[s] /\ UNCHANGED daemon
  BY <1>4 DEF PublishTo, sinkside, daemon
<1>5. CASE UNCHANGED vars
  BY <1>5 DEF vars, sinkside, daemon
<1> QED
  BY <1>1, <1>2, <1>3, <1>4, <1>5 DEF Next, Sink

\* What a step other than the commit of an item makes of a store: it is left
\* alone, emptied, or written to by an item that failed half way.
LEMMA StoreCases ==
    ASSUME Typed, [Next]_vars, NEW s \in Sinks, ~SinkCommit(s)
    PROVE  \/ store'[s] = store[s]
           \/ /\ store'[s] = Reindexed(store[s])
              /\ \/ phase = "staging" /\ store[s].seeded
                 \/ engine[s] = "run" /\ ~outstanding[s]
           \/ /\ SinkFail(s) /\ engine[s] = "item"
              /\ store'[s] \in {Processed(store[s], Head(lane[s])), Swapped(store[s])}
<1>1. CASE \/ Crash \/ Drained \/ Start \/ RunAll
           \/ RequestBackfill(s) \/ SinkRecv(s) \/ SinkRestart(s)
  BY <1>1 DEF Crash, Drained, Start, RunAll, RequestBackfill, SinkRecv, SinkRestart
<1>2. \/ Unstaled(s) = store[s]
      \/ Unstaled(s) = Reindexed(store[s]) /\ phase = "staging" /\ store[s].seeded
  BY DEF Unstaled
<1>3. CASE Stage(s)
  <2>1. store'[s] = Unstaled(s)
    BY <1>3 DEF Stage, Typed
  <2> QED
    BY <1>2, <2>1
<1>4. CASE Reindex(s)
  BY <1>4 DEF Reindex, Typed
<1>5. CASE SinkFail(s)
  <2>1. PICK left \in Leftovers(s) : store' = [store EXCEPT ![s] = left]
    BY <1>5 DEF SinkFail
  <2>2. store'[s] = left
    BY <2>1 DEF Typed
  <2>3. engine[s] \in {"stage", "run", "item"}
    BY <1>5 DEF SinkFail
  <2> QED
    BY <1>2, <1>5, <2>2, <2>3, LeftoverCases
<1> QED
  BY <1>1, <1>3, <1>4, <1>5, SinkStep

\* A seeded index is not being rebuilt, whatever the item.
LEMMA SeededByItem ==
    ASSUME NEW st \in Store, NEW x \in Items, st.seeded => ~st.rebuilding
    PROVE  /\ Processed(st, x).seeded = (st.seeded \/ x.kind = "complete")
           /\ Processed(st, x).seeded => ~Processed(st, x).rebuilding
<1>1. /\ x.kind \in {"batch", "complete"}
      /\ Processed(st, x).seeded = (st.seeded \/ x.kind = "complete")
  BY ProcessedResult, ItemFields
<1>2. CASE x.kind = "complete"
  <2>1. Processed(st, x) = Seeded(st)
    BY <1>2 DEF Processed
  <2>2. Seeded(st).rebuilding = FALSE
    BY StoreResult
  <2> QED
    BY <1>1, <2>1, <2>2
<1>3. CASE x.kind = "batch"
  <2>1. Processed(st, x).rebuilding = st.rebuilding /\ x.kind # "complete"
    BY <1>3, ProcessedResult
  <2>2. st.seeded \in BOOLEAN
    BY StoreResult
  <2> QED
    BY <1>1, <2>1, <2>2
<1> QED
  BY <1>1, <1>2, <1>3

LEMMA NextSeeding ==
    ASSUME Typed, Seeding, [Next]_vars
    PROVE  Seeding'
<1> SUFFICES ASSUME NEW s \in Sinks
             PROVE  /\ engine'[s] \in {"run", "item", "staged"} =>
                          store'[s].seeded \/ outstanding'[s]
                    /\ store'[s].seeded => ~store'[s].rebuilding
  BY DEF Seeding
<1>1. /\ engine[s] \in {"run", "item", "staged"} => store[s].seeded \/ outstanding[s]
      /\ store[s].seeded => ~store[s].rebuilding
      /\ store[s] \in Store /\ outstanding[s] \in BOOLEAN /\ store[s].seeded \in BOOLEAN
  BY StoreResult DEF Seeding, Typed
<1>2. CASE SinkCommit(s)
  <2>1. /\ store'[s] = Processed(store[s], Head(lane[s]))
        /\ outstanding'[s] = (outstanding[s] /\ Head(lane[s]).kind # "complete")
        /\ engine[s] = "item"
    BY <1>2 DEF SinkCommit, Typed
  <2>2. Head(lane[s]) \in Items
    BY <1>2, PipeDrops
  <2>3. /\ store'[s].seeded = (store[s].seeded \/ Head(lane[s]).kind = "complete")
        /\ store'[s].seeded => ~store'[s].rebuilding
    BY <1>1, <2>1, <2>2, SeededByItem
  <2> QED
    BY <1>1, <2>1, <2>3
<1>3. CASE ~SinkCommit(s)
  <2>1. store'[s].seeded => ~store'[s].rebuilding
    <3>1. CASE store'[s] = store[s]
      BY <1>1, <3>1
    <3>2. CASE store'[s] \in {Reindexed(store[s]), Swapped(store[s])}
      <4>1. Reindexed(store[s]).seeded = FALSE /\ Swapped(store[s]).rebuilding = FALSE
        BY <1>1, StoreResult
      <4> QED
        BY <3>2, <4>1
    <3>3. CASE engine[s] = "item" /\ store'[s] = Processed(store[s], Head(lane[s]))
      <4>1. lane[s] \in Seq(Items) /\ lane[s] # <<>>
        BY <3>3 DEF Typed
      <4>2. Head(lane[s]) \in Items
        BY <4>1
      <4> QED
        BY <1>1, <3>3, <4>2, SeededByItem
    <3> QED
      BY <1>3, <3>1, <3>2, <3>3, StoreCases
  <2>2. engine'[s] \in {"run", "item", "staged"} => store'[s].seeded \/ outstanding'[s]
    <3>1. CASE Crash \/ Drained \/ Start \/ SinkRestart(s) \/ Reindex(s) \/ SinkFail(s)
      BY <3>1 DEF Crash, Drained, Gone, Start, SinkRestart, Reindex, SinkFail, Typed
    <3>2. CASE RunAll
      BY <1>1, <3>2 DEF RunAll
    <3>3. CASE Stage(s)
      BY <3>3 DEF Stage, Typed
    <3>4. CASE RequestBackfill(s)
      BY <3>4 DEF RequestBackfill, Typed
    <3>5. CASE SinkRecv(s)
      BY <1>1, <3>5 DEF SinkRecv
    <3> QED
      BY <1>1, <1>3, <3>1, <3>2, <3>3, <3>4, <3>5, SinkStep
  <2> QED
    BY <2>1, <2>2
<1> QED
  BY <1>2, <1>3

\* Without a slot the process sends nothing, and fills nothing but empty
\* copies.
LEMMA NextUnslotted ==
    ASSUME SlotLossAt \subseteq {"seeded"}, Typed, Control, Numbers, Unslotted,
           [Next]_vars
    PROVE  Unslotted'
<1> SUFFICES ASSUME slot' = NoSlot
             PROVE  /\ ingest' \in {"off", "open"}
                    /\ phase' = "staging" => continuity' = "Fresh"
                    /\ \A s \in Sinks :
                          /\ lane'[s] = <<>>
                          /\ store'[s].seeded \/ Copy(s)' = Empty
                          /\ engine'[s] \in {"request", "staged"} => ~store'[s].seeded
                          /\ phase' = "running" => ~store'[s].seeded
  BY DEF Unslotted
<1>1. CASE SlotLostDown
  <2>1. /\ UNCHANGED <<store, phase, engine, lane, ingest>> /\ phase = "down"
        /\ AllSeeded
    BY <1>1 DEF SlotLostDown, daemon, sinkside, lanes, ingestside
  <2>2. /\ ingest = "off"
        /\ \A s \in Sinks : lane[s] = <<>> /\ engine[s] = "off"
    BY <2>1 DEF Control, Typed
  <2> QED
    BY <2>1, <2>2 DEF AllSeeded
<1>2. CASE SlotLostRunning
  BY <1>2 DEF SlotLostRunning
<1>3. CASE slot # NoSlot /\ ~SlotLostDown /\ ~SlotLostRunning
  <2>1. slot' = slot \/ IngestOpen \/ PublishedBatch \/ Confirm \/ Drained
    BY <1>3 DEF Next, Ingest, Sink, Write, Start, RunAll, Crash, LiveBatch, TakeRequest,
                StartSnapshot, SnapshotOpen, SnapshotBatch, SnapshotEnd, FinishSnapshot,
                IngestRestart, IngestFail, LiveEnd, Stage, RequestBackfill, SinkRecv, SinkCommit,
                SinkRestart, Reindex, SinkFail, PublishTo, vars
  <2>2. IngestOpen => slot' = slot
    BY <1>3 DEF IngestOpen
  <2>3. PublishedBatch \/ Confirm \/ Drained => Live /\ slot' \in {slot, Confirmed}
    BY DEF PublishedBatch, Confirm, Drained, Live
  <2> QED
    BY <1>3, <2>1, <2>2, <2>3, ConfirmedResult DEF NoSlot
<1>4. CASE slot = NoSlot /\ ~SlotLostDown /\ ~SlotLostRunning
  <2>1. /\ ingest \in {"off", "open"}
        /\ phase = "staging" => continuity = "Fresh"
        /\ \A s \in Sinks :
              /\ lane[s] = <<>>
              /\ store[s].seeded \/ Copy(s) = Empty
              /\ engine[s] \in {"request", "staged"} => ~store[s].seeded
              /\ phase = "running" => ~store[s].seeded
    BY <1>4 DEF Unslotted
  <2>2. /\ \A s \in Sinks : engine[s] # "item"
        /\ outbox = NothingOut /\ ~snapshot.on
        /\ phase = "staging" => ingest = "off"
    BY <2>1 DEF Typed, Control
  <2>3. ~IngestOpen
    <3>1. IngestOpen => slot' = Len(wal) /\ Len(wal) \in Nat
      BY <1>4 DEF IngestOpen, Typed
    <3> QED
      BY <3>1 DEF NoSlot
  <2>4. /\ ingest' \in {"off", "open"}
        /\ lane' = lane \/ \A s \in Sinks : lane'[s] = <<>>
        /\ phase' = "staging" => continuity' = "Fresh"
    <3>1. CASE Write \/ Start \/ RunAll \/ Crash
      BY <1>4, <2>1, <3>1 DEF Write, Start, RunAll, Crash, Gone, lanes, ingestside, daemon
    <3>2. CASE Ingest \/ Confirm \/ IngestFail \/ LiveEnd \/ Drained
      BY <2>1, <2>3, <3>2 DEF Ingest, LiveBatch, PublishedBatch, TakeRequest, StartSnapshot,
                  SnapshotOpen, SnapshotBatch, SnapshotEnd, FinishSnapshot, IngestRestart,
                  Confirm, IngestFail, LiveEnd, Drained
    <3>3. ASSUME NEW t \in Sinks,
                 \/ Stage(t) \/ RequestBackfill(t) \/ SinkRecv(t) \/ SinkRestart(t)
                 \/ Reindex(t) \/ SinkFail(t)
          PROVE  UNCHANGED <<ingest, lane, phase, continuity>>
      BY <3>3 DEF Stage, RequestBackfill, SinkRecv, SinkRestart, Reindex, SinkFail, lanes,
                  ingestside, daemon
    <3>4. ASSUME NEW t \in Sinks PROVE ~SinkCommit(t) /\ ~PublishTo(t)
      BY <2>1, <2>2 DEF SinkCommit, PublishTo
    <3>5. CASE UNCHANGED vars
      BY <2>1, <3>5 DEF vars, lanes, ingestside, daemon
    <3> QED
      BY <1>4, <2>1, <3>1, <3>2, <3>3, <3>4, <3>5 DEF Next, Sink
  <2>5. ASSUME NEW s \in Sinks
        PROVE  /\ store'[s].seeded \/ Copy(s)' = Empty
               /\ engine'[s] \in {"request", "staged"} => ~store'[s].seeded
               /\ phase' = "running" => ~store'[s].seeded
    <3>1. store[s] \in Store /\ ~SinkCommit(s)
      BY <2>2 DEF Typed, SinkCommit
    <3>2. store'[s] = store[s] \/ store'[s] = Reindexed(store[s])
      BY <2>2, <3>1, StoreCases
    <3>3. /\ Reindexed(store[s]).seeded = FALSE
          /\ CopyOf(Reindexed(store[s])) = Empty
      BY <3>1, StoreResult
    <3>4. Copy(s)' = CopyOf(store'[s])
      BY DEF Copy, CopyOf
    <3>5. store'[s].seeded \/ Copy(s)' = Empty
      BY <2>1, <3>2, <3>3, <3>4 DEF Copy
    <3>6. engine'[s] \in {"request", "staged"} => ~store'[s].seeded
      <4>1. CASE Crash \/ Drained \/ Start \/ RunAll \/ SinkRecv(s) \/ SinkRestart(s) \/ SinkFail(s)
        BY <4>1 DEF Crash, Drained, Gone, Start, RunAll, SinkRecv, SinkRestart, SinkFail, Typed
      <4>2. CASE Reindex(s)
        BY <3>3, <4>2 DEF Reindex, Typed
      <4>3. CASE RequestBackfill(s)
        BY <2>1, <4>3 DEF RequestBackfill
      <4>4. CASE Stage(s)
        <5>1. /\ store'[s] = Unstaled(s)
              /\ engine'[s] = IF ~store'[s].seeded /\ ~outstanding[s] THEN "request" ELSE AfterStage
          BY <4>4 DEF Stage, Typed
        <5>2. phase = "staging" => ~store'[s].seeded
          BY <2>1, <3>3, <5>1 DEF Unstaled
        <5>3. AfterStage # "request" /\ (AfterStage = "staged" => phase = "staging")
          BY DEF AfterStage
        <5> QED
          BY <5>1, <5>2, <5>3
      <4> QED
        BY <2>1, <3>1, <4>1, <4>2, <4>3, <4>4, SinkStep
    <3>7. phase' = "running" => ~store'[s].seeded
      <4>1. phase' = phase \/ Start \/ RunAll \/ Crash \/ Drained
        <5>1. \A t \in Sinks :
                  Sink(t) \/ Reindex(t) \/ SinkFail(t) \/ PublishTo(t) => phase' = phase
          BY DEF Sink, Stage, RequestBackfill, SinkRecv, SinkCommit, SinkRestart, Reindex, SinkFail,
                 PublishTo, daemon
        <5>2. Write \/ Ingest \/ Confirm \/ IngestFail \/ LiveEnd => phase' = phase
          BY DEF Write, Ingest, IngestOpen, LiveBatch, PublishedBatch, TakeRequest, StartSnapshot,
                 SnapshotOpen, SnapshotBatch, SnapshotEnd, FinishSnapshot, IngestRestart, Confirm,
                 IngestFail, LiveEnd, daemon
        <5> QED
          BY <1>4, <5>1, <5>2 DEF Next, vars, daemon
      <4>2. CASE phase' = phase
        BY <2>1, <3>2, <3>3, <4>2
      <4>3. CASE Start \/ Crash \/ Drained
        BY <4>3 DEF Start, Crash, Drained, Gone
      <4>4. CASE RunAll
        BY <2>1, <4>4 DEF RunAll
      <4> QED
        BY <4>1, <4>2, <4>3, <4>4
    <3> QED
      BY <3>5, <3>6, <3>7
  <2> QED
    BY <2>1, <2>4, <2>5
<1> QED
  BY <1>1, <1>2, <1>3, <1>4

-----------------------------------------------------------------------------
(* Every step.                                                             *)

\* An index that nothing asks a backfill for, and one of a process that sends
\* nothing yet, has no marker before it and no snapshot behind it.
LEMMA NothingAsked ==
    ASSUME Typed, Control, Backfills, NEW s \in Sinks, NEW d \in Docs,
           phase = "staging" \/ ~outstanding[s]
    PROVE  MarkersBehind(Pipe(s), d) /\ ~Covered(s, d)
<1>1. CASE phase = "staging"
  <2>1. lane[s] = <<>> /\ outbox = NothingOut /\ ~snapshot.open
    BY <1>1 DEF Control, Typed
  <2>2. Pipe(s) = <<>> \o <<>>
    BY <2>1 DEF Pipe, NothingOut
  <2>3. Pipe(s) = <<>>
    BY <2>2, EmptySeq, ConcatEmptySeq
  <2> QED
    BY <2>1, <2>3 DEF MarkersBehind, Covered
<1>2. CASE ~outstanding[s]
  <2>1. ~Marked(Pipe(s))
    BY <1>2 DEF Backfills
  <2>2. ~Covered(s, d)
    <3> SUFFICES ASSUME snapshot.open, ~Answering, s \in snapshot.for PROVE FALSE
      BY DEF Covered
    <3>1. s \in Asked
      BY DEF Control
    <3>2. PICK i \in 1 .. held : requests[i] = s
      BY <3>1 DEF Asked
    <3>3. i \in 1 .. Len(requests)
      BY DEF Typed
    <3> QED
      BY <1>2, <3>2, <3>3 DEF Backfills, Pending
  <2> QED
    BY <2>1, <2>2 DEF Marked, MarkersBehind
<1> QED
  BY <1>1, <1>2

\* Nothing is sent, acknowledged, confirmed or written at the source: a store
\* that changes keeps what is settled.
LEMMA StoreSynced ==
    ASSUME Typed, Control, Backfills, NEW s \in Sinks, NEW d \in Docs, SyncedAt(s, d),
           [Next]_vars, UNCHANGED <<db, wal, slot, stream, read, Live>>, acked'[s] = acked[s],
           Pipe(s)' = Pipe(s), ~SinkCommit(s), ~SnapshotOpen, ~SnapshotBatch
    PROVE  SyncedAt(s, d)'
<1>1. /\ SettledAt(s, d)' = SettledAt(s, d) /\ Past(d)' = Past(d)
      /\ Seen(read, d)' = Seen(read, d)
  BY SeenSame, SettledSame DEF Seen
<1>2. Covered(s, d)' => Covered(s, d)
  BY CoveredStep
<1>3. store[s] \in Store /\ Copy(s)' = CopyOf(store'[s])
  BY DEF Typed, Copy, CopyOf
<1>4. CASE store'[s] = store[s]
  <2>1. Copy(s)'[d] = Copy(s)[d] /\ (store'[s].seeded => store[s].seeded)
    BY <1>3, <1>4 DEF Copy
  <2> QED
    BY <1>1, <1>2, <2>1, PairSame
<1>5. CASE store'[s] = Reindexed(store[s]) /\ (phase = "staging" \/ ~outstanding[s])
  <2>1. Copy(s)'[d] = Absent /\ ~store'[s].seeded
    <3>1. CopyOf(Reindexed(store[s])) = Empty /\ Reindexed(store[s]).seeded = FALSE
      BY <1>3, StoreResult
    <3> QED
      BY <1>3, <1>5, <3>1 DEF Empty
  <2>2. MarkersBehind(Pipe(s), d) /\ ~Covered(s, d)'
    BY <1>2, <1>5, NothingAsked
  <2> QED
    BY <1>1, <2>1, <2>2, PairSame
<1>6. CASE store'[s] = Swapped(store[s])
  <2>1. Copy(s)'[d] = Copy(s)[d] /\ store'[s].seeded = store[s].seeded
    <3>1. /\ CopyOf(Swapped(store[s])) = CopyOf(store[s])
          /\ Swapped(store[s]).seeded = store[s].seeded
      BY <1>3, StoreResult
    <3> QED
      BY <1>3, <1>6, <3>1 DEF Copy
  <2> QED
    BY <1>1, <1>2, <2>1, PairSame
<1>7. CASE engine[s] = "item" /\ store'[s] = Processed(store[s], Head(lane[s]))
  <2>1. CASE SettledAt(s, d)
    <3>1. lane[s] \in Seq(Items) /\ lane[s] # <<>>
      BY <1>7 DEF Typed
    <3>2. Pipe(s) # <<>> /\ Head(Pipe(s)) = Head(lane[s])
      BY <3>1, PipeTypes
    <3>3. \/ CopyOf(store'[s])[d] = db[d]
          \/ CopyOf(store'[s])[d] = Copy(s)[d] /\ store'[s].seeded = store[s].seeded
      BY <1>7, <2>1, <3>2, PairProcessed
    <3> QED
      BY <1>1, <1>2, <1>3, <3>3, PairSame
  <2>2. CASE ~SettledAt(s, d)
    BY <1>1, <2>2, PairSame
  <2> QED
    BY <2>1, <2>2
<1> QED
  BY <1>4, <1>5, <1>6, <1>7, StoreCases

LEMMA NextSynced ==
    ASSUME Typed, Control, Numbers, Backfills, Unslotted, NEW s \in Sinks, NEW d \in Docs,
           SyncedAt(s, d), [Next]_vars
    PROVE  SyncedAt(s, d)'
<1>1. CASE Write
  BY <1>1, WriteSynced
<1>2. CASE Crash \/ Drained \/ IngestFail
  BY <1>2, EndSynced
<1>3. CASE IngestOpen
  BY <1>3, OpenSynced
<1>4. CASE PublishedBatch \/ Confirm
  BY <1>4, ConfirmSynced
<1>5. CASE LiveBatch
  BY <1>5, LiveSynced
<1>6. CASE SnapshotBatch \/ SnapshotEnd
  BY <1>6, SnapshotSynced
<1>7. CASE SnapshotOpen
  BY <1>7, OpenedSynced
<1>8. CASE SinkCommit(s)
  BY <1>8, PairCommits
<1>9. CASE SlotLostRunning \/ SlotLostDown
  <2>1. slot' = NoSlot /\ ~Live'
    <3>1. SlotLostDown => ingest = "off" /\ ingest' = ingest
      BY DEF SlotLostDown, Control, Typed, ingestside
    <3> QED
      BY <1>9, <3>1 DEF SlotLostRunning, SlotLostDown, IngestDown, Live
  <2>2. ~SettledAt(s, d)'
    BY <2>1 DEF SettledAt
  <2> QED
    BY <2>1, <2>2 DEF SyncedAt
<1>10. ASSUME NEW t \in Sinks, t # s, SinkCommit(t), ~SinkCommit(s)
       PROVE  SyncedAt(s, d)'
  <2>1. /\ UNCHANGED <<db, wal, slot, stream, read, Live>> /\ acked'[s] = acked[s]
        /\ ~SnapshotOpen /\ ~SnapshotBatch
    <3>1. /\ acked' = [acked EXCEPT ![t] = acked'[t]]
          /\ UNCHANGED <<source, slot, ingestside>>
      BY <1>10 DEF SinkCommit, Typed
    <3>2. snapshot' = snapshot
      BY <3>1 DEF ingestside
    <3>3. SnapshotOpen => ~snapshot.open /\ snapshot'.open
      BY DEF SnapshotOpen, Typed
    <3>4. SnapshotBatch => ingest = "loop" /\ ingest' = "publish"
      BY DEF SnapshotBatch, Publish
    <3> QED
      BY <1>10, <3>1, <3>2, <3>3, <3>4 DEF source, ingestside, Live, Typed
  <2>2. Pipe(s)' = Pipe(s)
    BY <1>10, PipeDrops
  <2> QED
    BY <1>10, <2>1, <2>2, StoreSynced
<1>11. CASE /\ UNCHANGED <<db, wal, slot, acked, stream, read, Live>>
            /\ Pipe(s)' = Pipe(s)
            /\ ~SinkCommit(s) /\ ~SnapshotOpen /\ ~SnapshotBatch
  BY <1>11, StoreSynced
<1> QED
  BY <1>1, <1>2, <1>3, <1>4, <1>5, <1>6, <1>7, <1>8, <1>9, <1>10, <1>11, NumbersStep, PipeStep

-----------------------------------------------------------------------------
(* The theorems.                                                           *)

LEMMA InitSync == Init => SyncInv
<1> SUFFICES ASSUME Init PROVE SyncInv
  OBVIOUS
<1>1. /\ slot = NoSlot /\ phase = "down" /\ ingest = "off" /\ ~Live
      /\ \A s \in Sinks : /\ engine[s] = "off" /\ lane[s] = <<>>
                          /\ store[s] = [serving |-> Empty, building |-> Empty,
                                         rebuilding |-> FALSE, seeded |-> FALSE]
  BY DEF Init, Live
<1>2. \A s \in Sinks : Copy(s) = Empty /\ ~store[s].seeded
  BY <1>1 DEF Copy, CopyOf
<1>3. Seeding /\ Unslotted
  BY <1>1, <1>2 DEF Seeding, Unslotted
<1>4. \A s \in Sinks, d \in Docs : SyncedAt(s, d)
  BY <1>1 DEF SyncedAt, SettledAt
<1> QED
  BY <1>3, <1>4, InitDeploy DEF SyncInv

LEMMA NextSync ==
    ASSUME SlotLossAt \subseteq {"seeded"}
    PROVE  SyncInv /\ [Next]_vars => SyncInv'
<1> SUFFICES ASSUME SyncInv, [Next]_vars PROVE SyncInv'
  OBVIOUS
<1>1. /\ DeployInv /\ Typed /\ Control /\ Numbers /\ Backfills /\ Seeding /\ Unslotted
      /\ \A s \in Sinks, d \in Docs : SyncedAt(s, d)
  BY DEF SyncInv, DeployInv
<1>2. DeployInv'
  BY <1>1, NextDeploy
<1>3. Seeding'
  BY <1>1, NextSeeding
<1>4. Unslotted'
  BY <1>1, NextUnslotted
<1>5. ASSUME NEW s \in Sinks, NEW d \in Docs PROVE SyncedAt(s, d)'
  BY <1>1, NextSynced
<1> QED
  BY <1>2, <1>3, <1>4, <1>5 DEF SyncInv

LEMMA SyncedDeployment ==
    ASSUME SlotLossAt \subseteq {"seeded"}
    PROVE  Spec => []SyncInv
<1>1. SyncInv /\ [Next]_vars => SyncInv'
  BY NextSync
<1> QED
  BY <1>1, InitSync, PTL DEF Spec

\* What survives a crash is enough to recover, whatever fails or restarts and
\* whatever is rebuilt, as long as a slot is lost only between two runs and once
\* every sink is seeded: the slot moves past a change only when every sink has
\* flushed what carries it, and a seed marker is written only behind everything
\* the snapshot sent.
THEOREM WhatIsLeftIsEnough ==
    ASSUME SlotLossAt \subseteq {"seeded"}
    PROVE  Spec => []Recoverable
<1>1. SyncInv => Recoverable
  <2> SUFFICES ASSUME SyncInv, slot # NoSlot, NEW s \in Sinks, NEW d \in Docs,
                      store[s].seeded, Settled(d)
               PROVE  store[s].serving[d] = db[d]
    BY DEF Recoverable
  <2>1. SettledAt(s, d)
    BY DEF SettledAt, Settled, Seen
  <2>2. SyncedAt(s, d) /\ ~store[s].rebuilding
    BY DEF SyncInv, Seeding
  <2>3. Copy(s)[d] = db[d]
    BY <2>1, <2>2 DEF SyncedAt
  <2> QED
    BY <2>2, <2>3 DEF Copy, CopyOf
<1>2. Spec => []SyncInv
  BY SyncedDeployment
<1> QED
  BY <1>1, <1>2, PTL

\* A deployment at rest has every sink seeded and equal to the source, on the
\* same condition: every change that was read has been flushed behind the
\* snapshot that might have missed it, and no backfill is left unanswered.
THEOREM RestIsSynced ==
    ASSUME SlotLossAt \subseteq {"seeded"}
    PROVE  Spec => []QuietMeansSynced
<1>1. SyncInv => QuietMeansSynced
  <2> SUFFICES ASSUME SyncInv, Quiet, NEW s \in Sinks
               PROVE  store[s].seeded /\ store[s].serving = db
    BY DEF QuietMeansSynced, Synced
  <2>1. Typed /\ Control /\ Numbers /\ Backfills /\ Seeding
    BY DEF SyncInv, DeployInv
  <2>2. /\ ingest = "loop" /\ read = Len(wal) /\ requests = <<>> /\ engine[s] = "run"
        /\ lane[s] = <<>> /\ outbox = NothingOut /\ Live
    BY <2>1 DEF Quiet, Control, Live
  <2>3. Pipe(s) = <<>>
    <3>1. Pipe(s) = <<>> \o <<>>
      BY <2>2 DEF Pipe, NothingOut
    <3> QED
      BY <3>1, EmptySeq, ConcatEmptySeq
  <2>4. store[s].seeded
    <3>1. ~outstanding[s]
      BY <2>1, <2>2, <2>3 DEF Backfills, Marked
    <3> QED
      BY <2>1, <2>2, <3>1 DEF Seeding
  <2>5. ASSUME NEW d \in Docs PROVE store[s].serving[d] = db[d]
    <3>1. Len(wal) \in Nat /\ Seen(read, d)
      BY <2>1, <2>2 DEF Typed, Seen
    <3>2. ~Caught(Pipe(s), d, db[d], Past(d))
      BY <2>3 DEF Caught
    <3>3. SyncedAt(s, d)
      BY DEF SyncInv
    <3>4. SettledAt(s, d)
      BY <2>2, <3>1, <3>2, <3>3 DEF SyncedAt
    <3>5. Copy(s)[d] = db[d]
      BY <2>4, <3>3, <3>4 DEF SyncedAt
    <3> QED
      BY <2>1, <2>4, <3>5 DEF Seeding, Copy, CopyOf
  <2>6. store[s].serving \in Contents /\ db \in Contents
    BY <2>1 DEF Typed, Store
  <2> QED
    BY <2>4, <2>5, <2>6 DEF Contents
<1>2. Spec => []SyncInv
  BY SyncedDeployment
<1> QED
  BY <1>1, <1>2, PTL

-----------------------------------------------------------------------------
(* Two copies and a marker.                                                *)

\* What the calls of the sink port make of a store, field by field.
LEMMA StoreFields ==
    ASSUME NEW st \in Store, NEW x \in Items
    PROVE  /\ Reindexed(st).serving = st.serving /\ Reindexed(st).building = Empty
           /\ Reindexed(st).rebuilding = TRUE /\ Reindexed(st).seeded = FALSE
           /\ Swapped(st).serving = CopyOf(st)
           /\ Seeded(st).serving = CopyOf(st)
           /\ x.kind = "batch" /\ st.rebuilding =>
                 Processed(st, x).serving = st.serving
                 /\ Processed(st, x).building \in Contents
           /\ x.kind = "batch" /\ ~st.rebuilding => Processed(st, x).serving \in Contents
<1>1. /\ st.serving \in Contents /\ st.building \in Contents
      /\ st.rebuilding \in BOOLEAN /\ st.seeded \in BOOLEAN
      /\ st = [serving |-> st.serving, building |-> st.building,
               rebuilding |-> st.rebuilding, seeded |-> st.seeded]
  BY DEF Store
<1>2. Processed(st, x) \in Store
  BY ProcessedResult
<1>3. /\ Processed(st, x).serving \in Contents
      /\ Processed(st, x).building \in Contents
  BY <1>2 DEF Store
<1>4. Swapped(st).serving = CopyOf(st) /\ Seeded(st).serving = Swapped(st).serving
  BY <1>1 DEF Swapped, Seeded, CopyOf
<1>5. ASSUME x.kind = "batch", st.rebuilding
      PROVE  Processed(st, x).serving = st.serving
  BY <1>1, <1>5 DEF Processed, Applied
<1>6. /\ Reindexed(st).serving = st.serving /\ Reindexed(st).building = Empty
      /\ Reindexed(st).rebuilding = TRUE /\ Reindexed(st).seeded = FALSE
  BY DEF Reindexed, Store
<1> QED
  BY <1>1, <1>3, <1>4, <1>5, <1>6

\* Each call is one the two copies allow.
LEMMA CallIsAllowed ==
    ASSUME NEW s \in Sinks, store[s] \in Store, store'[s] \in Store, NEW x \in Items,
           \/ store'[s] = store[s]
           \/ store'[s] = Reindexed(store[s]) /\ store[s].seeded
           \/ store'[s] = Processed(store[s], x)
           \/ store'[s] = Swapped(store[s])
    PROVE  [Copies(s)!Next]_(Copies(s)!vars)
<1> DEFINE st == store[s]
           new == store'[s]
<1>1. /\ st.rebuilding \in BOOLEAN /\ st.seeded \in BOOLEAN
      /\ st.serving \in Contents /\ st.building \in Contents
      /\ x.kind \in {"batch", "complete"}
  BY ItemFields DEF Store
<1>2. CASE new = st
  BY <1>2 DEF Copies!vars
<1>3. CASE new = Reindexed(st) /\ st.seeded
  <2>1. /\ new.serving = st.serving /\ new.building = Empty /\ new.rebuilding = TRUE
        /\ new.seeded = FALSE
    BY <1>3, StoreFields
  <2>2. Copies(s)!Reindex
    BY <1>1, <1>3, <2>1 DEF Copies!Reindex
  <2> QED
    BY <2>2 DEF Copies!Next
<1>4. CASE new = Processed(st, x) /\ x.kind = "batch"
  <2>1. new.rebuilding = st.rebuilding /\ new.seeded = st.seeded
    BY <1>1, <1>4, ProcessedResult
  <2>2. Copies(s)!Apply
    BY <1>1, <1>4, <2>1, StoreFields DEF Copies!Apply, Copies!Written
  <2> QED
    BY <2>2 DEF Copies!Next
<1>5. CASE new = Seeded(st)
  <2>1. new.serving = CopyOf(st) /\ new.rebuilding = FALSE /\ new.seeded = TRUE
    <3>1. Seeded(st).serving = CopyOf(st)
      BY StoreFields
    <3>2. Seeded(st).rebuilding = FALSE /\ Seeded(st).seeded = TRUE
      BY StoreResult
    <3> QED
      BY <1>5, <3>1, <3>2
  <2>2. Copies(s)!Seed
    BY <1>1, <2>1 DEF Copies!Seed, Copies!Serve, CopyOf
  <2> QED
    BY <2>2 DEF Copies!Next
<1>6. CASE new = Swapped(st)
  <2>1. new.serving = CopyOf(st) /\ new.rebuilding = FALSE /\ new.seeded = st.seeded
    <3>1. Swapped(st).serving = CopyOf(st)
      BY StoreFields
    <3>2. Swapped(st).rebuilding = FALSE /\ Swapped(st).seeded = st.seeded
      BY StoreResult
    <3> QED
      BY <1>6, <3>1, <3>2
  <2>2. CASE st.rebuilding
    <3>1. Copies(s)!Swap
      BY <1>1, <2>1, <2>2 DEF Copies!Swap, Copies!Serve, CopyOf
    <3> QED
      BY <3>1 DEF Copies!Next
  <2>3. CASE ~st.rebuilding
    <3>1. new = st
      BY <1>6, <2>3 DEF Swapped
    <3> QED
      BY <1>2, <3>1
  <2> QED
    BY <1>1, <2>2, <2>3
<1>7. x.kind = "complete" => Processed(st, x) = Seeded(st)
  BY ProcessedResult
<1> QED
  BY <1>1, <1>2, <1>3, <1>4, <1>5, <1>6, <1>7

LEMMA NextCopies ==
    ASSUME Typed, Typed', Seeding, [Next]_vars, NEW s \in Sinks
    PROVE  [Copies(s)!Next]_(Copies(s)!vars)
<1>1. store[s] \in Store /\ store'[s] \in Store
  BY DEF Typed
<1>2. CASE SinkCommit(s)
  <2>1. store'[s] = Processed(store[s], Head(lane[s])) /\ Head(lane[s]) \in Items
    BY <1>2, PipeDrops DEF SinkCommit, Typed
  <2> QED
    BY <1>1, <2>1, CallIsAllowed
<1>3. CASE ~SinkCommit(s)
  <2>1. engine[s] = "run" /\ ~outstanding[s] => store[s].seeded
    BY DEF Seeding
  <2>2. CASE store'[s] = store[s]
    BY <2>2 DEF Copies!vars
  <2>3. CASE store'[s] = Reindexed(store[s]) /\ store[s].seeded
    <3>1. outbox.item \in Items
      BY DEF Typed
    <3> QED
      BY <1>1, <2>3, <3>1, CallIsAllowed
  <2>4. CASE /\ engine[s] = "item"
             /\ store'[s] \in {Processed(store[s], Head(lane[s])), Swapped(store[s])}
    <3>1. lane[s] \in Seq(Items) /\ lane[s] # <<>>
      BY <2>4 DEF Typed
    <3>2. Head(lane[s]) \in Items
      BY <3>1
    <3> QED
      BY <1>1, <2>4, <3>2, CallIsAllowed
  <2> QED
    BY <1>3, <2>1, <2>2, <2>3, <2>4, StoreCases
<1> QED
  BY <1>2, <1>3

\* Whatever the engines do to a sink, and wherever the slot is lost, is a step of
\* the two copies that OpensearchSink implements: a rebuild is started only for
\* an index that is seeded, by staging under a source that lost its slot or
\* by an operator while no backfill is outstanding (sink_engine.rs:156-205,
\* 330-362).
THEOREM DeploymentUsesTwoCopies == Spec => SinksAreTwoCopies
<1>1. Init => Seeding /\ \A s \in Sinks : Copies(s)!Init
  BY DEF Init, Seeding, Copies!Init
<1>2. DeployInv /\ Seeding /\ [Next]_vars => Seeding'
  BY NextSeeding DEF DeployInv
<1>3. DeployInv /\ DeployInv' /\ Seeding /\ [Next]_vars
        => [\A s \in Sinks : [Copies(s)!Next]_(Copies(s)!vars)]_vars
  BY NextCopies DEF DeployInv
<1>4. Spec => []Seeding
  BY <1>1, <1>2, Deployment, PTL DEF Spec
<1> QED
  BY <1>1, <1>3, <1>4, Deployment, PTL DEF Spec, SinksAreTwoCopies
=============================================================================
