-------------------------- MODULE WalCaptureProofs --------------------------
(***************************************************************************)
(* Proofs about the WAL capture, for a WAL of any length, transactions of  *)
(* any size and any number of reopened streams and crashes.                *)
(***************************************************************************)
EXTENDS WalCapture, Greatest, SequenceTheorems

\* What the numbering of positions needs of the bookkeeping: a record whose
\* next number is a natural number.  What the confirmed LSN is does not matter.
IsPositions(p) ==
    /\ DOMAIN p = {"next_seq", "lsn_by_seq", "confirmed_lsn"}
    /\ p.next_seq \in Nat

\* No operation of the bookkeeping hands a number out twice: next_seq never
\* goes back, and registering a change takes exactly one number.
LEMMA NumbersGrow ==
    ASSUME NEW p, IsPositions(p), NEW lsn, NEW seq
    PROVE  /\ IsPositions(Register(p, lsn))
           /\ Register(p, lsn).next_seq = p.next_seq + 1
           /\ IsPositions(RegisterConfirmed(p, lsn))
           /\ RegisterConfirmed(p, lsn).next_seq >= p.next_seq
           /\ IsPositions(ConfirmUpTo(p, seq))
           /\ ConfirmUpTo(p, seq).next_seq = p.next_seq
           /\ IsPositions(NewPositions(0, p.next_seq))
           /\ NewPositions(0, p.next_seq).next_seq = p.next_seq
<1>1. /\ IsPositions(Register(p, lsn))
      /\ Register(p, lsn).next_seq = p.next_seq + 1
  BY DEF IsPositions, Register
<1>2. /\ IsPositions(RegisterConfirmed(p, lsn))
      /\ RegisterConfirmed(p, lsn).next_seq >= p.next_seq
  <2>1. CASE p.lsn_by_seq = {}
    BY <2>1 DEF IsPositions, RegisterConfirmed
  <2>2. CASE p.lsn_by_seq # {}
    BY <2>2, <1>1 DEF IsPositions, RegisterConfirmed
  <2> QED
    BY <2>1, <2>2
<1>3. /\ IsPositions(ConfirmUpTo(p, seq))
      /\ ConfirmUpTo(p, seq).next_seq = p.next_seq
  BY DEF IsPositions, ConfirmUpTo
<1>4. /\ IsPositions(NewPositions(0, p.next_seq))
      /\ NewPositions(0, p.next_seq).next_seq = p.next_seq
  BY DEF IsPositions, NewPositions
<1> QED
  BY <1>1, <1>2, <1>3, <1>4

\* Every number handed out in this process lies below the next one.
NumbersTaken ==
    /\ IsPositions(positions)
    /\ \A e \in emitted : e.seq \in Nat /\ e.seq < positions.next_seq

\* The inductive invariant: a number taken once is below next_seq for the rest
\* of the process, so the next change gets a number no other change has.
NumberingInv == NumbersTaken /\ PositionsNameOneChange

\* A step that emits nothing keeps the invariant when next_seq does not go back.
LEMMA NoEmission ==
    ASSUME NumberingInv, UNCHANGED emitted,
           IsPositions(positions'), positions'.next_seq >= positions.next_seq
    PROVE  NumberingInv'
  BY DEF NumberingInv, NumbersTaken, PositionsNameOneChange, IsPositions

\* The initial state: nothing emitted.
LEMMA NumberingInit == Init => NumberingInv
  BY DEF Init, NumberingInv, NumbersTaken, PositionsNameOneChange, IsPositions, NewPositions

\* Every step of the server, the capture and the pipeline keeps the invariant.
LEMMA NumberingNext == NumberingInv /\ [Next]_vars => NumberingInv'
<1> SUFFICES ASSUME NumberingInv, [Next]_vars
             PROVE  NumberingInv'
  OBVIOUS
<1> USE DEF wire, decode, down
<1>1. IsPositions(positions)
  BY DEF NumberingInv, NumbersTaken
<1>2. ASSUME UNCHANGED emitted, UNCHANGED positions
      PROVE  NumberingInv'
  BY <1>2, <1>1, NoEmission DEF IsPositions
<1>3. CASE UNCHANGED vars
  BY <1>2, <1>3 DEF vars
<1>4. CASE Commit \/ Feedback \/ SkipFiltered
  BY <1>2, <1>4 DEF Commit, Feedback, SkipFiltered
<1>5. CASE Open
  <2>1. positions' = NewPositions(0, positions.next_seq) /\ UNCHANGED emitted
    BY <1>5 DEF Open
  <2>2. IsPositions(positions') /\ positions'.next_seq = positions.next_seq
    BY <2>1, <1>1, NumbersGrow
  <2> QED
    BY <2>1, <2>2, <1>1, NoEmission DEF IsPositions
<1>6. CASE RecvBegin \/ RecvChange
  BY <1>2, <1>6 DEF RecvBegin, RecvChange
<1>7. CASE RecvCommit \/ RecvKeepAlive
  <2>1. /\ UNCHANGED emitted
        /\ \/ UNCHANGED positions
           \/ \E lsn \in {sent, sent + 1} : positions' = RegisterConfirmed(positions, lsn)
    BY <1>7 DEF RecvCommit, RecvKeepAlive
  <2>2. CASE UNCHANGED positions
    BY <2>1, <2>2, <1>2
  <2>3. CASE \E lsn \in {sent, sent + 1} : positions' = RegisterConfirmed(positions, lsn)
    <3>1. IsPositions(positions') /\ positions'.next_seq >= positions.next_seq
      BY <2>3, <1>1, NumbersGrow
    <3> QED
      BY <2>1, <3>1, NoEmission
  <2> QED
    BY <2>1, <2>2, <2>3
<1>8. CASE Emit
  <2> DEFINE e == [seq |-> positions.next_seq, change |-> Head(pending)]
  <2>1. /\ positions' = Register(positions, Head(pending)[1])
        /\ emitted' = emitted \cup {e}
    BY <1>8 DEF Emit
  <2>2. IsPositions(positions') /\ positions'.next_seq = positions.next_seq + 1
    BY <2>1, <1>1, NumbersGrow
  <2>3. positions.next_seq \in Nat /\ e.seq = positions.next_seq
    BY <1>1 DEF IsPositions
  <2>4. \A f \in emitted : f.seq \in Nat /\ f.seq < e.seq
    BY <2>3 DEF NumberingInv, NumbersTaken
  <2>5. NumbersTaken'
    BY <2>1, <2>2, <2>3, <2>4 DEF NumbersTaken
  <2>6. PositionsNameOneChange'
    <3> HIDE DEF e
    <3>1. \A f \in emitted : f.seq # e.seq
      BY <2>4, <2>3
    <3> QED
      BY <2>1, <3>1 DEF NumberingInv, PositionsNameOneChange
  <2> QED
    BY <2>5, <2>6 DEF NumberingInv
<1>9. CASE StreamEnd \/ Disconnect
  BY <1>2, <1>9 DEF StreamEnd, Disconnect
<1>10. CASE Crash \/ Stop
  BY <1>10
     DEF Crash, Stop, ProcessGone, NumberingInv, NumbersTaken, PositionsNameOneChange,
         IsPositions, NewPositions
<1>11. CASE Publish \/ Ack
  BY <1>2, <1>11 DEF Publish, Ack
<1>12. CASE Confirm
  <2>1. positions' = ConfirmUpTo(positions, acked - 1) /\ UNCHANGED emitted
    BY <1>12 DEF Confirm
  <2>2. IsPositions(positions') /\ positions'.next_seq = positions.next_seq
    BY <2>1, <1>1, NumbersGrow
  <2> QED
    BY <2>1, <2>2, <1>1, NoEmission DEF IsPositions
<1> QED
  BY <1>3, <1>4, <1>5, <1>6, <1>7, <1>8, <1>9, <1>10, <1>11, <1>12 DEF Next

\* A position names one change for the life of the process, across every
\* reopened stream (the first_seq of capture.rs:233): a watermark the lanes hold
\* from an earlier stream never confirms a change of the new one.
THEOREM PositionsNeverReused == Spec => []PositionsNameOneChange
<1>1. NumberingInv => PositionsNameOneChange
  BY DEF NumberingInv
<1> QED
  BY NumberingInit, NumberingNext, <1>1, PTL DEF Spec

-----------------------------------------------------------------------------
(***************************************************************************)
(* The slot and the sinks.  A transaction is held when some change of it   *)
(* is durable; the slot may stand at an LSN when every transaction up to   *)
(* it that carries changes is held.                                        *)
(***************************************************************************)
Carrying == {n \in 1 .. Len(wal) : wal[n] > 0}
Held(n) == \E c \in durable : c[1] = n
Safe(l) == l =< Len(wal) /\ \A n \in Carrying : n =< l => Held(n)

\* A position at or before seq is outstanding for a change of transaction n.
Queued(n, seq) ==
    \E e \in positions.lsn_by_seq, g \in emitted :
        e.seq =< seq /\ e.lsn = n /\ g.seq = e.seq /\ g.change[1] = n

\* What is confirmed to the server, or about to be.
ConfirmedSafe == Safe(slot_lsn) /\ Safe(applied) /\ Safe(positions.confirmed_lsn)

\* An emitted change is durable, in the batch, or in an item of the lanes.
InTransit(g) ==
    \/ g.change \in durable
    \/ g \in batch.changes
    \/ \E i \in 1 .. Len(lanes) : g \in lanes[i].changes

\* No outstanding position of the open stream is forgotten on its way.
NoneForgotten ==
    connected => \A e \in positions.lsn_by_seq, g \in emitted : g.seq = e.seq => InTransit(g)

\* What is on its way is in the order of its positions: above the watermark,
\* above every item before it, at or below its own item's position.
InOrder ==
    /\ acked =< positions.next_seq
    /\ batch = EmptyBatch \/ batch.position < positions.next_seq
    /\ \A g \in batch.changes : acked =< g.seq /\ g.seq =< batch.position
    /\ \A i \in 1 .. Len(lanes) :
        /\ lanes[i].position < positions.next_seq
        /\ \A g \in batch.changes : lanes[i].position < g.seq
        /\ \A g \in lanes[i].changes : acked =< g.seq /\ g.seq =< lanes[i].position
        /\ \A j \in 1 .. Len(lanes) :
              j < i => \A g \in lanes[i].changes : lanes[j].position < g.seq

\* An outstanding position may be confirmed when those before it are: every
\* transaction up to its LSN is held or outstanding at or before it.
EntriesCovered ==
    \A e \in positions.lsn_by_seq :
        /\ e.seq < positions.next_seq /\ e.lsn =< Len(wal)
        /\ \A n \in Carrying : n =< e.lsn => Held(n) \/ Queued(n, e.seq)

\* The open transaction is the one after sent, received in order up to stage;
\* the changes waiting to be emitted are of one transaction at or before sent.
Decoding ==
    /\ stage = 0 => open_txn = <<>>
    /\ stage > 0 => /\ sent < Len(wal) /\ stage =< wal[sent + 1] + 1
                    /\ Len(open_txn) = stage - 1
    /\ \A i \in 1 .. Len(open_txn) : open_txn[i][1] = sent + 1
    /\ \A i \in 1 .. Len(pending) : pending[i][1] = pending[1][1] /\ pending[i][1] =< sent

\* Of what the server has sent, a transaction that is neither held nor
\* outstanding is the one whose changes wait to be emitted.
Streamed ==
    \A n \in Carrying :
        n =< sent => \/ Held(n) \/ Queued(n, positions.next_seq)
                    \/ (pending # <<>> /\ n = pending[1][1])

WalInv ==
    /\ TypeOK /\ ConfirmedSafe /\ EntriesCovered
    /\ NoneForgotten /\ InOrder
    /\ Decoding /\ Streamed

-----------------------------------------------------------------------------
\* What the operations of the bookkeeping return (ack.rs:38-106).
LEMMA RegisterResult ==
    ASSUME NEW p \in PositionsType, NEW lsn \in Nat
    PROVE  /\ Register(p, lsn) \in PositionsType
           /\ Register(p, lsn).next_seq = p.next_seq + 1
           /\ Register(p, lsn).lsn_by_seq
                = p.lsn_by_seq \cup {[seq |-> p.next_seq, lsn |-> lsn]}
           /\ Register(p, lsn).confirmed_lsn = p.confirmed_lsn
<1> DEFINE entries == p.lsn_by_seq \cup {[seq |-> p.next_seq, lsn |-> lsn]}
<1>1. entries \in SUBSET [seq : Nat, lsn : Nat] /\ p.next_seq + 1 \in Nat
  BY DEF PositionsType
<1>2. Register(p, lsn) = [p EXCEPT !.next_seq = p.next_seq + 1, !.lsn_by_seq = entries]
  BY DEF Register, PositionsType
<1> HIDE DEF entries
<1>3. /\ Register(p, lsn) \in PositionsType
      /\ Register(p, lsn).next_seq = p.next_seq + 1
      /\ Register(p, lsn).lsn_by_seq = entries
      /\ Register(p, lsn).confirmed_lsn = p.confirmed_lsn
  BY <1>1, <1>2 DEF PositionsType
<1>4. QED
  BY <1>3 DEF entries

LEMMA ConfirmInPlaceResult ==
    ASSUME NEW p \in PositionsType, NEW lsn \in Nat, p.lsn_by_seq = {}
    PROVE  /\ RegisterConfirmed(p, lsn) \in PositionsType
           /\ RegisterConfirmed(p, lsn).next_seq = p.next_seq
           /\ RegisterConfirmed(p, lsn).lsn_by_seq = {}
           /\ RegisterConfirmed(p, lsn).confirmed_lsn \in {p.confirmed_lsn, lsn}
<1> DEFINE both == {p.confirmed_lsn, lsn}
<1>1. both \subseteq Nat /\ both # {}
  BY DEF PositionsType
<1>2. Bounded(both)
  BY <1>1 DEF Bounded, PositionsType
<1>3. Max(both) \in both
  BY <1>1, <1>2, MaxProperties
<1>4. RegisterConfirmed(p, lsn) = [p EXCEPT !.confirmed_lsn = Max(both)]
  BY DEF RegisterConfirmed, PositionsType
<1> HIDE DEF both
<1>5. Max(both) \in Nat /\ Max(both) \in {p.confirmed_lsn, lsn}
  BY <1>1, <1>3 DEF both
<1>6. QED
  BY <1>4, <1>5 DEF PositionsType

LEMMA ConfirmResult ==
    ASSUME NEW p \in PositionsType, NEW seq \in Nat,
           Bounded({e.lsn : e \in p.lsn_by_seq})
    PROVE  /\ ConfirmUpTo(p, seq) \in PositionsType
           /\ ConfirmUpTo(p, seq).next_seq = p.next_seq
           /\ ConfirmUpTo(p, seq).lsn_by_seq = {e \in p.lsn_by_seq : e.seq > seq}
           /\ \/ ConfirmUpTo(p, seq).confirmed_lsn = p.confirmed_lsn
              \/ \E e \in p.lsn_by_seq :
                    e.seq =< seq /\ ConfirmUpTo(p, seq).confirmed_lsn = e.lsn
<1> DEFINE covered == {e \in p.lsn_by_seq : e.seq =< seq}
           lsns == {p.confirmed_lsn} \cup {e.lsn : e \in covered}
<1>1. lsns \subseteq Nat /\ lsns # {}
  BY DEF PositionsType
<1>2. Bounded(lsns)
  <2>1. PICK m \in Nat : \A x \in {e.lsn : e \in p.lsn_by_seq} : x <= m
    BY DEF Bounded
  <2>2. p.confirmed_lsn \in Nat
    BY DEF PositionsType
  <2>3. \A x \in lsns : x <= m + p.confirmed_lsn
    BY <2>1, <2>2, <1>1
  <2>4. QED
    BY <2>2, <2>3 DEF Bounded
<1>3. Max(lsns) \in lsns
  BY <1>1, <1>2, MaxProperties
<1>4. ConfirmUpTo(p, seq)
        = [p EXCEPT !.lsn_by_seq = @ \ covered, !.confirmed_lsn = Max(lsns)]
  BY DEF ConfirmUpTo, PositionsType
<1>5. p.lsn_by_seq \ covered = {e \in p.lsn_by_seq : e.seq > seq}
  BY DEF PositionsType
<1>6. Max(lsns) \in Nat
  BY <1>1, <1>3
<1> HIDE DEF lsns
<1>7. /\ ConfirmUpTo(p, seq) \in PositionsType
      /\ ConfirmUpTo(p, seq).next_seq = p.next_seq
      /\ ConfirmUpTo(p, seq).lsn_by_seq = p.lsn_by_seq \ covered
      /\ ConfirmUpTo(p, seq).confirmed_lsn = Max(lsns)
  BY <1>4, <1>6 DEF PositionsType
<1>8. QED
  BY <1>3, <1>5, <1>7 DEF lsns

\* The bounds an entry's LSN has.
LEMMA EntriesBounded ==
    ASSUME WalInv
    PROVE  Bounded({e.lsn : e \in positions.lsn_by_seq})
<1>1. Len(wal) \in Nat
  BY DEF WalInv, TypeOK
<1>2. \A x \in {e.lsn : e \in positions.lsn_by_seq} : x <= Len(wal)
  BY DEF WalInv, EntriesCovered
<1>3. QED
  BY <1>1, <1>2 DEF Bounded

-----------------------------------------------------------------------------
\* Nothing held or outstanding is forgotten by a step that only adds.
LEMMA Remembered ==
    ASSUME positions.lsn_by_seq \subseteq positions'.lsn_by_seq,
           emitted \subseteq emitted', durable \subseteq durable'
    PROVE  /\ \A n : Held(n) => Held(n)'
           /\ \A n, seq : Queued(n, seq) => Queued(n, seq)'
  BY DEF Held, Queued

\* The transaction the server sends next, and the one being received.
LEMMA NextTransaction ==
    ASSUME WalInv
    PROVE  /\ Len(wal) \in Nat /\ Len(wal) =< MaxWal /\ sent \in Nat /\ sent =< Len(wal)
           /\ sent < Len(wal) => sent + 1 \in 1 .. Len(wal) /\ wal[sent + 1] \in 0 .. MaxTxn
<1>1. wal \in Seq(0 .. MaxTxn) /\ Len(wal) \in Nat /\ Len(wal) =< MaxWal
  BY DEF WalInv, TypeOK
<1>2. sent \in Nat /\ sent =< Len(wal)
  BY <1>1 DEF WalInv, TypeOK
<1>3. ASSUME sent < Len(wal)
      PROVE  sent + 1 \in 1 .. Len(wal) /\ wal[sent + 1] \in 0 .. MaxTxn
  <2> DEFINE sizes == 0 .. MaxTxn
  <2>1. wal \in Seq(sizes) /\ sent + 1 \in 1 .. Len(wal)
    BY <1>1, <1>2, <1>3
  <2> HIDE DEF sizes
  <2>2. wal[sent + 1] \in sizes
    BY <2>1, ElementOfSeq
  <2>3. QED
    BY <2>1, <2>2 DEF sizes
<1>4. QED
  BY <1>1, <1>2, <1>3

LEMMA OpenTransaction ==
    ASSUME WalInv, stage > 0
    PROVE  /\ sent < Len(wal) /\ stage \in Nat /\ stage =< wal[sent + 1] + 1
           /\ open_txn \in Seq(Change) /\ Len(open_txn) = stage - 1
           /\ \A i \in 1 .. Len(open_txn) : open_txn[i][1] = sent + 1
<1>1. stage \in Nat /\ open_txn \in Seq(Change)
  BY BoundsAssumption DEF WalInv, TypeOK
<1>2. QED
  BY <1>1 DEF WalInv, Decoding

\* A step that touches neither the WAL nor the bookkeeping; the slot may take
\* the LSN handed to the feedback task, and that the confirmed one.
LEMMA SafeUntouched ==
    ASSUME WalInv, UNCHANGED <<wal, positions, emitted, durable>>,
           slot_lsn' \in {slot_lsn, applied},
           applied' \in {0, applied, positions.confirmed_lsn}
    PROVE  ConfirmedSafe' /\ EntriesCovered'
<1>1. Safe(0)
  BY DEF Safe, Carrying, WalInv, TypeOK
<1>2. \A l : Safe(l)' <=> Safe(l)
  BY DEF Safe, Carrying, Held
<1>3. ConfirmedSafe'
  <2>1. Safe(slot_lsn') /\ Safe(applied') /\ Safe(positions'.confirmed_lsn)
    BY <1>1 DEF WalInv, ConfirmedSafe
  <2>2. QED
    BY <2>1 DEF ConfirmedSafe, Safe, Carrying, Held
<1>4. EntriesCovered'
  <2>1. \A n, seq : (Held(n) <=> Held(n)') /\ (Queued(n, seq) <=> Queued(n, seq)')
    BY DEF Held, Queued
  <2>2. Carrying' = Carrying
    BY DEF Carrying
  <2>3. QED
    BY <2>1, <2>2 DEF WalInv, EntriesCovered
<1>5. QED
  BY <1>3, <1>4

\* The types of what is on its way.
LEMMA TransitTypes ==
    ASSUME TypeOK
    PROVE  /\ positions.next_seq \in Nat /\ acked \in Nat
           /\ batch.position \in Nat /\ \A g \in batch.changes : g.seq \in Nat
           /\ \A i \in 1 .. Len(lanes) :
                 /\ lanes[i] \in Item /\ lanes[i].position \in Nat
                 /\ \A g \in lanes[i].changes : g.seq \in Nat
<1>1. lanes \in Seq(Item) /\ batch \in Item /\ acked \in Nat /\ positions \in PositionsType
  BY DEF TypeOK
<1>2. \A i \in 1 .. Len(lanes) : lanes[i] \in Item
  BY <1>1, ElementOfSeq
<1>3. \A x \in Item : x.position \in Nat /\ \A g \in x.changes : g.seq \in Nat
  BY DEF Item, Emission
<1>4. QED
  BY <1>1, <1>2, <1>3 DEF PositionsType

\* The order is kept when a number is handed out to nothing on its way.
LEMMA OrderKept ==
    ASSUME TypeOK, InOrder, UNCHANGED <<batch, lanes, acked>>,
           positions'.next_seq \in Nat, positions'.next_seq >= positions.next_seq
    PROVE  InOrder'
  BY TransitTypes DEF InOrder, EmptyBatch

\* Nothing on its way moves.
LEMMA TransitUntouched ==
    ASSUME WalInv, UNCHANGED <<connected, positions, emitted, batch, lanes, acked, durable>>
    PROVE  NoneForgotten' /\ InOrder'
<1>1. NoneForgotten'
  BY DEF WalInv, NoneForgotten, InTransit
<1>2. InOrder'
  BY DEF WalInv, InOrder, EmptyBatch
<1>3. QED
  BY <1>1, <1>2

LEMMA BookkeepingUntouched ==
    ASSUME WalInv, UNCHANGED <<wal, connected, positions, emitted, batch, lanes, acked, durable>>,
           slot_lsn' \in {slot_lsn, applied},
           applied' \in {0, applied, positions.confirmed_lsn}
    PROVE  ConfirmedSafe' /\ EntriesCovered' /\ NoneForgotten' /\ InOrder'
  BY SafeUntouched, TransitUntouched

\* An LSN of nothing to deliver is accounted: in place when nothing is
\* outstanding, behind what is otherwise (ack.rs:57-80).
LEMMA AccountKeeps ==
    ASSUME WalInv, NumberingInv, NEW lsn \in Nat, lsn =< Len(wal),
           \A n \in Carrying : n =< lsn => Held(n) \/ Queued(n, positions.next_seq),
           positions' = RegisterConfirmed(positions, lsn),
           applied' = positions'.confirmed_lsn,
           UNCHANGED <<wal, slot_lsn, connected, emitted, batch, lanes, acked, durable>>
    PROVE  /\ positions' \in PositionsType
           /\ positions.lsn_by_seq \subseteq positions'.lsn_by_seq
           /\ ConfirmedSafe' /\ EntriesCovered' /\ NoneForgotten' /\ InOrder'
<1>1. positions \in PositionsType /\ Len(wal) \in Nat
  BY DEF WalInv, TypeOK
<1>2. \A l : Safe(l)' <=> Safe(l)
  BY DEF Safe, Carrying, Held
<1>3. CASE positions.lsn_by_seq = {}
  <2>1. /\ positions' \in PositionsType
        /\ positions'.next_seq = positions.next_seq
        /\ positions'.lsn_by_seq = {}
        /\ positions'.confirmed_lsn \in {positions.confirmed_lsn, lsn}
    BY <1>1, <1>3, ConfirmInPlaceResult
  <2>2. \A n : ~Queued(n, positions.next_seq)
    BY <1>3 DEF Queued
  <2>3. Safe(lsn)
    BY <2>2 DEF Safe
  <2>4. Safe(slot_lsn') /\ Safe(applied') /\ Safe(positions'.confirmed_lsn)
    BY <2>1, <2>3 DEF WalInv, ConfirmedSafe
  <2>5. ConfirmedSafe'
    BY <2>4 DEF ConfirmedSafe, Safe, Carrying, Held
  <2>6. EntriesCovered' /\ NoneForgotten' /\ InOrder'
    BY <2>1 DEF WalInv, EntriesCovered, NoneForgotten, InOrder, EmptyBatch
  <2>7. QED
    BY <1>3, <2>1, <2>5, <2>6
<1>4. CASE positions.lsn_by_seq # {}
  <2>1. /\ positions' \in PositionsType
        /\ positions'.next_seq = positions.next_seq + 1
        /\ positions'.lsn_by_seq
             = positions.lsn_by_seq \cup {[seq |-> positions.next_seq, lsn |-> lsn]}
        /\ positions'.confirmed_lsn = positions.confirmed_lsn
    BY <1>1, <1>4, RegisterResult DEF RegisterConfirmed
  <2>2. Safe(slot_lsn') /\ Safe(applied') /\ Safe(positions'.confirmed_lsn)
    BY <2>1 DEF WalInv, ConfirmedSafe
  <2>3. ConfirmedSafe'
    BY <2>2 DEF ConfirmedSafe, Safe, Carrying, Held
  <2>4. NoneForgotten' /\ InOrder'
    <3>1. positions.next_seq \in Nat /\ positions'.next_seq > positions.next_seq
      BY <1>1, <2>1 DEF PositionsType
    <3>2. \A g \in emitted : g.seq # positions.next_seq
      BY <3>1 DEF NumberingInv, NumbersTaken
    <3>3. NoneForgotten'
      BY <2>1, <3>2 DEF WalInv, NoneForgotten, InTransit
    <3>4. InOrder'
      BY <1>1, <2>1, <3>1, OrderKept DEF WalInv
    <3>5. QED
      BY <3>3, <3>4
  <2>5. \A n, seq : (Held(n) => Held(n)') /\ (Queued(n, seq) => Queued(n, seq)')
    BY <2>1, Remembered
  <2>6. Carrying' = Carrying /\ positions.next_seq \in Nat
    BY <1>1 DEF Carrying, PositionsType
  <2>7. ASSUME NEW e \in positions'.lsn_by_seq
        PROVE  /\ e.seq < positions'.next_seq /\ e.lsn =< Len(wal')
               /\ \A n \in Carrying' : n =< e.lsn => Held(n)' \/ Queued(n, e.seq)'
    <3>1. CASE e \in positions.lsn_by_seq
      <4>1. /\ e.seq < positions.next_seq /\ e.lsn =< Len(wal) /\ e.seq \in Nat
            /\ \A n \in Carrying : n =< e.lsn => Held(n) \/ Queued(n, e.seq)
        BY <1>1, <3>1 DEF WalInv, EntriesCovered, PositionsType
      <4>2. QED
        BY <2>1, <2>5, <2>6, <4>1
    <3>2. CASE e.seq = positions.next_seq /\ e.lsn = lsn
      <4>1. \A n \in Carrying : n =< e.lsn => Held(n) \/ Queued(n, e.seq)
        BY <3>2
      <4>2. QED
        BY <2>1, <2>5, <2>6, <3>2, <4>1
    <3>3. QED
      BY <2>1, <3>1, <3>2
  <2>8. EntriesCovered'
    BY <2>7 DEF EntriesCovered
  <2>9. QED
    BY <2>1, <2>3, <2>4, <2>8
<1>5. QED
  BY <1>3, <1>4

-----------------------------------------------------------------------------
\* The server and the decode loop.
LEMMA CommitKeeps == WalInv /\ Commit => WalInv'
<1> SUFFICES ASSUME WalInv, Commit
             PROVE  WalInv'
  OBVIOUS
<1> USE DEF wire, decode, down
<1>1. PICK k \in 0 .. MaxTxn : wal' = Append(wal, k)
  BY DEF Commit
<1>2. wal \in Seq(0 .. MaxTxn) /\ Len(wal) \in Nat /\ Len(wal) < MaxWal
  BY DEF WalInv, TypeOK, Commit
<1>3. /\ wal' \in Seq(0 .. MaxTxn) /\ Len(wal') = Len(wal) + 1
      /\ \A i \in 1 .. Len(wal) : wal'[i] = wal[i]
  BY <1>1, <1>2, AppendProperties
<1>4. UNCHANGED <<slot_lsn, connected, sent, stage, open_txn, pending, done, positions,
                  applied, emitted, batch, lanes, acked, durable, faults>>
  BY DEF Commit
<1>5. \A n \in Carrying' : n =< Len(wal) => n \in Carrying
  BY <1>2, <1>3 DEF Carrying
<1>6. \A n, seq : (Held(n) <=> Held(n)') /\ (Queued(n, seq) <=> Queued(n, seq)')
  BY <1>4 DEF Held, Queued
<1>7. TypeOK'
  <2>1. /\ sent \in 0 .. Len(wal) /\ slot_lsn \in 0 .. Len(wal) /\ applied \in 0 .. Len(wal)
        /\ Len(wal') =< MaxWal
    BY <1>2, <1>3, BoundsAssumption DEF WalInv, TypeOK
  <2>2. /\ sent \in 0 .. Len(wal') /\ slot_lsn \in 0 .. Len(wal')
        /\ applied \in 0 .. Len(wal')
    BY <1>2, <1>3, <2>1
  <2>3. QED
    BY <1>3, <1>4, <2>1, <2>2 DEF WalInv, TypeOK
<1>8. ConfirmedSafe'
  <2>1. slot_lsn \in Nat /\ applied \in Nat /\ positions.confirmed_lsn \in Nat
    BY DEF WalInv, TypeOK, PositionsType
  <2>2. \A l \in Nat : Safe(l) => l =< Len(wal') /\ \A n \in Carrying' : n =< l => Held(n)
    BY <1>2, <1>3, <1>5 DEF Safe, Carrying
  <2>3. QED
    BY <1>4, <1>6, <2>1, <2>2 DEF WalInv, ConfirmedSafe, Safe
<1>9. NoneForgotten' /\ InOrder'
  BY <1>4, TransitUntouched
<1>10. EntriesCovered'
  <2>1. ASSUME NEW e \in positions.lsn_by_seq
        PROVE  /\ e.seq < positions.next_seq /\ e.lsn =< Len(wal')
               /\ \A n \in Carrying' : n =< e.lsn => Held(n) \/ Queued(n, e.seq)
    <3>1. e.lsn \in Nat /\ e.lsn =< Len(wal)
      BY DEF WalInv, TypeOK, PositionsType, EntriesCovered
    <3>2. \A n \in Carrying' : n =< e.lsn => n \in Carrying
      BY <1>2, <1>5, <3>1 DEF Carrying
    <3>3. QED
      BY <1>2, <1>3, <3>1, <3>2 DEF WalInv, EntriesCovered
  <2>2. QED
    BY <1>4, <1>6, <2>1 DEF EntriesCovered
<1>11. Decoding'
  <2>1. stage > 0 => sent + 1 \in 1 .. Len(wal) /\ wal'[sent + 1] = wal[sent + 1]
    <3>1. sent \in Nat /\ Len(wal) \in Nat
      BY <1>3 DEF WalInv, TypeOK
    <3>2. stage > 0 => sent + 1 \in 1 .. Len(wal)
      BY <3>1 DEF WalInv, Decoding
    <3> QED
      BY <1>2, <1>3, <3>2
  <2>2. stage > 0 => sent < Len(wal') /\ stage =< wal'[sent + 1] + 1
    BY <1>2, <1>3, <2>1 DEF WalInv, Decoding, TypeOK
  <2>3. QED
    BY <1>4, <2>2 DEF WalInv, Decoding
<1>12. Streamed'
  <2>1. \A n \in Carrying' : n =< sent => n \in Carrying
    BY <1>2, <1>5 DEF WalInv, TypeOK, Carrying
  <2>2. QED
    BY <1>4, <1>6, <2>1 DEF WalInv, Streamed
<1>13. QED
  BY <1>7, <1>8, <1>9, <1>10, <1>11, <1>12 DEF WalInv

LEMMA FeedbackKeeps == WalInv /\ Feedback => WalInv'
<1> SUFFICES ASSUME WalInv, Feedback
             PROVE  WalInv'
  OBVIOUS
<1> USE DEF Feedback, wire, decode, down
<1>1. ConfirmedSafe' /\ EntriesCovered' /\ NoneForgotten' /\ InOrder'
  BY BookkeepingUntouched
<1>2. TypeOK' /\ Decoding'
  BY DEF WalInv, TypeOK, Decoding
<1>3. Streamed'
  BY DEF WalInv, Streamed, Carrying, Held, Queued
<1>4. QED
  BY <1>1, <1>2, <1>3 DEF WalInv

\* A transaction the server passes over carries nothing.
LEMMA SkipFilteredKeeps == WalInv /\ SkipFiltered => WalInv'
<1> SUFFICES ASSUME WalInv, SkipFiltered
             PROVE  WalInv'
  OBVIOUS
<1> USE DEF SkipFiltered, decode, down
<1>1. ConfirmedSafe' /\ EntriesCovered' /\ NoneForgotten' /\ InOrder'
  BY BookkeepingUntouched
<1>2. sent \in Nat /\ Len(wal) \in Nat /\ sent' = sent + 1 /\ sent < Len(wal)
  BY DEF WalInv, TypeOK
<1>3. TypeOK'
  BY <1>2 DEF WalInv, TypeOK
<1>4. Decoding'
  <2>1. open_txn = <<>> /\ pending \in Seq(Change)
    BY DEF WalInv, TypeOK, Decoding
  <2>2. \A i \in 1 .. Len(pending) : pending[i][1] \in Nat
    BY <2>1 DEF Change
  <2>3. QED
    BY <1>2, <2>1, <2>2 DEF WalInv, Decoding
<1>5. Streamed'
  <2>1. \A n \in Carrying : n =< sent + 1 => n =< sent
    BY <1>2 DEF Carrying
  <2>2. QED
    BY <1>2, <2>1 DEF WalInv, Streamed, Carrying, Held, Queued
<1>6. QED
  BY <1>1, <1>3, <1>4, <1>5 DEF WalInv

LEMMA OpenKeeps == WalInv /\ NumberingInv /\ Open => WalInv'
<1> SUFFICES ASSUME WalInv, NumberingInv, Open
             PROVE  WalInv'
  OBVIOUS
<1>1. /\ positions' = [next_seq |-> positions.next_seq, lsn_by_seq |-> {}, confirmed_lsn |-> 0]
      /\ positions.next_seq \in Nat /\ Len(wal) \in Nat
      /\ slot_lsn \in 0 .. Len(wal)
      /\ open_txn' = <<>> /\ pending' = <<>> /\ stage' = 0 /\ sent' = slot_lsn /\ applied' = 0
      /\ connected' = TRUE /\ done' = FALSE
      /\ UNCHANGED <<wal, slot_lsn, emitted, batch, lanes, acked, durable, faults>>
  BY DEF Open, down, NewPositions, WalInv, TypeOK, PositionsType
<1>2. TypeOK'
  <2>1. positions' \in PositionsType
    BY <1>1 DEF PositionsType
  <2>2. stage' \in 0 .. (MaxTxn + 1) /\ open_txn' \in Seq(Change) /\ pending' \in Seq(Change)
    BY <1>1, BoundsAssumption, EmptySeq
  <2>3. sent' \in 0 .. Len(wal) /\ applied' \in 0 .. Len(wal)
    BY <1>1
  <2>4. QED
    BY <1>1, <2>1, <2>2, <2>3 DEF WalInv, TypeOK
<1>3. Safe(slot_lsn) /\ Safe(0)
  BY <1>1 DEF WalInv, ConfirmedSafe, Safe, Carrying
<1>4. ConfirmedSafe'
  BY <1>1, <1>3 DEF ConfirmedSafe, Safe, Carrying, Held
<1>5. EntriesCovered' /\ NoneForgotten' /\ Decoding'
  BY <1>1 DEF EntriesCovered, NoneForgotten, Decoding
<1>6. Streamed' /\ InOrder'
  BY <1>1, <1>3, OrderKept DEF WalInv, Streamed, Safe, Carrying, Held
<1>7. QED
  BY <1>2, <1>4, <1>5, <1>6 DEF WalInv

LEMMA RecvBeginKeeps == WalInv /\ RecvBegin => WalInv'
<1> SUFFICES ASSUME WalInv, RecvBegin
             PROVE  WalInv'
  OBVIOUS
<1> USE DEF RecvBegin, Report, down
<1>1. ConfirmedSafe' /\ EntriesCovered' /\ NoneForgotten' /\ InOrder'
  BY BookkeepingUntouched
<1>2. sent \in Nat /\ sent + 1 \in 1 .. Len(wal) /\ wal[sent + 1] \in 0 .. MaxTxn
  BY NextTransaction
<1>3. TypeOK'
  BY <1>1, <1>2, BoundsAssumption DEF WalInv, TypeOK, ConfirmedSafe, Safe, PositionsType
<1>4. Decoding'
  BY <1>2, BoundsAssumption DEF WalInv, Decoding
<1>5. Streamed'
  BY DEF WalInv, Streamed, Carrying, Held, Queued
<1>6. QED
  BY <1>1, <1>3, <1>4, <1>5 DEF WalInv

LEMMA RecvChangeKeeps == WalInv /\ RecvChange => WalInv'
<1> SUFFICES ASSUME WalInv, RecvChange
             PROVE  WalInv'
  OBVIOUS
<1>1. UNCHANGED <<wal, slot_lsn, connected, sent, pending, done, positions, emitted,
                  batch, lanes, acked, durable, faults>>
  BY DEF RecvChange, down
<1>2. ConfirmedSafe' /\ EntriesCovered' /\ NoneForgotten' /\ InOrder'
  BY <1>1, BookkeepingUntouched DEF RecvChange, Report
<1>3. /\ sent \in Nat /\ Len(wal) \in Nat /\ Len(wal) =< MaxWal /\ sent < Len(wal)
      /\ stage \in Nat /\ wal[sent + 1] \in 0 .. MaxTxn /\ Len(open_txn) = stage - 1
      /\ open_txn \in Seq(Change) /\ \A i \in 1 .. Len(open_txn) : open_txn[i][1] = sent + 1
  BY NextTransaction, OpenTransaction DEF RecvChange
<1>4. <<sent + 1, stage>> \in Change /\ <<sent + 1, stage>>[1] = sent + 1
  BY <1>3, BoundsAssumption DEF RecvChange, Change
<1>5. /\ open_txn' \in Seq(Change) /\ Len(open_txn') = stage
      /\ \A i \in 1 .. Len(open_txn) : open_txn'[i] = open_txn[i]
      /\ open_txn'[stage] = <<sent + 1, stage>>
  <2> DEFINE new == <<sent + 1, stage>>
  <2>1. new \in Change /\ open_txn' = Append(open_txn, new) /\ open_txn \in Seq(Change)
    BY <1>3, <1>4 DEF RecvChange
  <2> HIDE DEF new
  <2>2. /\ open_txn' \in Seq(Change) /\ Len(open_txn') = Len(open_txn) + 1
        /\ \A i \in 1 .. Len(open_txn) : open_txn'[i] = open_txn[i]
        /\ open_txn'[Len(open_txn) + 1] = new
    BY <2>1, AppendProperties
  <2>3. Len(open_txn) + 1 = stage
    BY <1>3
  <2>4. QED
    BY <2>2, <2>3 DEF new
<1>6. TypeOK'
  <2>1. applied' \in 0 .. Len(wal)
    BY <1>2, <1>1 DEF WalInv, TypeOK, RecvChange, Report, PositionsType, ConfirmedSafe, Safe
  <2>2. stage' \in 0 .. (MaxTxn + 1)
    BY <1>3, BoundsAssumption DEF RecvChange
  <2>3. QED
    BY <1>1, <1>5, <2>1, <2>2 DEF WalInv, TypeOK
<1>7. Decoding'
  <2>1. \A i \in 1 .. Len(open_txn') : open_txn'[i][1] = sent + 1
    BY <1>3, <1>4, <1>5
  <2>2. stage' = stage + 1 /\ stage' =< wal[sent + 1] + 1
    BY <1>3 DEF RecvChange
  <2>3. QED
    BY <1>1, <1>3, <1>5, <2>1, <2>2 DEF WalInv, Decoding
<1>8. Streamed'
  BY <1>1 DEF WalInv, Streamed, Carrying, Held, Queued
<1>9. QED
  BY <1>2, <1>6, <1>7, <1>8 DEF WalInv

\* A commit: what was received of the transaction waits to be emitted, and if
\* that is nothing the transaction carries nothing.
LEMMA RecvCommitKeeps == WalInv /\ NumberingInv /\ RecvCommit => WalInv'
<1> SUFFICES ASSUME WalInv, NumberingInv, RecvCommit
             PROVE  WalInv'
  OBVIOUS
<1> USE DEF RecvCommit, Report, Polling, down
<1>1. /\ sent \in Nat /\ Len(wal) \in Nat /\ sent < Len(wal) /\ sent' = sent + 1
      /\ wal[sent + 1] \in 0 .. MaxTxn /\ Len(open_txn) = wal[sent + 1]
      /\ open_txn \in Seq(Change)
  BY NextTransaction, OpenTransaction
<1>2. \A n \in Carrying : n =< sent => Held(n) \/ Queued(n, positions.next_seq)
  BY DEF WalInv, Streamed
<1>3. \A n \in Carrying : n =< sent + 1 => n =< sent \/ n = sent + 1
  BY <1>1 DEF Carrying
<1>4. /\ positions' \in PositionsType
      /\ positions.lsn_by_seq \subseteq positions'.lsn_by_seq
      /\ positions'.next_seq >= positions.next_seq
      /\ ConfirmedSafe' /\ EntriesCovered' /\ NoneForgotten' /\ InOrder'
  <2>1. positions \in PositionsType /\ IsPositions(positions)
    BY DEF WalInv, TypeOK, PositionsType, IsPositions
  <2>2. CASE open_txn = <<>>
    <3>1. sent + 1 \notin Carrying
      BY <1>1, <2>2 DEF Carrying
    <3>2. \A n \in Carrying : n =< sent + 1 => Held(n) \/ Queued(n, positions.next_seq)
      BY <1>2, <1>3, <3>1
    <3>3. positions' = RegisterConfirmed(positions, sent + 1)
      BY <2>2
    <3>4. QED
      BY <1>1, <2>1, <3>2, <3>3, AccountKeeps, NumbersGrow
  <2>3. CASE open_txn # <<>>
    <3>1. positions' = positions /\ positions.next_seq \in Nat
      BY <2>1, <2>3 DEF PositionsType
    <3>2. QED
      BY <2>1, <3>1, BookkeepingUntouched
  <2>4. QED
    BY <2>2, <2>3
<1>5. TypeOK'
  <2>1. applied' \in 0 .. Len(wal) /\ sent' \in 0 .. Len(wal)
    BY <1>1, <1>4 DEF ConfirmedSafe, Safe, PositionsType
  <2>2. /\ open_txn' \in Seq(Change) /\ pending' \in Seq(Change) /\ stage' \in 0 .. (MaxTxn + 1)
        /\ UNCHANGED <<wal, slot_lsn, connected, done, emitted, batch, lanes, acked, durable,
                       faults>>
    BY <1>1, BoundsAssumption, EmptySeq
  <2> HIDE DEF RecvCommit
  <2>3. QED
    BY <1>4, <2>1, <2>2 DEF WalInv, TypeOK
<1>6. Decoding'
  BY <1>1 DEF WalInv, Decoding
<1>7. Streamed'
  <2>1. \A n : Held(n) => Held(n)'
    BY DEF Held
  <2>2. \A n : Queued(n, positions.next_seq) => Queued(n, positions.next_seq)'
    BY <1>4 DEF Queued, PositionsType, WalInv, TypeOK
  <2>3. Carrying' = Carrying
    BY DEF Carrying
  <2>4. sent + 1 \in Carrying => pending' # <<>> /\ pending'[1][1] = sent + 1
    BY <1>1 DEF WalInv, Decoding, Carrying
  <2>5. QED
    BY <1>1, <1>2, <1>3, <2>1, <2>2, <2>3, <2>4 DEF Streamed
<1>8. QED
  BY <1>4, <1>5, <1>6, <1>7 DEF WalInv

LEMMA RecvKeepAliveKeeps == WalInv /\ NumberingInv /\ RecvKeepAlive => WalInv'
<1> SUFFICES ASSUME WalInv, NumberingInv, RecvKeepAlive
             PROVE  WalInv'
  OBVIOUS
<1> USE DEF RecvKeepAlive, Report, Polling, wire, decode, down
<1>1. sent \in Nat /\ Len(wal) \in Nat /\ sent =< Len(wal)
  BY DEF WalInv, TypeOK
<1>2. \A n \in Carrying : n =< sent => Held(n) \/ Queued(n, positions.next_seq)
  BY DEF WalInv, Streamed
<1>3. /\ positions' \in PositionsType
      /\ positions.lsn_by_seq \subseteq positions'.lsn_by_seq
      /\ positions'.next_seq >= positions.next_seq
      /\ ConfirmedSafe' /\ EntriesCovered' /\ NoneForgotten' /\ InOrder'
  <2>1. positions \in PositionsType /\ IsPositions(positions)
    BY DEF WalInv, TypeOK, PositionsType, IsPositions
  <2>2. CASE positions' = RegisterConfirmed(positions, sent)
    BY <1>1, <1>2, <2>1, <2>2, AccountKeeps, NumbersGrow
  <2>3. CASE positions' = positions
    <3>1. positions.next_seq \in Nat
      BY <2>1 DEF PositionsType
    <3>2. QED
      BY <2>1, <2>3, <3>1, BookkeepingUntouched
  <2>4. QED
    BY <2>2, <2>3
<1>4. TypeOK'
  BY <1>1, <1>3, BoundsAssumption DEF WalInv, TypeOK, ConfirmedSafe, Safe, PositionsType
<1>5. Decoding'
  BY DEF WalInv, Decoding
<1>6. Streamed'
  <2>1. \A n : Held(n) => Held(n)'
    BY DEF Held
  <2>2. \A n : Queued(n, positions.next_seq) => Queued(n, positions.next_seq)'
    BY <1>3 DEF Queued, PositionsType, WalInv, TypeOK
  <2>3. Carrying' = Carrying
    BY DEF Carrying
  <2>4. QED
    BY <1>2, <2>1, <2>2, <2>3 DEF Streamed
<1>7. QED
  BY <1>3, <1>4, <1>5, <1>6 DEF WalInv

\* A change is emitted: from here on its transaction is outstanding.
LEMMA EmitKeeps == WalInv /\ NumberingInv /\ Emit => WalInv'
<1> SUFFICES ASSUME WalInv, NumberingInv, Emit
             PROVE  WalInv'
  OBVIOUS
<1>1. /\ UNCHANGED <<wal, slot_lsn, connected, sent, stage, open_txn, done, lanes, acked,
                     durable, faults>>
      /\ pending # <<>> /\ pending' = Tail(pending) /\ applied' = positions.confirmed_lsn
  BY DEF Emit, wire, down
<1>2. /\ positions \in PositionsType /\ pending \in Seq(Change) /\ Len(pending) \in Nat \ {0}
      /\ Len(wal) \in Nat /\ sent \in Nat /\ sent =< Len(wal)
  BY <1>1, EmptySeq DEF WalInv, TypeOK
<1>3. PICK l \in Nat, c \in Change, s \in Nat :
          l = pending[1][1] /\ c = Head(pending) /\ c[1] = l /\ s = positions.next_seq
  <2>1. pending[1] \in Change /\ Head(pending) = pending[1]
    BY <1>2, ElementOfSeq
  <2>2. pending[1][1] \in Nat /\ positions.next_seq \in Nat
    BY <1>2, <2>1 DEF Change, PositionsType
  <2>3. QED
    BY <2>1, <2>2
<1>4. l =< sent /\ l =< Len(wal)
  BY <1>2, <1>3 DEF WalInv, Decoding
<1>5. /\ positions' \in PositionsType
      /\ positions'.next_seq = s + 1
      /\ positions'.lsn_by_seq = positions.lsn_by_seq \cup {[seq |-> s, lsn |-> l]}
      /\ positions'.confirmed_lsn = positions.confirmed_lsn
      /\ emitted' = emitted \cup {[seq |-> s, change |-> c]}
      /\ batch' = [position |-> s, changes |-> batch.changes \cup {[seq |-> s, change |-> c]}]
  <2>1. positions' = Register(positions, l)
    BY <1>3 DEF Emit
  <2>2. /\ emitted' = emitted \cup {[seq |-> s, change |-> c]}
        /\ batch' = [position |-> s, changes |-> batch.changes \cup {[seq |-> s, change |-> c]}]
    BY <1>3 DEF Emit
  <2>3. QED
    BY <1>2, <1>3, <2>1, <2>2, RegisterResult
<1>6. \A n, seq : (Held(n) => Held(n)') /\ (Queued(n, seq) => Queued(n, seq)')
  BY <1>1, <1>5, Remembered
<1>7. Carrying' = Carrying
  BY <1>1 DEF Carrying
<1>8. \A seq \in Nat : seq >= s => Queued(l, seq)'
  <2>1. /\ [seq |-> s, lsn |-> l] \in positions'.lsn_by_seq
        /\ [seq |-> s, change |-> c] \in emitted'
    BY <1>5
  <2>2. QED
    BY <1>3, <2>1 DEF Queued
<1>9. \A n \in Carrying : n =< sent => n = l \/ Held(n) \/ Queued(n, s)
  BY <1>3 DEF WalInv, Streamed
<1>10. TypeOK'
  <2>1. Tail(pending) \in Seq(Change)
    BY <1>1, <1>2, HeadTailProperties
  <2>2. emitted' \in SUBSET Emission /\ batch' \in Item
    BY <1>3, <1>5 DEF WalInv, TypeOK, Emission, Item
  <2>3. applied' \in 0 .. Len(wal)
    BY <1>1, <1>2 DEF WalInv, ConfirmedSafe, Safe, PositionsType
  <2>4. QED
    BY <1>1, <1>5, <2>1, <2>2, <2>3 DEF WalInv, TypeOK
<1>11. ConfirmedSafe'
  <2>1. Safe(slot_lsn') /\ Safe(applied') /\ Safe(positions'.confirmed_lsn)
    BY <1>1, <1>5 DEF WalInv, ConfirmedSafe
  <2>2. QED
    BY <1>1, <2>1 DEF ConfirmedSafe, Safe, Carrying, Held
<1>12. NoneForgotten' /\ InOrder'
  <2> DEFINE new == [seq |-> s, change |-> c]
  <2>1. /\ s \in Nat /\ new.seq = s
        /\ \A g \in emitted : g.seq < s
        /\ \A e \in positions.lsn_by_seq : e.seq < s
    BY <1>3 DEF WalInv, NumberingInv, NumbersTaken, EntriesCovered
  <2>2. /\ emitted' = emitted \cup {new} /\ positions'.next_seq = s + 1
        /\ batch'.position = s /\ batch'.changes = batch.changes \cup {new}
    BY <1>5
  <2> HIDE DEF new
  <2>3. NoneForgotten'
    <3> SUFFICES ASSUME connected, NEW e \in positions'.lsn_by_seq, NEW g \in emitted',
                        g.seq = e.seq
                 PROVE  InTransit(g)'
      BY <1>1 DEF NoneForgotten
    <3>1. CASE g = new
      BY <2>2, <3>1 DEF InTransit
    <3>2. CASE g \in emitted
      <4>1. e \in positions.lsn_by_seq
        BY <1>5, <2>1, <3>2
      <4>2. InTransit(g)
        BY <3>2, <4>1 DEF WalInv, NoneForgotten
      <4>3. QED
        BY <1>1, <2>2, <4>2 DEF InTransit
    <3>3. QED
      BY <2>2, <3>1, <3>2
  <2>4. InOrder'
    <3>1. TypeOK /\ InOrder /\ positions.next_seq = s
      BY <1>3 DEF WalInv
    <3>2. /\ acked \in Nat /\ acked =< s
          /\ \A g \in batch.changes : g.seq \in Nat /\ g.seq =< s /\ acked =< g.seq
      BY <3>1, TransitTypes DEF InOrder, EmptyBatch
    <3>3. \A i \in 1 .. Len(lanes) : lanes[i].position \in Nat /\ lanes[i].position < s
      BY <3>1, TransitTypes DEF InOrder
    <3>4. QED
      BY <1>1, <2>1, <2>2, <3>1, <3>2, <3>3 DEF InOrder
  <2>5. QED
    BY <2>3, <2>4
<1>13. EntriesCovered'
  <2>1. ASSUME NEW e \in positions'.lsn_by_seq
        PROVE  /\ e.seq < positions'.next_seq /\ e.lsn =< Len(wal')
               /\ \A n \in Carrying' : n =< e.lsn => Held(n)' \/ Queued(n, e.seq)'
    <3>1. CASE e \in positions.lsn_by_seq
      <4>1. /\ e.seq < s /\ e.lsn =< Len(wal) /\ e.seq \in Nat
            /\ \A n \in Carrying : n =< e.lsn => Held(n) \/ Queued(n, e.seq)
        BY <1>2, <1>3, <3>1 DEF WalInv, EntriesCovered, PositionsType
      <4>2. QED
        BY <1>1, <1>3, <1>5, <1>6, <1>7, <4>1
    <3>2. CASE e.seq = s /\ e.lsn = l
      <4>1. \A n \in Carrying : n =< l => n =< sent
        BY <1>2, <1>3, <1>4 DEF Carrying
      <4>2. \A n \in Carrying : n =< l => Held(n)' \/ Queued(n, e.seq)'
        BY <1>3, <1>6, <1>8, <1>9, <3>2, <4>1
      <4>3. QED
        BY <1>1, <1>3, <1>4, <1>5, <1>7, <3>2, <4>2
    <3>3. QED
      BY <1>5, <3>1, <3>2
  <2>2. QED
    BY <2>1 DEF EntriesCovered
<1>14. Decoding'
  <2>1. /\ Len(pending') = Len(pending) - 1
        /\ \A i \in 1 .. Len(pending') : pending'[i] = pending[i + 1]
    BY <1>1, <1>2, HeadTailProperties
  <2>2. \A i \in 1 .. Len(pending) : pending[i][1] = l /\ pending[i][1] =< sent
    BY <1>3 DEF WalInv, Decoding
  <2>3. \A i \in 1 .. Len(pending') : pending'[i][1] = l /\ pending'[i][1] =< sent
    BY <1>2, <2>1, <2>2
  <2>4. \A i \in 1 .. Len(pending') : pending'[1][1] = l
    BY <1>2, <2>1, <2>3
  <2>5. QED
    BY <1>1, <2>3, <2>4 DEF WalInv, Decoding
<1>15. Streamed'
  <2>1. ASSUME NEW n \in Carrying, n =< sent
        PROVE  Held(n)' \/ Queued(n, s + 1)'
    <3>1. CASE n = l
      BY <1>3, <1>8, <3>1
    <3>2. CASE Held(n)
      BY <1>6, <3>2
    <3>3. CASE Queued(n, s)
      <4>1. Queued(n, s)'
        BY <1>6, <3>3
      <4>2. \A e \in positions'.lsn_by_seq : e.seq \in Nat
        BY <1>5 DEF PositionsType
      <4>3. QED
        BY <1>3, <4>1, <4>2 DEF Queued
    <3>4. QED
      BY <1>9, <2>1, <3>1, <3>2, <3>3
  <2>2. QED
    BY <1>1, <1>5, <1>7, <2>1 DEF Streamed
<1>16. QED
  BY <1>10, <1>11, <1>12, <1>13, <1>14, <1>15 DEF WalInv

\* The stream ends, breaks, or dies with its process: what it had received is
\* dropped, and is sent again from the slot.
LEMMA StreamEndKeeps == WalInv /\ StreamEnd => WalInv'
<1> SUFFICES ASSUME WalInv, StreamEnd
             PROVE  WalInv'
  OBVIOUS
<1> USE DEF StreamEnd, wire, down
<1>1. ConfirmedSafe' /\ EntriesCovered' /\ NoneForgotten' /\ InOrder'
  BY BookkeepingUntouched
<1>2. faults' \in 0 .. MaxFaults
  BY BoundsAssumption DEF WalInv, TypeOK
<1>3. TypeOK' /\ Decoding'
  BY <1>2 DEF WalInv, TypeOK, Decoding
<1>4. Streamed'
  BY DEF WalInv, Streamed, Carrying, Held, Queued
<1>5. QED
  BY <1>1, <1>3, <1>4 DEF WalInv

\* A connection that is gone has received nothing.
LEMMA NothingReceived ==
    ASSUME WalInv, connected' = FALSE, sent' = 0, stage' = 0, done' = FALSE, applied' = 0,
           open_txn' = <<>>, pending' = <<>>, faults' \in 0 .. MaxFaults,
           batch' = EmptyBatch, UNCHANGED <<wal, slot_lsn, durable>>,
           positions' \in PositionsType, lanes' \in Seq(Item), acked' \in Nat,
           emitted' \in SUBSET Emission
    PROVE  TypeOK' /\ Decoding' /\ Streamed' /\ NoneForgotten'
<1>1. open_txn' \in Seq(Change) /\ pending' \in Seq(Change) /\ batch' \in Item
  BY EmptySeq DEF EmptyBatch, Item
<1>2. 0 \in 0 .. Len(wal) /\ 0 \in 0 .. (MaxTxn + 1)
  BY BoundsAssumption DEF WalInv, TypeOK
<1>3. TypeOK'
  BY <1>1, <1>2 DEF WalInv, TypeOK
<1>4. Decoding' /\ Streamed' /\ NoneForgotten'
  BY DEF Decoding, Streamed, Carrying, NoneForgotten
<1>5. QED
  BY <1>3, <1>4

LEMMA DisconnectKeeps == WalInv /\ Disconnect => WalInv'
<1> SUFFICES ASSUME WalInv, Disconnect
             PROVE  WalInv'
  OBVIOUS
<1> DEFINE rest == [batch EXCEPT !.changes = {}]
<1>1. /\ connected' = FALSE /\ sent' = 0 /\ stage' = 0 /\ done' = FALSE /\ applied' = 0
      /\ open_txn' = <<>> /\ pending' = <<>> /\ batch' = EmptyBatch
      /\ UNCHANGED <<wal, slot_lsn, positions, emitted, acked, durable>>
      /\ lanes' = lanes \/ (batch # EmptyBatch /\ lanes' = Append(lanes, rest))
  BY DEF Disconnect, StreamDropped
<1>2. faults' \in 0 .. MaxFaults
  BY BoundsAssumption DEF WalInv, TypeOK, Disconnect
<1>3. ConfirmedSafe' /\ EntriesCovered'
  BY <1>1, SafeUntouched
<1>4. /\ positions \in PositionsType /\ acked \in Nat /\ emitted \in SUBSET Emission
      /\ TypeOK /\ InOrder /\ lanes \in Seq(Item)
      /\ rest \in Item /\ rest.position = batch.position /\ rest.changes = {}
  BY DEF WalInv, TypeOK, Item
<1>5. EmptyBatch.changes = {}
  BY DEF EmptyBatch
<1> HIDE DEF rest
<1>6. lanes' \in Seq(Item) /\ InOrder'
  <2>1. CASE lanes' = lanes
    BY <1>1, <1>4, <1>5, <2>1 DEF InOrder
  <2>2. CASE batch # EmptyBatch /\ lanes' = Append(lanes, rest)
    <3>1. /\ lanes' \in Seq(Item) /\ Len(lanes') = Len(lanes) + 1 /\ Len(lanes) \in Nat
          /\ \A i \in 1 .. Len(lanes) : lanes'[i] = lanes[i]
          /\ lanes'[Len(lanes) + 1] = rest
      BY <1>4, <2>2, AppendProperties
    <3>2. batch.position < positions.next_seq
      BY <1>4, <2>2 DEF InOrder
    <3>3. \A i \in 1 .. Len(lanes') : i \in 1 .. Len(lanes) \/ lanes'[i] = rest
      BY <3>1
    <3>4. \A i \in 1 .. Len(lanes') : i \notin 1 .. Len(lanes) => lanes'[i].changes = {}
      BY <1>4, <3>3
    <3>5. ASSUME NEW i \in 1 .. Len(lanes')
          PROVE  /\ lanes'[i].position < positions.next_seq
                 /\ \A g \in lanes'[i].changes : acked =< g.seq /\ g.seq =< lanes'[i].position
                 /\ \A j \in 1 .. Len(lanes') :
                       j < i => \A g \in lanes'[i].changes : lanes'[j].position < g.seq
      <4>1. CASE i \in 1 .. Len(lanes)
        <5>1. \A j \in 1 .. Len(lanes') : j < i => j \in 1 .. Len(lanes)
          BY <3>1, <4>1
        <5>2. QED
          BY <1>4, <3>1, <4>1, <5>1 DEF InOrder
      <4>2. CASE i \notin 1 .. Len(lanes)
        <5>1. lanes'[i] = rest
          BY <3>3, <4>2
        <5>2. QED
          BY <1>4, <3>2, <5>1
      <4>3. QED
        BY <4>1, <4>2
    <3>6. batch'.changes = {} /\ acked =< positions.next_seq
      BY <1>1, <1>4, <1>5 DEF InOrder
    <3>7. QED
      BY <1>1, <3>1, <3>5, <3>6 DEF InOrder
  <2>3. QED
    BY <1>1, <2>1, <2>2
<1>7. TypeOK' /\ Decoding' /\ Streamed' /\ NoneForgotten'
  BY <1>1, <1>2, <1>4, <1>6, NothingReceived
<1>8. QED
  BY <1>3, <1>6, <1>7 DEF WalInv

\* A new process knows no position and has nothing on its way.
LEMMA ProcessGoneKeeps ==
    ASSUME WalInv, ProcessGone, faults' \in 0 .. MaxFaults
    PROVE  WalInv'
<1>1. /\ connected' = FALSE /\ sent' = 0 /\ stage' = 0 /\ done' = FALSE /\ applied' = 0
      /\ open_txn' = <<>> /\ pending' = <<>> /\ batch' = EmptyBatch
      /\ emitted' = {} /\ lanes' = <<>> /\ acked' = 0
      /\ UNCHANGED <<wal, slot_lsn, durable>>
      /\ positions' = [next_seq |-> 0, lsn_by_seq |-> {}, confirmed_lsn |-> 0]
  BY DEF ProcessGone, StreamDropped, NewPositions
<1>2. positions' \in PositionsType /\ lanes' \in Seq(Item)
  BY <1>1, EmptySeq DEF PositionsType
<1>3. TypeOK' /\ Decoding' /\ Streamed' /\ NoneForgotten'
  BY <1>1, <1>2, NothingReceived
<1>4. Safe(slot_lsn) /\ Safe(0)
  BY DEF WalInv, TypeOK, ConfirmedSafe, Safe, Carrying
<1>5. ConfirmedSafe'
  BY <1>1, <1>4 DEF ConfirmedSafe, Safe, Carrying, Held
<1>6. EntriesCovered' /\ InOrder'
  BY <1>1 DEF EntriesCovered, InOrder, EmptyBatch
<1>7. QED
  BY <1>3, <1>5, <1>6 DEF WalInv

LEMMA CrashKeeps == WalInv /\ Crash => WalInv'
<1> SUFFICES ASSUME WalInv, Crash
             PROVE  WalInv'
  OBVIOUS
<1>1. faults' \in 0 .. MaxFaults
  BY BoundsAssumption DEF WalInv, TypeOK, Crash
<1>2. QED
  BY <1>1, ProcessGoneKeeps DEF Crash

LEMMA StopKeeps == WalInv /\ Stop => WalInv'
<1> SUFFICES ASSUME WalInv, Stop
             PROVE  WalInv'
  OBVIOUS
<1>1. faults' \in 0 .. MaxFaults
  BY DEF WalInv, TypeOK, Stop
<1>2. QED
  BY <1>1, ProcessGoneKeeps DEF Stop

-----------------------------------------------------------------------------
\* The batch becomes the last item of the lanes.
LEMMA PublishKeeps == WalInv /\ Publish => WalInv'
<1> SUFFICES ASSUME WalInv, Publish
             PROVE  WalInv'
  OBVIOUS
<1>1. /\ UNCHANGED <<wal, slot_lsn, connected, sent, stage, open_txn, pending, done, positions,
                     applied, emitted, acked, durable, faults>>
      /\ batch # EmptyBatch /\ batch' = EmptyBatch /\ lanes' = Append(lanes, batch)
  BY DEF Publish, wire, decode
<1>2. TypeOK /\ InOrder /\ lanes \in Seq(Item) /\ batch \in Item
  BY DEF WalInv, TypeOK
<1>3. /\ lanes' \in Seq(Item) /\ Len(lanes') = Len(lanes) + 1 /\ Len(lanes) \in Nat
      /\ \A i \in 1 .. Len(lanes) : lanes'[i] = lanes[i]
      /\ lanes'[Len(lanes) + 1] = batch
  BY <1>1, <1>2, AppendProperties
<1>4. ConfirmedSafe' /\ EntriesCovered'
  BY <1>1, SafeUntouched
<1>5. TypeOK' /\ Decoding'
  <2>1. batch' \in Item
    BY <1>1 DEF EmptyBatch, Item
  <2>2. QED
    BY <1>1, <1>3, <2>1 DEF WalInv, TypeOK, Decoding
<1>6. Streamed'
  BY <1>1 DEF WalInv, Streamed, Carrying, Held, Queued
<1>7. NoneForgotten'
  <2>1. ASSUME NEW g, InTransit(g)
        PROVE  InTransit(g)'
    <3>1. CASE g \in batch.changes
      BY <1>3, <3>1 DEF InTransit
    <3>2. CASE \E i \in 1 .. Len(lanes) : g \in lanes[i].changes
      BY <1>3, <3>2 DEF InTransit
    <3>3. QED
      BY <1>1, <2>1, <3>1, <3>2 DEF InTransit
  <2>2. QED
    BY <1>1, <2>1 DEF WalInv, NoneForgotten
<1>8. InOrder'
  <2>1. batch'.changes = {} /\ batch' = EmptyBatch
    BY <1>1 DEF EmptyBatch
  <2>2. batch.position < positions.next_seq
    BY <1>1, <1>2 DEF InOrder
  <2>3. \A i \in 1 .. Len(lanes') : i \in 1 .. Len(lanes) \/ (i = Len(lanes) + 1 /\ lanes'[i] = batch)
    BY <1>3
  <2>4. ASSUME NEW i \in 1 .. Len(lanes')
        PROVE  /\ lanes'[i].position < positions.next_seq
               /\ \A g \in lanes'[i].changes : acked =< g.seq /\ g.seq =< lanes'[i].position
               /\ \A j \in 1 .. Len(lanes') :
                     j < i => \A g \in lanes'[i].changes : lanes'[j].position < g.seq
    <3>1. \A j \in 1 .. Len(lanes') : j < i => j \in 1 .. Len(lanes) /\ lanes'[j] = lanes[j]
      BY <1>3
    <3>2. CASE i \in 1 .. Len(lanes)
      BY <1>2, <1>3, <3>1, <3>2 DEF InOrder
    <3>3. CASE lanes'[i] = batch
      BY <1>2, <2>2, <3>1, <3>3 DEF InOrder
    <3>4. QED
      BY <2>3, <3>2, <3>3
  <2>5. QED
    BY <1>1, <1>2, <2>1, <2>4 DEF InOrder
<1>9. QED
  BY <1>4, <1>5, <1>6, <1>7, <1>8 DEF WalInv

\* The oldest item is acknowledged: its changes are held by every sink.
LEMMA AckKeeps == WalInv /\ Ack => WalInv'
<1> SUFFICES ASSUME WalInv, Ack
             PROVE  WalInv'
  OBVIOUS
<1>1. /\ UNCHANGED <<wal, slot_lsn, connected, sent, stage, open_txn, pending, done, positions,
                     applied, emitted, batch, faults>>
      /\ lanes # <<>> /\ lanes' = Tail(lanes)
  BY DEF Ack, wire, decode
<1>2. TypeOK /\ InOrder /\ lanes \in Seq(Item)
  BY DEF WalInv, TypeOK
<1>3. /\ Len(lanes) \in Nat \ {0} /\ lanes' \in Seq(Item) /\ Len(lanes') = Len(lanes) - 1
      /\ \A i \in 1 .. Len(lanes') : lanes'[i] = lanes[i + 1]
      /\ Head(lanes) = lanes[1]
  BY <1>1, <1>2, HeadTailProperties, EmptySeq
<1>4. /\ acked' = lanes[1].position + 1
      /\ durable' = durable \cup {g.change : g \in lanes[1].changes}
      /\ lanes[1] \in Item /\ 1 \in 1 .. Len(lanes)
  <2>1. 1 \in 1 .. Len(lanes)
    BY <1>3
  <2>2. QED
    BY <1>2, <1>3, <2>1, ElementOfSeq DEF Ack
<1>5. \A n, seq : (Held(n) => Held(n)') /\ (Queued(n, seq) => Queued(n, seq)')
  <2>1. /\ positions.lsn_by_seq \subseteq positions'.lsn_by_seq
        /\ emitted \subseteq emitted' /\ durable \subseteq durable'
    BY <1>1, <1>4
  <2>2. QED
    BY <2>1, Remembered
<1>6. Carrying' = Carrying
  BY <1>1 DEF Carrying
<1>7. TypeOK'
  <2>1. acked' \in Nat /\ durable' \in SUBSET Change
    BY <1>2, <1>4 DEF TypeOK, Item, Emission
  <2>2. QED
    BY <1>1, <1>3, <2>1 DEF WalInv, TypeOK
<1>8. ConfirmedSafe'
  <2>1. \A l : Safe(l) => l =< Len(wal') /\ \A n \in Carrying' : n =< l => Held(n)'
    BY <1>1, <1>5, <1>6 DEF Safe
  <2>2. QED
    BY <1>1, <2>1 DEF WalInv, ConfirmedSafe, Safe
<1>9. EntriesCovered'
  BY <1>1, <1>5, <1>6 DEF WalInv, EntriesCovered
<1>10. Decoding'
  BY <1>1 DEF WalInv, Decoding
<1>11. Streamed'
  <2>1. \A n : Queued(n, positions.next_seq) => Queued(n, positions.next_seq)'
    BY <1>1 DEF Queued
  <2>2. QED
    BY <1>1, <1>5, <1>6, <2>1 DEF WalInv, Streamed
<1>12. NoneForgotten'
  <2>1. ASSUME NEW g, InTransit(g)
        PROVE  InTransit(g)'
    <3>1. ASSUME NEW i \in 1 .. Len(lanes), g \in lanes[i].changes
          PROVE  InTransit(g)'
      <4>1. CASE i = 1
        BY <1>4, <3>1, <4>1 DEF InTransit
      <4>2. CASE i # 1
        <5>1. i - 1 \in 1 .. Len(lanes') /\ lanes'[i - 1] = lanes[i]
          BY <1>3, <4>2
        <5>2. QED
          BY <3>1, <5>1 DEF InTransit
      <4>3. QED
        BY <4>1, <4>2
    <3>2. QED
      BY <1>1, <1>4, <2>1, <3>1 DEF InTransit
  <2>2. QED
    BY <1>1, <2>1 DEF WalInv, NoneForgotten
<1>13. InOrder'
  <2>1. /\ acked' =< positions.next_seq
        /\ \A g \in batch.changes : acked' =< g.seq
    BY <1>2, <1>4, TransitTypes DEF InOrder
  <2>2. ASSUME NEW i \in 1 .. Len(lanes')
        PROVE  /\ lanes'[i].position < positions.next_seq
               /\ \A g \in batch.changes : lanes'[i].position < g.seq
               /\ \A g \in lanes'[i].changes : acked' =< g.seq /\ g.seq =< lanes'[i].position
               /\ \A j \in 1 .. Len(lanes') :
                     j < i => \A g \in lanes'[i].changes : lanes'[j].position < g.seq
    <3>1. PICK k \in 2 .. Len(lanes) : k = i + 1 /\ lanes'[i] = lanes[k]
      BY <1>3
    <3>2. k \in 1 .. Len(lanes) /\ 1 < k
      BY <1>3
    <3>3. \A g \in lanes[k].changes : lanes[1].position < g.seq
      BY <1>2, <1>4, <3>2 DEF InOrder
    <3>4. \A j \in 1 .. Len(lanes') :
              j < i => j + 1 \in 1 .. Len(lanes) /\ j + 1 < k /\ lanes'[j] = lanes[j + 1]
      BY <1>3, <3>1
    <3>5. \A g \in lanes[k].changes : acked' =< g.seq
      BY <1>2, <1>4, <3>2, <3>3, TransitTypes
    <3>6. QED
      BY <1>2, <3>1, <3>2, <3>4, <3>5 DEF InOrder
  <2>3. QED
    BY <1>1, <1>2, <2>1, <2>2 DEF InOrder
<1>14. QED
  BY <1>7, <1>8, <1>9, <1>10, <1>11, <1>12, <1>13 DEF WalInv

\* What the watermark covers of the open stream is durable: what is still on its
\* way lies above it.
LEMMA CoveredIsDurable ==
    ASSUME WalInv, connected, NEW e \in positions.lsn_by_seq, NEW g \in emitted,
           g.seq = e.seq, g.seq < acked
    PROVE  g.change \in durable
<1>1. InTransit(g)
  BY DEF WalInv, NoneForgotten
<1>2. g.seq \in Nat /\ acked \in Nat
  BY DEF WalInv, TypeOK, Emission
<1>3. g \notin batch.changes
  BY <1>2 DEF WalInv, InOrder
<1>4. ~\E i \in 1 .. Len(lanes) : g \in lanes[i].changes
  BY <1>2 DEF WalInv, InOrder
<1>5. QED
  BY <1>1, <1>3, <1>4 DEF InTransit

\* The outstanding positions the watermark covers are settled: every
\* transaction up to their LSNs is held.
LEMMA SettledIsSafe ==
    ASSUME WalInv, connected, NEW e \in positions.lsn_by_seq, e.seq < acked
    PROVE  Safe(e.lsn)
<1>1. ASSUME NEW n \in Carrying, n =< e.lsn
      PROVE  Held(n)
  <2>1. CASE Queued(n, e.seq)
    <3>1. PICK f \in positions.lsn_by_seq, g \in emitted :
              f.seq =< e.seq /\ f.lsn = n /\ g.seq = f.seq /\ g.change[1] = n
      BY <2>1 DEF Queued
    <3>2. g.seq < acked
      BY <3>1 DEF WalInv, TypeOK, PositionsType
    <3>3. g.change \in durable
      BY <3>1, <3>2, CoveredIsDurable
    <3>4. QED
      BY <3>1, <3>3 DEF Held
  <2>2. QED
    BY <1>1, <2>1 DEF WalInv, EntriesCovered
<1>2. QED
  BY <1>1 DEF WalInv, EntriesCovered, Safe

LEMMA ConfirmKeeps == WalInv /\ Confirm => WalInv'
<1> SUFFICES ASSUME WalInv, Confirm
             PROVE  WalInv'
  OBVIOUS
<1>1. /\ UNCHANGED <<wal, slot_lsn, connected, sent, stage, open_txn, pending, done, applied,
                     emitted, batch, lanes, acked, durable, faults>>
      /\ connected
  BY DEF Confirm, wire, decode, down
<1>2. /\ acked - 1 \in Nat /\ acked \in Nat /\ positions \in PositionsType
      /\ positions' = ConfirmUpTo(positions, acked - 1)
  BY DEF Confirm, WalInv, TypeOK
<1>3. /\ positions' \in PositionsType
      /\ positions'.next_seq = positions.next_seq
      /\ positions'.lsn_by_seq = {e \in positions.lsn_by_seq : e.seq > acked - 1}
      /\ \/ positions'.confirmed_lsn = positions.confirmed_lsn
         \/ \E e \in positions.lsn_by_seq :
               e.seq =< acked - 1 /\ positions'.confirmed_lsn = e.lsn
  BY <1>2, EntriesBounded, ConfirmResult
<1>4. Carrying' = Carrying
  BY <1>1 DEF Carrying
<1>5. \A n, seq : (Held(n) => Held(n)') /\ (Queued(n, seq) => Held(n)' \/ Queued(n, seq)')
  <2>1. \A n : Held(n) => Held(n)'
    BY <1>1 DEF Held
  <2>2. ASSUME NEW n, NEW seq, Queued(n, seq)
        PROVE  Held(n)' \/ Queued(n, seq)'
    <3>1. PICK e \in positions.lsn_by_seq, g \in emitted :
              e.seq =< seq /\ e.lsn = n /\ g.seq = e.seq /\ g.change[1] = n
      BY <2>2 DEF Queued
    <3>2. e.seq \in Nat
      BY <1>2 DEF PositionsType
    <3>3. CASE e.seq < acked
      <4>1. g.change \in durable'
        BY <1>1, <3>1, <3>3, CoveredIsDurable
      <4>2. QED
        BY <3>1, <4>1 DEF Held
    <3>4. CASE e.seq >= acked
      <4>1. e \in positions'.lsn_by_seq
        BY <1>2, <1>3, <3>2, <3>4
      <4>2. QED
        BY <1>1, <3>1, <4>1 DEF Queued
    <3>5. QED
      BY <1>2, <3>2, <3>3, <3>4
  <2>3. QED
    BY <2>1, <2>2
<1>6. TypeOK'
  BY <1>1, <1>3 DEF WalInv, TypeOK
<1>7. ConfirmedSafe'
  <2>1. Safe(positions'.confirmed_lsn)
    <3>1. ASSUME NEW e \in positions.lsn_by_seq, e.seq =< acked - 1
          PROVE  Safe(e.lsn)
      BY <1>1, <1>2, <3>1, SettledIsSafe DEF PositionsType
    <3>2. QED
      BY <1>3, <3>1 DEF WalInv, ConfirmedSafe
  <2>2. QED
    BY <1>1, <2>1 DEF WalInv, ConfirmedSafe, Safe, Carrying, Held
<1>8. NoneForgotten' /\ InOrder'
  <2>1. NoneForgotten'
    BY <1>1, <1>3 DEF WalInv, NoneForgotten, InTransit
  <2>2. InOrder'
    BY <1>1, <1>3, OrderKept DEF WalInv, TypeOK, PositionsType
  <2>3. QED
    BY <2>1, <2>2
<1>9. EntriesCovered'
  BY <1>1, <1>3, <1>4, <1>5 DEF WalInv, EntriesCovered
<1>10. Decoding'
  BY <1>1 DEF WalInv, Decoding
<1>11. Streamed'
  <2>1. ASSUME NEW n \in Carrying, Queued(n, positions.next_seq)
        PROVE  Held(n)' \/ Queued(n, positions.next_seq)'
    <3>1. PICK s : s = positions.next_seq
      OBVIOUS
    <3>2. Held(n)' \/ Queued(n, s)'
      BY <1>5, <2>1, <3>1
    <3>3. QED
      BY <1>3, <3>1, <3>2 DEF Queued
  <2>2. QED
    BY <1>1, <1>4, <1>5, <2>1 DEF WalInv, Streamed
<1>12. QED
  BY <1>6, <1>7, <1>8, <1>9, <1>10, <1>11 DEF WalInv

-----------------------------------------------------------------------------
LEMMA WalInit == Init => WalInv
<1> SUFFICES ASSUME Init
             PROVE  WalInv
  OBVIOUS
<1>1. /\ Len(wal) = 0 /\ wal \in Seq(0 .. MaxTxn)
      /\ open_txn \in Seq(Change) /\ pending \in Seq(Change)
  BY EmptySeq DEF Init
<1>2. positions = [next_seq |-> 0, lsn_by_seq |-> {}, confirmed_lsn |-> 0]
  BY DEF Init, NewPositions
<1>3. positions \in PositionsType /\ batch \in Item /\ lanes \in Seq(Item)
  BY <1>2, EmptySeq DEF PositionsType, Init, EmptyBatch, Item
<1>4. TypeOK
  <2>1. 0 \in 0 .. Len(wal) /\ 0 \in 0 .. (MaxTxn + 1) /\ 0 \in 0 .. MaxFaults /\ Len(wal) =< MaxWal
    BY <1>1, BoundsAssumption
  <2>2. QED
    BY <1>1, <1>3, <2>1 DEF Init, TypeOK
<1>5. Carrying = {}
  BY <1>1 DEF Carrying
<1>6. QED
  BY <1>1, <1>2, <1>4, <1>5
     DEF Init, WalInv, ConfirmedSafe, Safe, EntriesCovered, NoneForgotten, InOrder, EmptyBatch,
         Decoding, Streamed

LEMMA WalNext == WalInv /\ NumberingInv /\ [Next]_vars => WalInv'
<1> SUFFICES ASSUME WalInv, NumberingInv, [Next]_vars
             PROVE  WalInv'
  OBVIOUS
<1>1. CASE UNCHANGED vars
  <2>1. UNCHANGED <<wal, slot_lsn, connected, sent, stage, open_txn, pending, done, positions,
                    applied, emitted, batch, lanes, acked, durable, faults>>
    BY <1>1 DEF vars, wire, decode, down
  <2>2. ConfirmedSafe' /\ EntriesCovered' /\ NoneForgotten' /\ InOrder'
    BY <2>1, BookkeepingUntouched
  <2>3. TypeOK' /\ Decoding'
    BY <2>1 DEF WalInv, TypeOK, Decoding
  <2>4. Streamed'
    BY <2>1 DEF WalInv, Streamed, Carrying, Held, Queued
  <2>5. QED
    BY <2>2, <2>3, <2>4 DEF WalInv
<1>2. CASE Next
  BY <1>2, CommitKeeps, FeedbackKeeps, SkipFilteredKeeps, OpenKeeps, RecvBeginKeeps,
     RecvChangeKeeps, RecvCommitKeeps, RecvKeepAliveKeeps, EmitKeeps, StreamEndKeeps,
     DisconnectKeeps, CrashKeeps, StopKeeps, PublishKeeps, AckKeeps, ConfirmKeeps DEF Next
<1>3. QED
  BY <1>1, <1>2

LEMMA WalInvariant == Spec => []WalInv
  BY NumberingInit, NumberingNext, WalInit, WalNext, PTL DEF Spec

\* Types: in particular the slot, the LSN handed to the feedback task and every
\* LSN the server streams lie within the WAL, and a stage within its transaction
\* (stream.rs:58-190).
THEOREM WalTypes == Spec => []TypeOK
<1>1. WalInv => TypeOK
  BY DEF WalInv
<1>2. QED
  BY <1>1, WalInvariant, PTL

\* The slot never passes a transaction of which nothing is durable, through
\* any reopened streams, crashes, keepalives, filtered and empty transactions,
\* batches lost with a failed ingest run and watermarks kept from an earlier
\* stream (ack.rs:38-106, capture.rs:222-268, ingest.rs:126-282).
THEOREM SlotLosesNoTransaction == Spec => []NoLostTransaction
<1>1. WalInv => NoLostTransaction
  BY DEF WalInv, ConfirmedSafe, Safe, Carrying, Held, NoLostTransaction
<1>2. QED
  BY <1>1, WalInvariant, PTL
=============================================================================
