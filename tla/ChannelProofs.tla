--------------------------- MODULE ChannelProofs ---------------------------
(***************************************************************************)
(* Proofs about one channel, for every capacity, every set of handles and  *)
(* every number of items.                                                  *)
(***************************************************************************)
EXTENDS Channel, TLAPS

\* Removing one element of a sequence leaves a sequence one shorter, with the
\* elements behind it moved up.
LEMMA WithoutSeq ==
    ASSUME NEW S, NEW s \in Seq(S), NEW i \in 1 .. Len(s)
    PROVE  /\ Without(s, i) \in Seq(S)
           /\ Len(Without(s, i)) = Len(s) - 1
           /\ \A j \in 1 .. (Len(s) - 1) :
                 Without(s, i)[j] = IF j < i THEN s[j] ELSE s[j + 1]
<1>1. Len(s) - 1 \in Nat
  OBVIOUS
<1>2. \A j \in 1 .. (Len(s) - 1) : (IF j < i THEN s[j] ELSE s[j + 1]) \in S
  OBVIOUS
<1> QED
  BY <1>1, <1>2 DEF Without

\* Tickets grow along the ledger, below the next one to be handed out.
TicketsIncrease ==
    /\ \A i, j \in 1 .. Len(ledger.in_flight) :
          i < j => ledger.in_flight[i].ticket < ledger.in_flight[j].ticket
    /\ \A i \in 1 .. Len(ledger.in_flight) :
          ledger.in_flight[i].ticket < ledger.next_ticket

\* The types of the ledger's parts.
LEMMA LedgerParts ==
    ASSUME NEW l \in LedgerType
    PROVE  /\ l.in_flight \in Seq(Entry)
           /\ Len(l.in_flight) \in Nat
           /\ l.cursor \in Nat
           /\ l.next_ticket \in Nat
           /\ l.acked \in Nat
           /\ \A i \in 1 .. Len(l.in_flight) :
                 /\ l.in_flight[i] \in Entry
                 /\ l.in_flight[i].ticket \in Nat
                 /\ l.in_flight[i].item \in Item
                 /\ l.in_flight[i].item.id \in Nat
                 /\ l.in_flight[i].item.position \in Nat
<1>1. /\ l.in_flight \in Seq(Entry)
      /\ l.cursor \in Nat
      /\ l.next_ticket \in Nat
      /\ l.acked \in Nat
  BY DEF LedgerType
<1>2. \A i \in 1 .. Len(l.in_flight) : l.in_flight[i] \in Entry
  BY <1>1
<1>3. \A e \in Entry : e.ticket \in Nat /\ e.item \in Item
  BY DEF Entry
<1>4. \A e \in Item : e.id \in Nat /\ e.position \in Nat
  BY DEF Item
<1> QED
  BY <1>1, <1>2, <1>3, <1>4

\* A ticket in the ledger sits at exactly one index, the one IndexOf names.
LEMMA IndexOfTicket ==
    ASSUME TypeOK, NEW t, HasTicket(ledger, t)
    PROVE  /\ IndexOf(ledger, t) \in 1 .. Len(ledger.in_flight)
           /\ ledger.in_flight[IndexOf(ledger, t)].ticket = t
BY DEF HasTicket, IndexOf

\* What Ack makes of the ledger: the entry goes, the rest keeps its order.
LEMMA AckResult ==
    ASSUME TypeOK, TicketsIncrease, NEW t, HasTicket(ledger, t),
           NEW i, i = IndexOf(ledger, t)
    PROVE  LET l == Ack(ledger, t) IN
           /\ i \in 1 .. Len(ledger.in_flight)
           /\ ledger.in_flight[i].ticket = t
           /\ l \in LedgerType
           /\ l.in_flight = Without(ledger.in_flight, i)
           /\ Len(l.in_flight) = Len(ledger.in_flight) - 1
           /\ \A j \in 1 .. (Len(ledger.in_flight) - 1) :
                 l.in_flight[j] = IF j < i THEN ledger.in_flight[j]
                                           ELSE ledger.in_flight[j + 1]
           /\ l.cursor = IF i =< ledger.cursor THEN ledger.cursor - 1 ELSE ledger.cursor
           /\ l.next_ticket = ledger.next_ticket
           /\ l.acked = Larger(ledger.acked, ledger.in_flight[i].item.position)
           /\ ~HasTicket(l, t)
<1> DEFINE l == Ack(ledger, t)
<1>1. /\ i \in 1 .. Len(ledger.in_flight)
      /\ ledger.in_flight[i].ticket = t
  BY IndexOfTicket
<1>2. ledger.in_flight \in Seq(Entry)
  BY DEF TypeOK, LedgerType
<1>3. l = [in_flight |-> Without(ledger.in_flight, i),
           cursor |-> IF i =< ledger.cursor THEN ledger.cursor - 1 ELSE ledger.cursor,
           next_ticket |-> ledger.next_ticket,
           acked |-> Larger(ledger.acked, ledger.in_flight[i].item.position)]
  BY DEF Ack, TypeOK, LedgerType
<1>4. /\ Without(ledger.in_flight, i) \in Seq(Entry)
      /\ Len(Without(ledger.in_flight, i)) = Len(ledger.in_flight) - 1
      /\ \A j \in 1 .. (Len(ledger.in_flight) - 1) :
            Without(ledger.in_flight, i)[j] =
                IF j < i THEN ledger.in_flight[j] ELSE ledger.in_flight[j + 1]
  BY <1>1, <1>2, WithoutSeq
<1>5. Larger(ledger.acked, ledger.in_flight[i].item.position) \in Nat
  <2>2. ledger.in_flight[i].item.position \in Nat
    BY <1>1, LedgerParts DEF TypeOK
  <2>3. ledger.acked \in Nat
    BY DEF TypeOK, LedgerType
  <2> QED
    BY <2>2, <2>3 DEF Larger
<1>6. (IF i =< ledger.cursor THEN ledger.cursor - 1 ELSE ledger.cursor) \in Nat
  BY <1>1, <1>2 DEF TypeOK, LedgerType
<1>7. l \in LedgerType
  BY <1>3, <1>4, <1>5, <1>6 DEF LedgerType, TypeOK
<1>8. ~HasTicket(l, t)
  <2> SUFFICES ASSUME NEW j \in 1 .. (Len(ledger.in_flight) - 1)
               PROVE  l.in_flight[j].ticket # t
    BY <1>3, <1>4 DEF HasTicket
  <2>1. CASE j < i
    <3>1. j \in 1 .. Len(ledger.in_flight)
      BY <1>1, <1>2
    <3>2. ledger.in_flight[j].ticket < ledger.in_flight[i].ticket
      BY <1>1, <2>1, <3>1 DEF TicketsIncrease
    <3>3. ledger.in_flight[i].ticket \in Nat /\ ledger.in_flight[j].ticket \in Nat
      BY <1>1, <3>1, LedgerParts DEF TypeOK
    <3>4. l.in_flight[j] = ledger.in_flight[j]
      BY <1>3, <1>4, <2>1
    <3> QED
      BY <1>1, <3>2, <3>3, <3>4
  <2>2. CASE ~(j < i)
    <3>1. j + 1 \in 1 .. Len(ledger.in_flight) /\ i < j + 1
      BY <1>1, <1>2, <2>2
    <3>2. ledger.in_flight[i].ticket < ledger.in_flight[j + 1].ticket
      BY <1>1, <3>1 DEF TicketsIncrease
    <3>3. ledger.in_flight[i].ticket \in Nat /\ ledger.in_flight[j + 1].ticket \in Nat
      BY <1>1, <3>1, LedgerParts DEF TypeOK
    <3>4. l.in_flight[j] = ledger.in_flight[j + 1]
      BY <1>3, <1>4, <2>2
    <3> QED
      BY <1>1, <3>2, <3>3, <3>4
  <2> QED
    BY <2>1, <2>2
<1> HIDE DEF l
<1>9. /\ l.in_flight = Without(ledger.in_flight, i)
      /\ l.cursor = IF i =< ledger.cursor THEN ledger.cursor - 1 ELSE ledger.cursor
      /\ l.next_ticket = ledger.next_ticket
      /\ l.acked = Larger(ledger.acked, ledger.in_flight[i].item.position)
  BY <1>3
<1> QED
  BY <1>1, <1>4, <1>7, <1>8, <1>9 DEF l

\* What Release makes of the ledger: only the cursor moves, never forward.
LEMMA ReleaseResult ==
    ASSUME TypeOK, NEW t
    PROVE  LET l == Release(ledger, t) IN
           /\ l \in LedgerType
           /\ l.in_flight = ledger.in_flight
           /\ l.next_ticket = ledger.next_ticket
           /\ l.acked = ledger.acked
           /\ l.cursor =< ledger.cursor
           /\ \A i \in 1 .. Len(ledger.in_flight) :
                 (i =< l.cursor /\ TicketsIncrease) => ledger.in_flight[i].ticket # t
<1>1. CASE ~HasTicket(ledger, t)
  <2>1. Release(ledger, t) = ledger
    BY <1>1 DEF Release
  <2>2. ledger.cursor =< ledger.cursor
    BY LedgerParts DEF TypeOK
  <2> QED
    BY <1>1, <2>1, <2>2 DEF TypeOK, HasTicket
<1>2. CASE HasTicket(ledger, t)
  <2> DEFINE k == IndexOf(ledger, t)
  <2>1. k \in 1 .. Len(ledger.in_flight) /\ ledger.in_flight[k].ticket = t
    BY <1>2, IndexOfTicket
  <2> HIDE DEF k
  <2>2. Release(ledger, t) =
            [in_flight |-> ledger.in_flight, cursor |-> Smaller(ledger.cursor, k - 1),
             next_ticket |-> ledger.next_ticket, acked |-> ledger.acked]
    BY <1>2 DEF Release, TypeOK, LedgerType, k
  <2>3. /\ Smaller(ledger.cursor, k - 1) \in Nat
        /\ Smaller(ledger.cursor, k - 1) =< ledger.cursor
        /\ Smaller(ledger.cursor, k - 1) < k
    BY <2>1, LedgerParts DEF Smaller, TypeOK
  <2>4. ASSUME NEW i \in 1 .. Len(ledger.in_flight),
               i =< Smaller(ledger.cursor, k - 1), TicketsIncrease
        PROVE  ledger.in_flight[i].ticket # t
    <3>1. i < k
      BY <2>1, <2>3, <2>4
    <3>2. ledger.in_flight[i].ticket < ledger.in_flight[k].ticket
      BY <2>1, <2>4, <3>1 DEF TicketsIncrease
    <3> QED
      BY <2>1, <3>2, LedgerParts DEF TypeOK
  <2> QED
    BY <2>2, <2>3, <2>4, LedgerParts DEF LedgerType, TypeOK
<1> QED
  BY <1>1, <1>2

\* What recv makes of the ledger once it has an item: the item goes in last
\* and the entry handed out is the one the cursor moved past.
LEMMA RecvResult ==
    ASSUME TypeOK, NEW x \in Item
    PROVE  LET l == RecvLedger(ledger, x) IN
           /\ l \in LedgerType
           /\ l.in_flight = Append(ledger.in_flight,
                                   [ticket |-> ledger.next_ticket, item |-> x])
           /\ Len(l.in_flight) = Len(ledger.in_flight) + 1
           /\ l.cursor = ledger.cursor + 1
           /\ l.next_ticket = ledger.next_ticket + 1
           /\ l.acked = ledger.acked
           /\ RecvEntry(ledger, x) = l.in_flight[l.cursor]
           /\ RecvEntry(ledger, x) \in Entry
<1> DEFINE e == [ticket |-> ledger.next_ticket, item |-> x]
           s == Append(ledger.in_flight, e)
           l == RecvLedger(ledger, x)
<1>1. e \in Entry
  BY LedgerParts DEF Entry, TypeOK
<1> HIDE DEF e
<1>2. s \in Seq(Entry) /\ Len(s) = Len(ledger.in_flight) + 1
  BY <1>1, LedgerParts DEF TypeOK
<1>3. Push(ledger, x) = [in_flight |-> s, cursor |-> ledger.cursor,
                         next_ticket |-> ledger.next_ticket + 1, acked |-> ledger.acked]
  <2>1. Push(ledger, x) =
            [ledger EXCEPT !.in_flight = s, !.next_ticket = ledger.next_ticket + 1]
    BY DEF Push, e
  <2> HIDE DEF s
  <2>2. DOMAIN ledger = {"in_flight", "cursor", "next_ticket", "acked"}
    BY DEF TypeOK, LedgerType
  <2>3. ledger = [f \in DOMAIN ledger |-> ledger[f]]
    BY DEF TypeOK, LedgerType
  <2> QED
    BY <2>1, <2>2, <2>3
<1>4. ledger.cursor \in Nat /\ ledger.cursor =< Len(ledger.in_flight)
  BY LedgerParts DEF TypeOK
<1> HIDE DEF s
<1>5. l = [in_flight |-> s, cursor |-> ledger.cursor + 1,
           next_ticket |-> ledger.next_ticket + 1, acked |-> ledger.acked]
  BY <1>2, <1>3, <1>4, LedgerParts DEF RecvLedger, Redelivery, TypeOK
<1>6. RecvEntry(ledger, x) = s[ledger.cursor + 1]
  BY <1>3 DEF RecvEntry, AtCursor
<1>7. s[ledger.cursor + 1] \in Entry
  BY <1>2, <1>4, LedgerParts DEF TypeOK
<1>8. l \in LedgerType
  BY <1>2, <1>4, <1>5, LedgerParts DEF LedgerType, TypeOK
<1>9. /\ l.in_flight = s
      /\ l.cursor = ledger.cursor + 1
      /\ l.next_ticket = ledger.next_ticket + 1
      /\ l.acked = ledger.acked
  BY <1>5
<1> HIDE DEF l
<1>10. s = Append(ledger.in_flight, [ticket |-> ledger.next_ticket, item |-> x])
  BY DEF s, e
<1> QED
  BY <1>2, <1>6, <1>7, <1>8, <1>9, <1>10 DEF l

-----------------------------------------------------------------------------
(* Types, and no orphaned entry.                                           *)

\* Inductive: an entry in front of the cursor keeps its handle because tickets
\* are unique, so acknowledging or dropping one handle never touches another's.
LedgerInv == TypeOK /\ TicketsIncrease /\ NoOrphan

LEMMA InitLedgerInv == Init => LedgerInv
<1> SUFFICES ASSUME Init PROVE LedgerInv
  OBVIOUS
<1>1. EmptyLedger \in LedgerType /\ NoItem \in Item
  BY DEF EmptyLedger, LedgerType, NoItem, Item, NoPosition
<1>2. Len(ledger.in_flight) = 0 /\ ledger.cursor = 0
  BY DEF Init, EmptyLedger
<1>3. TypeOK
  BY <1>1, <1>2, CapacityAssumption DEF TypeOK, Init
<1> QED
  BY <1>2, <1>3 DEF LedgerInv, TicketsIncrease, NoOrphan

\* recv with an item in hand keeps the invariant.
LEMMA RecordLedgerInv ==
    ASSUME LedgerInv, NEW h \in Handles, RecvRecord(h)
    PROVE  LedgerInv'
<1>0. TypeOK /\ TicketsIncrease /\ NoOrphan
  BY DEF LedgerInv
<1> DEFINE F == ledger.in_flight
           e == [ticket |-> ledger.next_ticket, item |-> popped]
<1>1. /\ ledger' \in LedgerType
      /\ ledger'.in_flight = Append(F, e)
      /\ Len(ledger'.in_flight) = Len(F) + 1
      /\ ledger'.cursor = ledger.cursor + 1
      /\ ledger'.next_ticket = ledger.next_ticket + 1
      /\ RecvEntry(ledger, popped) = ledger'.in_flight[ledger'.cursor]
      /\ RecvEntry(ledger, popped) \in Entry
  BY <1>0, RecvResult DEF RecvRecord, TypeOK
<1>2. /\ handle[h] = NoDelivery
      /\ handle' = [handle EXCEPT ![h] = RecvEntry(ledger, popped)]
  BY DEF RecvRecord, Deliver, Free
<1>3. /\ F \in Seq(Entry)
      /\ ledger.cursor \in 0 .. Len(F)
      /\ ledger.next_ticket \in Nat
      /\ \A i \in 1 .. Len(F) : F[i] \in Entry /\ F[i].ticket \in Nat
  BY <1>0, LedgerParts DEF TypeOK
<1>4. e.ticket = ledger.next_ticket
  OBVIOUS
<1> HIDE DEF e
<1>5. /\ \A i \in 1 .. Len(F) : ledger'.in_flight[i] = F[i]
      /\ ledger'.in_flight[Len(F) + 1] = e
  BY <1>1, <1>3
<1>6. TypeOK'
  <2>1. ledger'.cursor =< Len(ledger'.in_flight)
    BY <1>1, <1>3
  <2>2. handle' \in [Handles -> Entry \cup {NoDelivery}]
    BY <1>0, <1>1, <1>2 DEF TypeOK
  <2>3. popped' \in Item /\ recv' = "idle"
    BY DEF RecvRecord, NoItem, Item, NoPosition
  <2> QED
    BY <1>0, <1>1, <2>1, <2>2, <2>3 DEF TypeOK, RecvRecord
<1>7. TicketsIncrease'
  <2>1. \A i \in 1 .. Len(F) : F[i].ticket < ledger.next_ticket
    BY <1>0 DEF TicketsIncrease
  <2>2. \A i, j \in 1 .. Len(F) : i < j => F[i].ticket < F[j].ticket
    BY <1>0 DEF TicketsIncrease
  <2>3. ASSUME NEW i \in 1 .. (Len(F) + 1), NEW j \in 1 .. (Len(F) + 1), i < j
        PROVE  ledger'.in_flight[i].ticket < ledger'.in_flight[j].ticket
    <3>1. i \in 1 .. Len(F)
      BY <1>3, <2>3
    <3>2. j \in 1 .. Len(F) \/ j = Len(F) + 1
      BY <1>3
    <3> QED
      BY <1>4, <1>5, <2>1, <2>2, <2>3, <3>1, <3>2
  <2>4. ASSUME NEW i \in 1 .. (Len(F) + 1)
        PROVE  ledger'.in_flight[i].ticket < ledger.next_ticket + 1
    <3>1. i \in 1 .. Len(F) \/ i = Len(F) + 1
      BY <1>3
    <3>2. ledger'.in_flight[i].ticket = ledger.next_ticket
              \/ (i \in 1 .. Len(F) /\ ledger'.in_flight[i].ticket = F[i].ticket)
      BY <1>4, <1>5, <3>1
    <3> QED
      BY <1>3, <2>1, <3>2
  <2>5. Len(ledger'.in_flight) = Len(F) + 1 /\ ledger'.next_ticket = ledger.next_ticket + 1
    BY <1>1
  <2> HIDE DEF F
  <2> QED
    BY <2>3, <2>4, <2>5 DEF TicketsIncrease
<1>8. NoOrphan'
  <2> SUFFICES ASSUME NEW i \in 1 .. ledger'.cursor
               PROVE  \E g \in Handles : handle'[g] = ledger'.in_flight[i]
    BY DEF NoOrphan
  <2>1. CASE i = ledger'.cursor
    BY <1>0, <1>1, <1>2, <2>1 DEF TypeOK
  <2>2. CASE i # ledger'.cursor
    <3>0. ledger'.cursor = ledger.cursor + 1
      BY <1>1
    <3>1. i \in 1 .. ledger.cursor /\ i \in 1 .. Len(F)
      BY <1>3, <2>2, <3>0
    <3>2. PICK g \in Handles : handle[g] = F[i]
      BY <1>0, <3>1 DEF NoOrphan
    <3>3. F[i] \in Entry
      BY <1>3, <3>1
    <3>4. g # h
      BY <1>2, <3>2, <3>3, NoDeliveryAssumption
    <3> QED
      BY <1>0, <1>2, <1>5, <3>1, <3>2, <3>4 DEF TypeOK
  <2> QED
    BY <2>1, <2>2
<1> QED
  BY <1>6, <1>7, <1>8 DEF LedgerInv

\* Acknowledging a delivery keeps the invariant.
LEMMA AckLedgerInv ==
    ASSUME LedgerInv, NEW h \in Handles, AckHandle(h)
    PROVE  LedgerInv'
<1>0. TypeOK /\ TicketsIncrease /\ NoOrphan
  BY DEF LedgerInv
<1> DEFINE F == ledger.in_flight
           t == handle[h].ticket
           l == Ack(ledger, t)
<1>1. /\ handle[h] # NoDelivery
      /\ handle' = [handle EXCEPT ![h] = NoDelivery]
      /\ ledger' = Release(l, t)
      /\ UNCHANGED <<queue, recv, popped, published>>
      /\ processed' = processed \cup {handle[h].item.id}
  BY DEF AckHandle, Free
<1>2. handle[h] \in Entry
  BY <1>0, <1>1 DEF TypeOK
<1>3. handle[h].item.id \in Nat
  BY <1>2 DEF Entry, Item
<1>4. /\ F \in Seq(Entry)
      /\ ledger.cursor \in 0 .. Len(F)
      /\ ledger.next_ticket \in Nat
      /\ \A i \in 1 .. Len(F) : F[i] \in Entry /\ F[i].ticket \in Nat
  BY <1>0, LedgerParts DEF TypeOK
<1>5. CASE HasTicket(ledger, t)
  <2> DEFINE k == IndexOf(ledger, t)
  <2>1. /\ k \in 1 .. Len(F)
        /\ F[k].ticket = t
        /\ l \in LedgerType
        /\ Len(l.in_flight) = Len(F) - 1
        /\ \A j \in 1 .. (Len(F) - 1) :
              l.in_flight[j] = IF j < k THEN F[j] ELSE F[j + 1]
        /\ l.cursor = IF k =< ledger.cursor THEN ledger.cursor - 1 ELSE ledger.cursor
        /\ l.next_ticket = ledger.next_ticket
        /\ ~HasTicket(l, t)
    BY <1>0, <1>5, AckResult
  <2>2. ledger' = l
    BY <1>1, <2>1 DEF Release
  <2> HIDE DEF l, k, t
  <2>3. TypeOK'
    <3>1. ledger'.cursor =< Len(ledger'.in_flight)
      BY <1>4, <2>1, <2>2
    <3>2. handle' \in [Handles -> Entry \cup {NoDelivery}]
      BY <1>0, <1>1 DEF TypeOK
    <3>3. processed' \in SUBSET Nat
      BY <1>0, <1>1, <1>3 DEF TypeOK
    <3> QED
      BY <1>0, <1>1, <2>1, <2>2, <3>1, <3>2, <3>3 DEF TypeOK
  <2>4. TicketsIncrease'
    <3>1. ASSUME NEW i \in 1 .. (Len(F) - 1)
          PROVE  \E m \in 1 .. Len(F) :
                    /\ l.in_flight[i] = F[m]
                    /\ m = IF i < k THEN i ELSE i + 1
      <4>1. (IF i < k THEN i ELSE i + 1) \in 1 .. Len(F)
        BY <1>4
      <4> QED
        BY <2>1, <4>1
    <3>2. ASSUME NEW i \in 1 .. (Len(F) - 1), NEW j \in 1 .. (Len(F) - 1), i < j
          PROVE  l.in_flight[i].ticket < l.in_flight[j].ticket
      <4>1. PICK m \in 1 .. Len(F) :
                l.in_flight[i] = F[m] /\ m = IF i < k THEN i ELSE i + 1
        BY <3>1
      <4>2. PICK n \in 1 .. Len(F) :
                l.in_flight[j] = F[n] /\ n = IF j < k THEN j ELSE j + 1
        BY <3>1
      <4>3. m < n
        BY <2>1, <3>2, <4>1, <4>2
      <4>4. F[m].ticket < F[n].ticket
        BY <1>0, <4>3 DEF TicketsIncrease
      <4> QED
        BY <4>1, <4>2, <4>4
    <3>3. \A i \in 1 .. (Len(F) - 1) : l.in_flight[i].ticket < ledger.next_ticket
      BY <1>0, <3>1 DEF TicketsIncrease
    <3>4. /\ Len(ledger'.in_flight) = Len(F) - 1
          /\ ledger'.in_flight = l.in_flight
          /\ ledger'.next_ticket = ledger.next_ticket
      BY <2>1, <2>2
    <3> HIDE DEF F
    <3> QED
      BY <3>2, <3>3, <3>4 DEF TicketsIncrease
  <2>5. NoOrphan'
    <3> SUFFICES ASSUME NEW i \in 1 .. ledger'.cursor
                 PROVE  \E g \in Handles : handle'[g] = ledger'.in_flight[i]
      BY DEF NoOrphan
    <3>1. PICK j \in 1 .. ledger.cursor : ledger'.in_flight[i] = F[j] /\ j # k
      <4>1. CASE i < k
        <5>1. i \in 1 .. ledger.cursor /\ i \in 1 .. (Len(F) - 1) /\ i # k
          BY <1>4, <2>1, <2>2, <4>1
        <5>2. ledger'.in_flight[i] = F[i]
          BY <2>1, <2>2, <4>1, <5>1
        <5> QED
          BY <5>1, <5>2
      <4>2. CASE ~(i < k)
        <5>1. i + 1 \in 1 .. ledger.cursor /\ i \in 1 .. (Len(F) - 1) /\ i + 1 # k
          BY <1>4, <2>1, <2>2, <4>2
        <5>2. ledger'.in_flight[i] = F[i + 1]
          BY <2>1, <2>2, <4>2, <5>1
        <5> QED
          BY <5>1, <5>2
      <4> QED
        BY <4>1, <4>2
    <3>2. j \in 1 .. Len(F)
      BY <1>4
    <3>3. PICK g \in Handles : handle[g] = F[j]
      BY <1>0 DEF NoOrphan
    <3>4. F[j].ticket # t
      BY <1>0, <1>4, <2>1, <3>1, <3>2 DEF TicketsIncrease
    <3>5. g # h
      BY <3>3, <3>4 DEF t
    <3> QED
      BY <1>0, <1>1, <3>1, <3>3, <3>5 DEF TypeOK
  <2> QED
    BY <2>3, <2>4, <2>5 DEF LedgerInv
<1>6. CASE ~HasTicket(ledger, t)
  <2>1. ledger' = ledger
    BY <1>1, <1>6 DEF Ack, Release
  <2>2. TypeOK'
    <3>1. handle' \in [Handles -> Entry \cup {NoDelivery}]
      BY <1>0, <1>1 DEF TypeOK
    <3>2. processed' \in SUBSET Nat
      BY <1>0, <1>1, <1>3 DEF TypeOK
    <3> QED
      BY <1>0, <1>1, <2>1, <3>1, <3>2 DEF TypeOK
  <2>3. TicketsIncrease'
    BY <1>0, <2>1 DEF TicketsIncrease
  <2>4. NoOrphan'
    <3> SUFFICES ASSUME NEW i \in 1 .. ledger.cursor
                 PROVE  \E g \in Handles : handle'[g] = F[i]
      BY <2>1 DEF NoOrphan
    <3>1. PICK g \in Handles : handle[g] = F[i]
      BY <1>0 DEF NoOrphan
    <3>2. F[i].ticket # t
      BY <1>4, <1>6 DEF HasTicket
    <3>3. g # h
      BY <3>1, <3>2
    <3> QED
      BY <1>0, <1>1, <3>1, <3>3 DEF TypeOK
  <2> QED
    BY <2>2, <2>3, <2>4 DEF LedgerInv
<1> QED
  BY <1>5, <1>6

\* Dropping a handle keeps the invariant: the cursor moves back in front of
\* the entry that lost its handle.
LEMMA DropLedgerInv ==
    ASSUME LedgerInv, NEW h \in Handles, DropHandle(h)
    PROVE  LedgerInv'
<1>0. TypeOK /\ TicketsIncrease /\ NoOrphan
  BY DEF LedgerInv
<1> DEFINE F == ledger.in_flight
           t == handle[h].ticket
<1>1. /\ handle' = [handle EXCEPT ![h] = NoDelivery]
      /\ ledger' = Release(ledger, t)
      /\ UNCHANGED <<queue, recv, popped, published, processed>>
  BY DEF DropHandle, Free
<1>2. /\ ledger' \in LedgerType
      /\ ledger'.in_flight = F
      /\ ledger'.next_ticket = ledger.next_ticket
      /\ ledger'.cursor =< ledger.cursor
      /\ \A i \in 1 .. Len(F) : i =< ledger'.cursor => F[i].ticket # t
  BY <1>0, <1>1, ReleaseResult
<1>3. /\ ledger.cursor \in 0 .. Len(F)
      /\ ledger'.cursor \in Nat
      /\ Len(F) \in Nat
  BY <1>0, <1>2, LedgerParts DEF TypeOK
<1>4. TypeOK'
  <2>1. handle' \in [Handles -> Entry \cup {NoDelivery}]
    BY <1>0, <1>1 DEF TypeOK
  <2>2. ledger'.cursor =< Len(ledger'.in_flight)
    BY <1>2, <1>3
  <2> QED
    BY <1>0, <1>1, <1>2, <2>1, <2>2 DEF TypeOK
<1>5. TicketsIncrease'
  BY <1>0, <1>2 DEF TicketsIncrease
<1>6. NoOrphan'
  <2> SUFFICES ASSUME NEW i \in 1 .. ledger'.cursor
               PROVE  \E g \in Handles : handle'[g] = F[i]
    BY <1>2 DEF NoOrphan
  <2>1. i \in 1 .. ledger.cursor /\ i \in 1 .. Len(F) /\ i =< ledger'.cursor
    BY <1>2, <1>3
  <2>2. PICK g \in Handles : handle[g] = F[i]
    BY <1>0, <2>1 DEF NoOrphan
  <2>3. g # h
    BY <1>2, <2>1, <2>2
  <2> QED
    BY <1>0, <1>1, <2>2, <2>3 DEF TypeOK
<1> QED
  BY <1>4, <1>5, <1>6 DEF LedgerInv

\* Serving a redelivery keeps the invariant.
LEMMA RedeliverLedgerInv ==
    ASSUME LedgerInv, NEW h \in Handles, RecvRedelivery(h)
    PROVE  LedgerInv'
<1>0. TypeOK /\ TicketsIncrease /\ NoOrphan
  BY DEF LedgerInv
<1> DEFINE F == ledger.in_flight
<1>1. /\ handle[h] = NoDelivery
      /\ handle' = [handle EXCEPT ![h] = F[ledger.cursor + 1]]
      /\ ledger.cursor < Len(F)
      /\ ledger' = [ledger EXCEPT !.cursor = @ + 1]
      /\ UNCHANGED <<queue, recv, popped, published, processed>>
  BY DEF RecvRedelivery, Deliver, Free, AtCursor, HasRedelivery, Redelivery
<1>2. /\ ledger' \in LedgerType
      /\ ledger'.in_flight = F
      /\ ledger'.next_ticket = ledger.next_ticket
      /\ ledger'.cursor = ledger.cursor + 1
  <2>1. ledger = [in_flight |-> F, cursor |-> ledger.cursor,
                  next_ticket |-> ledger.next_ticket, acked |-> ledger.acked]
    BY <1>0 DEF TypeOK, LedgerType
  <2>2. ledger' = [in_flight |-> F, cursor |-> ledger.cursor + 1,
                   next_ticket |-> ledger.next_ticket, acked |-> ledger.acked]
    BY <1>1, <2>1
  <2>3. ledger.cursor + 1 \in Nat /\ F \in Seq(Entry)
    BY <1>0, LedgerParts DEF TypeOK
  <2> QED
    BY <1>0, <2>2, <2>3, LedgerParts DEF TypeOK, LedgerType
<1>3. /\ ledger.cursor \in 0 .. Len(F)
      /\ Len(F) \in Nat
      /\ \A i \in 1 .. Len(F) : F[i] \in Entry
  BY <1>0, LedgerParts DEF TypeOK
<1>4. TypeOK'
  <2>1. handle' \in [Handles -> Entry \cup {NoDelivery}]
    BY <1>0, <1>1, <1>3 DEF TypeOK
  <2>2. ledger'.cursor =< Len(ledger'.in_flight)
    BY <1>1, <1>2, <1>3
  <2> QED
    BY <1>0, <1>1, <1>2, <2>1, <2>2 DEF TypeOK
<1>5. TicketsIncrease'
  BY <1>0, <1>2 DEF TicketsIncrease
<1>6. NoOrphan'
  <2> SUFFICES ASSUME NEW i \in 1 .. ledger'.cursor
               PROVE  \E g \in Handles : handle'[g] = F[i]
    BY <1>2 DEF NoOrphan
  <2>1. CASE i = ledger.cursor + 1
    BY <1>0, <1>1, <2>1 DEF TypeOK
  <2>2. CASE i # ledger.cursor + 1
    <3>1. i \in 1 .. ledger.cursor /\ i \in 1 .. Len(F)
      BY <1>2, <1>3, <2>2
    <3>2. PICK g \in Handles : handle[g] = F[i]
      BY <1>0, <3>1 DEF NoOrphan
    <3>3. g # h
      BY <1>1, <1>3, <3>1, <3>2, NoDeliveryAssumption
    <3> QED
      BY <1>0, <1>1, <3>2, <3>3 DEF TypeOK
  <2> QED
    BY <2>1, <2>2
<1> QED
  BY <1>4, <1>5, <1>6 DEF LedgerInv

\* Publishing, awaiting, popping and cancelling leave ledger and handles alone.
LEMMA QueueLedgerInv ==
    ASSUME LedgerInv, Publish \/ RecvAwait \/ RecvPop \/ RecvCancel
    PROVE  LedgerInv'
<1>0. TypeOK /\ TicketsIncrease /\ NoOrphan
  BY DEF LedgerInv
<1>1. UNCHANGED <<ledger, handle, processed>>
  BY DEF Publish, RecvAwait, RecvPop, RecvCancel
<1>2. TypeOK'
  <2>1. CASE Publish
    <3>1. PICK position \in {published + 1, NoPosition} :
              queue' = Append(queue, [id |-> published + 1, position |-> position])
      BY <2>1 DEF Publish
    <3>2. [id |-> published + 1, position |-> position] \in Item
      BY <1>0 DEF TypeOK, Item, NoPosition
    <3>3. queue' \in Seq(Item) /\ Len(queue') = Len(queue) + 1
      BY <1>0, <3>1, <3>2 DEF TypeOK
    <3>4. Len(queue') =< Capacity
      BY <1>0, <2>1, <3>3, CapacityAssumption DEF Publish, TypeOK
    <3>5. published' \in Nat
      BY <1>0, <2>1 DEF Publish, TypeOK
    <3> QED
      BY <1>0, <1>1, <2>1, <3>3, <3>4, <3>5 DEF Publish, TypeOK
  <2>2. CASE RecvPop
    <3>1. queue' \in Seq(Item) /\ Len(queue') = Len(queue) - 1 /\ popped' \in Item
      BY <1>0, <2>2 DEF RecvPop, TypeOK
    <3>2. Len(queue') =< Capacity
      BY <1>0, <3>1, CapacityAssumption DEF TypeOK
    <3>3. recv' = "popped"
      BY <2>2 DEF RecvPop
    <3> QED
      BY <1>0, <1>1, <2>2, <3>1, <3>2, <3>3 DEF RecvPop, TypeOK
  <2>3. CASE RecvAwait \/ RecvCancel
    BY <1>0, <1>1, <2>3 DEF RecvAwait, RecvCancel, TypeOK
  <2> QED
    BY <2>1, <2>2, <2>3
<1>3. TicketsIncrease' /\ NoOrphan'
  BY <1>0, <1>1 DEF TicketsIncrease, NoOrphan
<1> QED
  BY <1>2, <1>3 DEF LedgerInv

LEMMA NextLedgerInv == LedgerInv /\ [Next]_vars => LedgerInv'
<1> SUFFICES ASSUME LedgerInv, [Next]_vars PROVE LedgerInv'
  OBVIOUS
<1>1. CASE Publish \/ RecvAwait \/ RecvPop \/ RecvCancel
  BY <1>1, QueueLedgerInv
<1>2. CASE \E h \in Handles : RecvRedelivery(h)
  BY <1>2, RedeliverLedgerInv
<1>3. CASE \E h \in Handles : RecvRecord(h)
  BY <1>3, RecordLedgerInv
<1>4. CASE \E h \in Handles : AckHandle(h)
  BY <1>4, AckLedgerInv
<1>5. CASE \E h \in Handles : DropHandle(h)
  BY <1>5, DropLedgerInv
<1>6. CASE UNCHANGED vars
  BY <1>6 DEF vars, LedgerInv, TypeOK, TicketsIncrease, NoOrphan
<1> QED
  BY <1>1, <1>2, <1>3, <1>4, <1>5, <1>6 DEF Next

\* The channel's state keeps its types; in particular the redelivery cursor
\* never leaves the ledger and the queue never exceeds its capacity.
THEOREM ChannelTypes == Spec => []TypeOK
<1>1. LedgerInv => TypeOK
  BY DEF LedgerInv
<1> QED
  BY InitLedgerInv, NextLedgerInv, <1>1, PTL DEF Spec

\* Whatever the consumer does (hold several deliveries, acknowledge them in any
\* order, drop them, be cancelled while it waits), no entry is ever stranded in
\* front of the cursor without a handle to acknowledge it.
THEOREM ChannelNoOrphan == Spec => []NoOrphan
<1>1. LedgerInv => NoOrphan
  BY DEF LedgerInv
<1> QED
  BY InitLedgerInv, NextLedgerInv, <1>1, PTL DEF Spec

-----------------------------------------------------------------------------
(***************************************************************************)
(* One channel as a log, for every capacity, every set of handles and      *)
(* every number of items: nothing published is lost, what is               *)
(* unacknowledged keeps its order, and a consumer that holds one delivery  *)
(* at a time sees a log with one committed offset (LaneLog).               *)
(*                                                                         *)
(* The argument runs over the backlog.  Every step of the channel leaves   *)
(* it alone, appends one new item to it or takes one item out of it        *)
(* (BacklogStep); the invariants follow from that alone.                   *)
(***************************************************************************)

\* A handle whose ticket is still in the ledger holds that very entry, and no
\* ticket to come is one a handle already carries.
HandlesMatch ==
    \A h \in Handles : ~Free(h) =>
        /\ handle[h].ticket < ledger.next_ticket
        /\ \A i \in 1 .. Len(ledger.in_flight) :
              ledger.in_flight[i].ticket = handle[h].ticket
                  => ledger.in_flight[i] = handle[h]

\* An unacknowledged item is one that was published; its position, when it
\* has one, is its number.
Numbered ==
    \A i \in 1 .. Len(Backlog) :
        /\ Backlog[i].id \in 1 .. published
        /\ Backlog[i].position \in {NoPosition, Backlog[i].id}

LogInv == LedgerInv /\ HandlesMatch /\ Numbered /\ InOrder /\ NothingLost

\* The one handle of a sink lane holds the first entry of the ledger, the only
\* one handed out.
HeldIsFirst ==
    \A h \in Handles : ~Free(h) =>
        /\ ledger.cursor = 1
        /\ handle[h] = ledger.in_flight[1]

\* The items a lane has committed, when it commits them in order.
Committed == published - Len(Backlog)

\* What is unacknowledged is exactly what follows the committed prefix.
Contiguous ==
    /\ Committed >= 0
    /\ \A i \in 1 .. Len(Backlog) : Backlog[i].id = Committed + i

ConfirmedIsCommitted == ledger.acked =< Committed

LaneInv == LogInv /\ (OneAtATime => HeldIsFirst /\ Contiguous /\ ConfirmedIsCommitted)

-----------------------------------------------------------------------------
(* The backlog, and what a step makes of it.                               *)

\* The concatenation of two sequences, index by index.
LEMMA ConcatParts ==
    ASSUME NEW S, NEW s \in Seq(S), NEW t \in Seq(S)
    PROVE  /\ s \o t \in Seq(S)
           /\ Len(s \o t) = Len(s) + Len(t)
           /\ \A i \in 1 .. Len(s) : (s \o t)[i] = s[i]
           /\ \A i \in 1 .. Len(t) : (s \o t)[Len(s) + i] = t[i]
OBVIOUS

\* The backlog, index by index: the ledger, what recv has in hand, the queue.
BacklogIndices ==
    /\ Backlog \in Seq(Item)
    /\ Len(InHand) \in {0, 1}
    /\ Len(ledger.in_flight) \in Nat
    /\ Len(queue) \in Nat
    /\ Len(Backlog) = Len(ledger.in_flight) + Len(InHand) + Len(queue)
    /\ \A i \in 1 .. Len(ledger.in_flight) :
          Backlog[i] = ledger.in_flight[i].item
    /\ \A i \in 1 .. Len(InHand) :
          Backlog[Len(ledger.in_flight) + i] = popped
    /\ \A i \in 1 .. Len(queue) :
          Backlog[Len(ledger.in_flight) + Len(InHand) + i] = queue[i]

LEMMA BacklogParts == TypeOK => BacklogIndices
<1> SUFFICES ASSUME TypeOK PROVE BacklogIndices
  OBVIOUS
<1> DEFINE L == Len(ledger.in_flight)
           F == [i \in 1 .. L |-> ledger.in_flight[i].item]
<1>1. L \in Nat
  BY LedgerParts DEF TypeOK
<1>2. \A i \in 1 .. L : ledger.in_flight[i].item \in Item
  BY LedgerParts DEF TypeOK
<1> HIDE DEF L
<1>3. F \in Seq(Item) /\ Len(F) = L /\ \A i \in 1 .. L : F[i] = ledger.in_flight[i].item
  BY <1>1, <1>2
<1>4. /\ InHand \in Seq(Item)
      /\ Len(InHand) \in {0, 1}
      /\ \A i \in 1 .. Len(InHand) : InHand[i] = popped
  BY DEF InHand, TypeOK
<1>5. queue \in Seq(Item)
  BY DEF TypeOK
<1>6. Backlog = (F \o InHand) \o queue
  BY DEF Backlog, L
<1> HIDE DEF F
<1>7. /\ F \o InHand \in Seq(Item)
      /\ Len(F \o InHand) = L + Len(InHand)
      /\ \A i \in 1 .. L : (F \o InHand)[i] = F[i]
      /\ \A i \in 1 .. Len(InHand) : (F \o InHand)[L + i] = InHand[i]
  BY <1>3, <1>4, ConcatParts, SMTT(40)
<1>8. /\ Backlog \in Seq(Item)
      /\ Len(Backlog) = L + Len(InHand) + Len(queue)
      /\ \A i \in 1 .. Len(F \o InHand) : Backlog[i] = (F \o InHand)[i]
      /\ \A i \in 1 .. Len(queue) : Backlog[L + Len(InHand) + i] = queue[i]
  BY <1>5, <1>6, <1>7, ConcatParts
<1>9. \A i \in 1 .. L : i \in 1 .. Len(F \o InHand)
  BY <1>1, <1>4, <1>7
<1>10. \A i \in 1 .. Len(InHand) : L + i \in 1 .. Len(F \o InHand)
  BY <1>1, <1>4, <1>7
<1>11. Len(queue) \in Nat
  BY <1>5
<1> QED
  BY <1>1, <1>3, <1>4, <1>7, <1>8, <1>9, <1>10, <1>11 DEF BacklogIndices, L

\* The three things a step does to the backlog.
Stays ==
    /\ Len(Backlog') = Len(Backlog)
    /\ \A i \in 1 .. Len(Backlog) : Backlog'[i] = Backlog[i]

Grows(item) ==
    /\ Len(Backlog') = Len(Backlog) + 1
    /\ \A i \in 1 .. Len(Backlog) : Backlog'[i] = Backlog[i]
    /\ Backlog'[Len(Backlog) + 1] = item

Loses(k) ==
    /\ k \in 1 .. Len(Backlog)
    /\ Len(Backlog') = Len(Backlog) - 1
    /\ \A i \in 1 .. (Len(Backlog) - 1) :
          Backlog'[i] = IF i < k THEN Backlog[i] ELSE Backlog[i + 1]

\* A position in a backlog of l ledger entries, p items in hand and q queued
\* lies in one of the three.
LEMMA ThreeParts ==
    ASSUME NEW l \in Nat, NEW p \in Nat, NEW q \in Nat, NEW i \in 1 .. (l + p + q)
    PROVE  \/ i \in 1 .. l
           \/ \E j \in 1 .. p : i = l + j
           \/ \E j \in 1 .. q : i = l + p + j
<1>1. CASE i =< l
  BY <1>1
<1>2. CASE i > l /\ i =< l + p
  <2>1. i - l \in 1 .. p /\ i = l + (i - l)
    BY <1>2
  <2> QED
    BY <2>1
<1>3. CASE i > l + p
  <2>1. i - (l + p) \in 1 .. q /\ i = l + p + (i - (l + p))
    BY <1>3
  <2> QED
    BY <2>1
<1> QED
  BY <1>1, <1>2, <1>3

LEMMA PublishBacklog ==
    ASSUME LedgerInv, LedgerInv', Publish
    PROVE  \E position \in {published + 1, NoPosition} :
              Grows([id |-> published + 1, position |-> position])
<1> DEFINE L == Len(ledger.in_flight)
           P == Len(InHand)
           Q == Len(queue)
<1>1. TypeOK /\ TypeOK'
  BY DEF LedgerInv
<1>2. PICK position \in {published + 1, NoPosition} :
          queue' = Append(queue, [id |-> published + 1, position |-> position])
  BY DEF Publish
<1>3. [id |-> published + 1, position |-> position] \in Item
  BY <1>1 DEF TypeOK, Item, NoPosition
<1> DEFINE x == [id |-> published + 1, position |-> position]
<1> HIDE DEF x
<1>4. /\ Len(queue') = Q + 1
      /\ \A i \in 1 .. Q : queue'[i] = queue[i]
      /\ queue'[Q + 1] = x
  BY <1>1, <1>2, <1>3 DEF TypeOK, x
<1>5. UNCHANGED <<ledger, recv, popped>> /\ InHand' = InHand
  BY DEF Publish, InHand
<1>6. BacklogIndices'
  BY <1>1, BacklogParts, PTL
<1>7. /\ L \in Nat /\ P \in Nat /\ Q \in Nat
      /\ Len(Backlog) = L + P + Q
      /\ \A i \in 1 .. L : Backlog[i] = ledger.in_flight[i].item
      /\ \A i \in 1 .. P : Backlog[L + i] = popped
      /\ \A i \in 1 .. Q : Backlog[L + P + i] = queue[i]
  BY <1>1, BacklogParts DEF BacklogIndices
<1>8. /\ Len(Backlog') = L + P + Len(queue')
      /\ \A i \in 1 .. L : Backlog'[i] = ledger.in_flight[i].item
      /\ \A i \in 1 .. P : Backlog'[L + i] = popped
      /\ \A i \in 1 .. Len(queue') : Backlog'[L + P + i] = queue'[i]
  BY <1>5, <1>6 DEF BacklogIndices
<1> HIDE DEF L, P, Q
<1>9. ASSUME NEW i \in 1 .. Len(Backlog)
      PROVE  Backlog'[i] = Backlog[i]
  <2>1. \/ i \in 1 .. L
        \/ \E j \in 1 .. P : i = L + j
        \/ \E j \in 1 .. Q : i = L + P + j
    <3>1. i \in 1 .. (L + P + Q)
      BY <1>7
    <3> QED
      BY <1>7, <3>1, ThreeParts
  <2>2. CASE i \in 1 .. L
    BY <1>7, <1>8, <2>2
  <2>3. ASSUME NEW j \in 1 .. P, i = L + j
        PROVE  Backlog'[i] = Backlog[i]
    BY <1>7, <1>8, <2>3
  <2>4. ASSUME NEW j \in 1 .. Q, i = L + P + j
        PROVE  Backlog'[i] = Backlog[i]
    <3>1. j \in 1 .. Len(queue')
      BY <1>4, <1>7
    <3> QED
      BY <1>4, <1>7, <1>8, <2>4, <3>1
  <2> QED
    BY <2>1, <2>2, <2>3, <2>4
<1>10. Backlog'[Len(Backlog) + 1] = x
  <2>1. Q + 1 \in 1 .. Len(queue')
    BY <1>4, <1>7
  <2>2. Backlog'[L + P + (Q + 1)] = x
    BY <1>4, <1>8, <2>1
  <2>3. L + P + (Q + 1) = Len(Backlog) + 1
    BY <1>7
  <2> QED
    BY <2>2, <2>3
<1>11. Len(Backlog') = Len(Backlog) + 1
  BY <1>4, <1>7, <1>8
<1> QED
  BY <1>9, <1>10, <1>11 DEF Grows, x

\* The item moves from the queue's head into recv's hand.
LEMMA PopBacklog ==
    ASSUME LedgerInv, LedgerInv', RecvPop
    PROVE  Stays
<1> DEFINE L == Len(ledger.in_flight)
           Q == Len(queue)
<1>1. TypeOK /\ TypeOK'
  BY DEF LedgerInv
<1>2. /\ Q \in Nat \ {0}
      /\ Len(queue') = Q - 1
      /\ \A i \in 1 .. (Q - 1) : queue'[i] = queue[i + 1]
      /\ popped' = queue[1]
  BY <1>1 DEF RecvPop, TypeOK
<1>3. Len(InHand) = 0 /\ Len(InHand') = 1 /\ ledger' = ledger
  BY DEF RecvPop, InHand
<1>4. BacklogIndices /\ BacklogIndices'
  BY <1>1, BacklogParts, PTL
<1>5. /\ L \in Nat
      /\ Len(Backlog) = L + Q
      /\ \A i \in 1 .. L : Backlog[i] = ledger.in_flight[i].item
      /\ \A i \in 1 .. Q : Backlog[L + 0 + i] = queue[i]
  BY <1>3, <1>4 DEF BacklogIndices
<1>6. /\ Len(Backlog') = L + 1 + Len(queue')
      /\ \A i \in 1 .. L : Backlog'[i] = ledger.in_flight[i].item
      /\ \A i \in 1 .. 1 : Backlog'[L + i] = popped'
      /\ \A i \in 1 .. Len(queue') : Backlog'[L + 1 + i] = queue'[i]
  BY <1>3, <1>4 DEF BacklogIndices
<1> HIDE DEF L, Q
<1>7. Len(Backlog') = Len(Backlog)
  BY <1>2, <1>5, <1>6
<1>8. ASSUME NEW i \in 1 .. Len(Backlog)
      PROVE  Backlog'[i] = Backlog[i]
  <2>1. \/ i \in 1 .. L
        \/ \E j \in 1 .. 1 : i = L + j
        \/ \E j \in 1 .. (Q - 1) : i = L + 1 + j
    <3>1. Q - 1 \in Nat /\ i \in 1 .. (L + 1 + (Q - 1))
      BY <1>2, <1>5
    <3> QED
      BY <1>5, <3>1, ThreeParts
  <2>2. CASE i \in 1 .. L
    BY <1>5, <1>6, <2>2
  <2>3. CASE i = L + 1
    <3>1. 1 \in 1 .. Q /\ L + 0 + 1 = L + 1
      BY <1>2, <1>5
    <3> QED
      BY <1>2, <1>5, <1>6, <2>3, <3>1
  <2>4. ASSUME NEW j \in 1 .. (Q - 1), i = L + 1 + j
        PROVE  Backlog'[i] = Backlog[i]
    <3>1. j + 1 \in 1 .. Q /\ i = L + 0 + (j + 1)
      BY <1>2, <1>5, <2>4
    <3>2. Backlog[i] = queue[j + 1]
      BY <1>5, <3>1
    <3>3. Backlog'[i] = queue'[j]
      BY <1>2, <1>6, <2>4
    <3> QED
      BY <1>2, <3>2, <3>3
  <2> QED
    BY <2>1, <2>2, <2>3, <2>4
<1> QED
  BY <1>7, <1>8 DEF Stays

\* The item moves from recv's hand to the end of the ledger, whatever entry
\* is handed out in its place.
LEMMA RecordBacklog ==
    ASSUME LedgerInv, LedgerInv', NEW h \in Handles, RecvRecord(h)
    PROVE  Stays
<1> DEFINE F == ledger.in_flight
           L == Len(F)
           Q == Len(queue)
<1>1. TypeOK /\ TypeOK'
  BY DEF LedgerInv
<1>2. /\ ledger'.in_flight =
            Append(F, [ticket |-> ledger.next_ticket, item |-> popped])
      /\ Len(ledger'.in_flight) = L + 1
  BY <1>1, RecvResult DEF RecvRecord, TypeOK
<1>3. /\ \A i \in 1 .. L : ledger'.in_flight[i] = F[i]
      /\ ledger'.in_flight[L + 1].item = popped
  <2>1. F \in Seq(Entry) /\ [ticket |-> ledger.next_ticket, item |-> popped] \in Entry
    BY <1>1, LedgerParts DEF TypeOK, Entry
  <2>2. ledger'.in_flight[L + 1] = [ticket |-> ledger.next_ticket, item |-> popped]
    BY <1>2, <2>1
  <2>3. \A i \in 1 .. L : ledger'.in_flight[i] = F[i]
    BY <1>2, <2>1
  <2> QED
    BY <2>2, <2>3
<1>4. Len(InHand) = 1 /\ Len(InHand') = 0 /\ queue' = queue
  BY DEF RecvRecord, InHand
<1>5. BacklogIndices /\ BacklogIndices'
  BY <1>1, BacklogParts, PTL
<1>6. /\ L \in Nat /\ Q \in Nat
      /\ Len(Backlog) = L + 1 + Q
      /\ \A i \in 1 .. L : Backlog[i] = F[i].item
      /\ \A i \in 1 .. 1 : Backlog[L + i] = popped
      /\ \A i \in 1 .. Q : Backlog[L + 1 + i] = queue[i]
  BY <1>4, <1>5 DEF BacklogIndices
<1>7. /\ Len(Backlog') = L + 1 + Q
      /\ \A i \in 1 .. (L + 1) : Backlog'[i] = ledger'.in_flight[i].item
      /\ \A i \in 1 .. Q : Backlog'[L + 1 + 0 + i] = queue[i]
  BY <1>2, <1>4, <1>5 DEF BacklogIndices
<1> HIDE DEF F, L, Q
<1>8. ASSUME NEW i \in 1 .. Len(Backlog)
      PROVE  Backlog'[i] = Backlog[i]
  <2>1. \/ i \in 1 .. L
        \/ \E j \in 1 .. 1 : i = L + j
        \/ \E j \in 1 .. Q : i = L + 1 + j
    BY <1>6, ThreeParts
  <2>2. CASE i \in 1 .. L
    <3>1. i \in 1 .. (L + 1)
      BY <1>6, <2>2
    <3> QED
      BY <1>3, <1>6, <1>7, <2>2, <3>1
  <2>3. CASE i = L + 1
    <3>1. i \in 1 .. (L + 1)
      BY <1>6, <2>3
    <3> QED
      BY <1>3, <1>6, <1>7, <2>3, <3>1
  <2>4. ASSUME NEW j \in 1 .. Q, i = L + 1 + j
        PROVE  Backlog'[i] = Backlog[i]
    <3>1. L + 1 + 0 + j = L + 1 + j
      BY <1>6
    <3> QED
      BY <1>6, <1>7, <2>4, <3>1
  <2> QED
    BY <2>1, <2>2, <2>3, <2>4
<1> QED
  BY <1>6, <1>7, <1>8 DEF Stays

\* A step that moves only the cursor, the handles or recv's waiting.
LEMMA QuietBacklog ==
    ASSUME ledger'.in_flight = ledger.in_flight, InHand' = InHand, queue' = queue
    PROVE  Stays
<1>1. Backlog' = Backlog
  BY DEF Backlog
<1> QED
  BY <1>1 DEF Stays

\* An acknowledgement takes out exactly the item its handle delivered, unless
\* that one was acknowledged before.
Settles(h, k) ==
    /\ k \in 1 .. Len(ledger.in_flight)
    /\ ledger.in_flight[k] = handle[h]
    /\ Backlog[k] = handle[h].item
    /\ ledger'.acked = Larger(ledger.acked, handle[h].item.position)
    /\ ledger'.next_ticket = ledger.next_ticket
    /\ Len(ledger'.in_flight) = Len(ledger.in_flight) - 1
    /\ \A i \in 1 .. (Len(ledger.in_flight) - 1) :
          ledger'.in_flight[i] = IF i < k THEN ledger.in_flight[i]
                                          ELSE ledger.in_flight[i + 1]
    /\ Loses(k)

LEMMA AckBacklog ==
    ASSUME LedgerInv, HandlesMatch, LedgerInv', NEW h \in Handles, AckHandle(h)
    PROVE  \/ ledger' = ledger /\ ~HasTicket(ledger, handle[h].ticket) /\ Stays
           \/ \E k \in 1 .. Len(ledger.in_flight) : Settles(h, k)
<1> DEFINE F == ledger.in_flight
           L == Len(F)
           t == handle[h].ticket
<1>1. TypeOK /\ TicketsIncrease /\ TypeOK'
  BY DEF LedgerInv
<1>2. /\ handle[h] # NoDelivery
      /\ ledger' = Release(Ack(ledger, t), t)
      /\ UNCHANGED <<queue, recv, popped>>
      /\ InHand' = InHand
  BY DEF AckHandle, Free, InHand
<1>3. CASE ~HasTicket(ledger, t)
  <2>1. ledger' = ledger
    BY <1>2, <1>3 DEF Ack, Release
  <2> QED
    BY <1>2, <1>3, <2>1, QuietBacklog
<1>4. CASE HasTicket(ledger, t)
  <2> DEFINE k == IndexOf(ledger, t)
             l == Ack(ledger, t)
  <2>1. /\ k \in 1 .. L
        /\ F[k].ticket = t
        /\ Len(l.in_flight) = L - 1
        /\ \A j \in 1 .. (L - 1) : l.in_flight[j] = IF j < k THEN F[j] ELSE F[j + 1]
        /\ l.acked = Larger(ledger.acked, F[k].item.position)
        /\ l.next_ticket = ledger.next_ticket
        /\ ~HasTicket(l, t)
    BY <1>1, <1>4, AckResult
  <2>2. ledger' = l
    BY <1>2, <2>1 DEF Release
  <2> HIDE DEF l, k
  <2>3. F[k] = handle[h]
    BY <1>2, <2>1 DEF HandlesMatch, Free
  <2>4. BacklogIndices /\ BacklogIndices'
    BY <1>1, BacklogParts, PTL
  <2>5. /\ L \in Nat
        /\ Len(queue) \in Nat
        /\ Len(InHand) \in {0, 1}
        /\ Len(Backlog) = L + Len(InHand) + Len(queue)
        /\ \A i \in 1 .. L : Backlog[i] = F[i].item
        /\ \A i \in 1 .. Len(InHand) : Backlog[L + i] = popped
        /\ \A i \in 1 .. Len(queue) : Backlog[L + Len(InHand) + i] = queue[i]
    BY <2>4 DEF BacklogIndices
  <2>6. /\ Len(Backlog') = (L - 1) + Len(InHand) + Len(queue)
        /\ \A i \in 1 .. (L - 1) : Backlog'[i] = l.in_flight[i].item
        /\ \A i \in 1 .. Len(InHand) : Backlog'[L - 1 + i] = popped
        /\ \A i \in 1 .. Len(queue) : Backlog'[L - 1 + Len(InHand) + i] = queue[i]
    BY <1>2, <2>1, <2>2, <2>4 DEF BacklogIndices
  <2>7. Backlog[k] = handle[h].item
    BY <2>1, <2>3, <2>5
  <2> HIDE DEF F, L
  <2>8. /\ L - 1 \in Nat /\ Len(InHand) \in Nat /\ Len(queue) \in Nat
         /\ Len(Backlog) - 1 = (L - 1) + Len(InHand) + Len(queue)
    <3>1. k \in 1 .. L
      BY <2>1
    <3>2. /\ L \in Nat /\ Len(queue) \in Nat /\ Len(InHand) \in {0, 1}
          /\ Len(Backlog) = L + Len(InHand) + Len(queue)
      BY <2>5
    <3> QED
      BY <3>1, <3>2
  <2>9. k \in 1 .. Len(Backlog) /\ Len(Backlog') = Len(Backlog) - 1
    BY <2>1, <2>5, <2>6
  <2>10. ASSUME NEW i \in 1 .. (Len(Backlog) - 1)
        PROVE  Backlog'[i] = IF i < k THEN Backlog[i] ELSE Backlog[i + 1]
    <3>1. \/ i \in 1 .. (L - 1)
          \/ \E j \in 1 .. Len(InHand) : i = L - 1 + j
          \/ \E j \in 1 .. Len(queue) : i = L - 1 + Len(InHand) + j
      <4>1. i \in 1 .. ((L - 1) + Len(InHand) + Len(queue))
        BY <2>8
      <4> QED
        BY <2>8, <4>1, ThreeParts
    <3>2. CASE i \in 1 .. (L - 1)
      <4>1. Backlog'[i] = (IF i < k THEN F[i] ELSE F[i + 1]).item
        BY <2>1, <2>6, <3>2
      <4>2. i \in 1 .. L /\ i + 1 \in 1 .. L
        BY <2>5, <3>2
      <4>3. Backlog[i] = F[i].item /\ Backlog[i + 1] = F[i + 1].item
        BY <2>5, <4>2
      <4> QED
        BY <4>1, <4>3
    <3>3. ASSUME NEW j \in 1 .. Len(InHand), i = L - 1 + j
          PROVE  Backlog'[i] = Backlog[i + 1]
      <4>1. i + 1 = L + j
        BY <2>1, <2>5, <3>3
      <4> QED
        BY <2>5, <2>6, <3>3, <4>1
    <3>4. ASSUME NEW j \in 1 .. Len(queue), i = L - 1 + Len(InHand) + j
          PROVE  Backlog'[i] = Backlog[i + 1]
      <4>1. i + 1 = L + Len(InHand) + j
        BY <2>1, <2>5, <3>4
      <4> QED
        BY <2>5, <2>6, <3>4, <4>1
    <3>5. i \in 1 .. (L - 1) \/ ~(i < k)
      BY <2>1, <2>5
    <3> QED
      BY <3>1, <3>2, <3>3, <3>4, <3>5
  <2>11. Loses(k)
    BY <2>10, <2>9 DEF Loses
  <2>12. Settles(h, k)
    BY <2>1, <2>2, <2>3, <2>7, <2>11 DEF Settles, F, L
  <2> QED
    BY <2>1, <2>12 DEF F, L
<1> QED
  BY <1>3, <1>4

-----------------------------------------------------------------------------
(* The log: numbered, in order, nothing lost.                              *)

LogFacts == Numbered /\ InOrder /\ NothingLost

LEMMA StaysKeeps ==
    ASSUME LedgerInv, LogFacts, Stays, published' = published, processed \subseteq processed'
    PROVE  LogFacts'
<1>1. Numbered'
  BY DEF LogFacts, Numbered, Stays
<1>2. InOrder'
  BY DEF LogFacts, InOrder, Stays
<1>3. NothingLost'
  BY DEF LogFacts, NothingLost, Stays
<1> QED
  BY <1>1, <1>2, <1>3 DEF LogFacts

LEMMA GrowsKeeps ==
    ASSUME LedgerInv, LogFacts, NEW position \in {published + 1, NoPosition},
           Grows([id |-> published + 1, position |-> position]),
           published' = published + 1, processed' = processed
    PROVE  LogFacts'
<1> DEFINE n == Len(Backlog)
           x == [id |-> published + 1, position |-> position]
<1>1. n \in Nat /\ published \in Nat
  BY BacklogParts DEF LedgerInv, TypeOK, BacklogIndices
<1>2. /\ Len(Backlog') = n + 1
      /\ \A i \in 1 .. n : Backlog'[i] = Backlog[i]
      /\ Backlog'[n + 1] = x
  BY DEF Grows
<1>3. /\ x.id = published + 1
      /\ x.position \in {NoPosition, x.id}
  OBVIOUS
<1>4. \A i \in 1 .. n : /\ Backlog[i].id \in 1 .. published
                        /\ Backlog[i].position \in {NoPosition, Backlog[i].id}
  BY DEF LogFacts, Numbered
<1>5. \A i, j \in 1 .. n : i < j => Backlog[i].id < Backlog[j].id
  BY DEF LogFacts, InOrder
<1>6. \A m \in 1 .. published :
          m \in processed \/ \E i \in 1 .. n : Backlog[i].id = m
  BY DEF LogFacts, NothingLost
<1> HIDE DEF n, x
<1>7. \A i \in 1 .. (n + 1) : i \in 1 .. n \/ i = n + 1
  BY <1>1
<1>8. Numbered'
  <2>1. \A i \in 1 .. (n + 1) : /\ Backlog'[i].id \in 1 .. (published + 1)
                                /\ Backlog'[i].position \in {NoPosition, Backlog'[i].id}
    BY <1>1, <1>2, <1>3, <1>4, <1>7
  <2> QED
    BY <1>2, <2>1 DEF Numbered
<1>9. InOrder'
  <2>1. ASSUME NEW i \in 1 .. (n + 1), NEW j \in 1 .. (n + 1), i < j
        PROVE  Backlog'[i].id < Backlog'[j].id
    <3>1. i \in 1 .. n /\ i # n + 1
      BY <1>1, <2>1
    <3>2. CASE j = n + 1
      <4>1. Backlog'[i].id \in 1 .. published /\ Backlog'[j].id = published + 1
        BY <1>2, <1>3, <1>4, <3>1, <3>2
      <4> QED
        BY <1>1, <4>1
    <3>3. CASE j \in 1 .. n
      BY <1>2, <1>5, <2>1, <3>1, <3>3
    <3> QED
      BY <1>7, <3>2, <3>3
  <2> QED
    BY <1>2, <2>1 DEF InOrder
<1>10. NothingLost'
  <2>1. ASSUME NEW m \in 1 .. (published + 1)
        PROVE  m \in processed \/ \E i \in 1 .. (n + 1) : Backlog'[i].id = m
    <3>1. CASE m = published + 1
      <4>1. n + 1 \in 1 .. (n + 1) /\ Backlog'[n + 1].id = m
        BY <1>1, <1>2, <1>3, <3>1
      <4> QED
        BY <4>1
    <3>2. CASE m \in 1 .. published
      <4>1. \A i \in 1 .. n : i \in 1 .. (n + 1)
        BY <1>1
      <4> QED
        BY <1>2, <1>6, <3>2, <4>1
    <3> QED
      BY <1>1, <3>1, <3>2
  <2> QED
    BY <1>2, <2>1 DEF NothingLost
<1> QED
  BY <1>8, <1>9, <1>10 DEF LogFacts

LEMMA LosesKeeps ==
    ASSUME LedgerInv, LogFacts, NEW k, Loses(k),
           published' = published, processed' = processed \cup {Backlog[k].id}
    PROVE  LogFacts'
<1> DEFINE n == Len(Backlog)
<1>1. n \in Nat /\ published \in Nat
  BY BacklogParts DEF LedgerInv, TypeOK, BacklogIndices
<1>2. /\ k \in 1 .. n
      /\ Len(Backlog') = n - 1
      /\ \A i \in 1 .. (n - 1) :
            Backlog'[i] = IF i < k THEN Backlog[i] ELSE Backlog[i + 1]
  BY DEF Loses
<1>4. \A i \in 1 .. n : /\ Backlog[i].id \in 1 .. published
                        /\ Backlog[i].position \in {NoPosition, Backlog[i].id}
  BY DEF LogFacts, Numbered
<1>5. \A i, j \in 1 .. n : i < j => Backlog[i].id < Backlog[j].id
  BY DEF LogFacts, InOrder
<1>6. \A m \in 1 .. published :
          m \in processed \/ \E i \in 1 .. n : Backlog[i].id = m
  BY DEF LogFacts, NothingLost
<1> HIDE DEF n
<1> DEFINE Old(i) == IF i < k THEN i ELSE i + 1
<1>7. \A i \in 1 .. (n - 1) : Old(i) \in 1 .. n /\ Backlog'[i] = Backlog[Old(i)]
  BY <1>1, <1>2
<1>8. \A i, j \in 1 .. (n - 1) : i < j => Old(i) < Old(j)
  BY <1>1, <1>2
<1>9. \A m \in 1 .. n : m # k => \E i \in 1 .. (n - 1) : Old(i) = m
  <2> SUFFICES ASSUME NEW m \in 1 .. n, m # k
               PROVE  \E i \in 1 .. (n - 1) : Old(i) = m
    OBVIOUS
  <2>1. CASE m < k
    <3>1. m \in 1 .. (n - 1) /\ Old(m) = m
      BY <1>1, <1>2, <2>1
    <3> QED
      BY <3>1
  <2>2. CASE m > k
    <3>1. m - 1 \in 1 .. (n - 1) /\ Old(m - 1) = m
      BY <1>1, <1>2, <2>2
    <3> QED
      BY <3>1
  <2> QED
    BY <1>1, <1>2, <2>1, <2>2
<1> HIDE DEF Old
<1>10. Numbered'
  <2>1. \A i \in 1 .. (n - 1) : /\ Backlog'[i].id \in 1 .. published
                                /\ Backlog'[i].position \in {NoPosition, Backlog'[i].id}
    BY <1>4, <1>7
  <2> QED
    BY <1>2, <2>1 DEF Numbered
<1>11. InOrder'
  <2>1. \A i, j \in 1 .. (n - 1) : i < j => Backlog'[i].id < Backlog'[j].id
    BY <1>5, <1>7, <1>8
  <2> QED
    BY <1>2, <2>1 DEF InOrder
<1>12. NothingLost'
  <2>1. ASSUME NEW m \in 1 .. published
        PROVE  m \in processed' \/ \E i \in 1 .. (n - 1) : Backlog'[i].id = m
    <3>1. CASE m \in processed
      BY <3>1
    <3>2. ASSUME NEW i \in 1 .. n, Backlog[i].id = m
          PROVE  m \in processed' \/ \E j \in 1 .. (n - 1) : Backlog'[j].id = m
      <4>1. CASE i = k
        BY <3>2, <4>1
      <4>2. CASE i # k
        BY <1>7, <1>9, <3>2, <4>2
      <4> QED
        BY <4>1, <4>2
    <3> QED
      BY <1>6, <3>1, <3>2
  <2> QED
    BY <1>2, <2>1 DEF NothingLost
<1> QED
  BY <1>10, <1>11, <1>12 DEF LogFacts

-----------------------------------------------------------------------------
(* The handles match the ledger.                                           *)

\* Handles and ledger entries alone, so that it reads the same after a step.
LEMMA MatchParts ==
    ASSUME LedgerInv, HandlesMatch, NEW h \in Handles, ~Free(h)
    PROVE  /\ handle[h] \in Entry
           /\ handle[h].ticket \in Nat
           /\ handle[h].ticket < ledger.next_ticket
           /\ \A i \in 1 .. Len(ledger.in_flight) :
                 ledger.in_flight[i].ticket = handle[h].ticket
                     => ledger.in_flight[i] = handle[h]
<1>1. handle[h] \in Entry
  BY DEF LedgerInv, TypeOK, Free
<1> QED
  BY <1>1 DEF HandlesMatch, Entry

\* A handle that holds after the step what it held before still matches, when
\* no entry is new; so does one that took an entry of the ledger.
LEMMA MatchKeeps ==
    ASSUME LedgerInv, HandlesMatch, LedgerInv',
           ledger'.next_ticket = ledger.next_ticket,
           \A i \in 1 .. Len(ledger'.in_flight) :
              \E j \in 1 .. Len(ledger.in_flight) :
                 ledger'.in_flight[i] = ledger.in_flight[j],
           \A h \in Handles : handle'[h] \in {handle[h], NoDelivery}
    PROVE  HandlesMatch'
<1> SUFFICES ASSUME NEW h \in Handles, handle'[h] # NoDelivery
             PROVE  /\ handle'[h].ticket < ledger'.next_ticket
                    /\ \A i \in 1 .. Len(ledger'.in_flight) :
                          ledger'.in_flight[i].ticket = handle'[h].ticket
                              => ledger'.in_flight[i] = handle'[h]
  BY DEF HandlesMatch, Free
<1>1. handle'[h] = handle[h] /\ ~Free(h)
  BY DEF Free
<1> QED
  BY <1>1, MatchParts

LEMMA RedeliveryMatch ==
    ASSUME LedgerInv, HandlesMatch, LedgerInv', NEW h \in Handles, RecvRedelivery(h)
    PROVE  HandlesMatch'
<1> DEFINE F == ledger.in_flight
           c == ledger.cursor + 1
<1>1. /\ handle' = [handle EXCEPT ![h] = F[c]]
      /\ ledger.cursor < Len(F)
      /\ ledger' = [ledger EXCEPT !.cursor = c]
  BY DEF RecvRedelivery, Deliver, AtCursor, HasRedelivery, Redelivery
<1>2. /\ ledger'.in_flight = F
      /\ ledger'.next_ticket = ledger.next_ticket
      /\ c \in 1 .. Len(F)
      /\ handle \in [Handles -> Entry \cup {NoDelivery}]
  BY <1>1, LedgerParts DEF LedgerInv, TypeOK, LedgerType
<1>3. /\ \A i \in 1 .. Len(F) : F[i].ticket \in Nat
      /\ \A i \in 1 .. Len(F) : F[i].ticket < ledger.next_ticket
      /\ \A i, j \in 1 .. Len(F) : i < j => F[i].ticket < F[j].ticket
  BY LedgerParts DEF LedgerInv, TypeOK, TicketsIncrease
<1> HIDE DEF F, c
<1>4. \A i \in 1 .. Len(F) : F[i].ticket = F[c].ticket => i = c
  BY <1>2, <1>3
<1> SUFFICES ASSUME NEW g \in Handles, handle'[g] # NoDelivery
             PROVE  /\ handle'[g].ticket < ledger.next_ticket
                    /\ \A i \in 1 .. Len(F) :
                          F[i].ticket = handle'[g].ticket => F[i] = handle'[g]
  BY <1>2 DEF HandlesMatch, Free
<1>5. CASE g = h
  BY <1>1, <1>2, <1>3, <1>4, <1>5
<1>6. CASE g # h
  BY <1>1, <1>2, <1>6, MatchParts DEF Free, F
<1> QED
  BY <1>5, <1>6

LEMMA RecordMatch ==
    ASSUME LedgerInv, HandlesMatch, LedgerInv', NEW h \in Handles, RecvRecord(h)
    PROVE  HandlesMatch'
<1> DEFINE F == ledger.in_flight
           G == ledger'.in_flight
           c == ledger'.cursor
           e == [ticket |-> ledger.next_ticket, item |-> popped]
<1>1. TypeOK /\ TypeOK' /\ TicketsIncrease'
  BY DEF LedgerInv
<1>2. /\ G = Append(F, e)
      /\ Len(G) = Len(F) + 1
      /\ ledger'.next_ticket = ledger.next_ticket + 1
      /\ RecvEntry(ledger, popped) = G[c]
      /\ c = ledger.cursor + 1
  BY <1>1, RecvResult DEF RecvRecord, TypeOK
<1>3. handle' = [handle EXCEPT ![h] = G[c]]
  BY <1>2 DEF RecvRecord, Deliver
<1>4. /\ F \in Seq(Entry)
      /\ ledger.next_ticket \in Nat
      /\ handle \in [Handles -> Entry \cup {NoDelivery}]
  BY <1>1, LedgerParts DEF TypeOK
<1>5. e \in Entry
  BY <1>1, <1>4 DEF TypeOK, Entry
<1>6. c \in 1 .. Len(G)
  <2>1. ledger.cursor \in 0 .. Len(F) /\ Len(F) \in Nat
    BY <1>1, LedgerParts DEF TypeOK
  <2> QED
    BY <1>2, <2>1
<1>7. e.ticket = ledger.next_ticket
  OBVIOUS
<1> HIDE DEF e
<1>8. /\ \A i \in 1 .. Len(F) : G[i] = F[i]
      /\ G[Len(F) + 1] = e
      /\ Len(F) \in Nat
      /\ G \in Seq(Entry)
  BY <1>2, <1>4, <1>5
<1>9. /\ \A i \in 1 .. Len(G) : G[i].ticket < ledger'.next_ticket
      /\ \A i, j \in 1 .. Len(G) : i < j => G[i].ticket < G[j].ticket
      /\ \A i \in 1 .. Len(G) : G[i].ticket \in Nat
  <2>1. ledger' \in LedgerType
    BY <1>1 DEF TypeOK
  <2> QED
    BY <1>1, <2>1, LedgerParts DEF TicketsIncrease
<1> HIDE DEF F, G, c
<1>10. \A i \in 1 .. Len(G) : G[i].ticket = G[c].ticket => i = c
  <2>1. SUFFICES ASSUME NEW i \in 1 .. Len(G), G[i].ticket = G[c].ticket, i # c
                 PROVE  FALSE
    OBVIOUS
  <2>2. i < c \/ c < i
    BY <1>2, <1>8, <1>6, <2>1
  <2>3. G[i].ticket < G[c].ticket \/ G[c].ticket < G[i].ticket
    BY <1>9, <1>6, <2>2
  <2> QED
    BY <1>9, <1>6, <2>1, <2>3
<1> SUFFICES ASSUME NEW g \in Handles, handle'[g] # NoDelivery
             PROVE  /\ handle'[g].ticket < ledger'.next_ticket
                    /\ \A i \in 1 .. Len(G) :
                          G[i].ticket = handle'[g].ticket => G[i] = handle'[g]
  BY DEF HandlesMatch, Free, G
<1>11. CASE g = h
  BY <1>3, <1>4, <1>9, <1>10, <1>11, <1>6
<1>12. CASE g # h
  <2>1. handle'[g] = handle[g] /\ ~Free(g)
    BY <1>3, <1>4, <1>12 DEF Free
  <2>2. /\ handle[g].ticket \in Nat
        /\ handle[g].ticket < ledger.next_ticket
        /\ \A i \in 1 .. Len(F) : F[i].ticket = handle[g].ticket => F[i] = handle[g]
    BY <2>1, MatchParts DEF F
  <2>3. \A i \in 1 .. Len(G) : i \in 1 .. Len(F) \/ G[i].ticket = ledger.next_ticket
    BY <1>2, <1>7, <1>8
  <2> QED
    BY <1>2, <1>4, <1>8, <2>1, <2>2, <2>3
<1> QED
  BY <1>11, <1>12

LEMMA AckMatch ==
    ASSUME LedgerInv, HandlesMatch, LedgerInv', NEW h \in Handles, AckHandle(h)
    PROVE  HandlesMatch'
<1>1. \A g \in Handles : handle'[g] \in {handle[g], NoDelivery}
  BY DEF AckHandle, LedgerInv, TypeOK
<1>2. Len(ledger.in_flight) \in Nat
  BY LedgerParts DEF LedgerInv, TypeOK
<1>3. /\ ledger'.next_ticket = ledger.next_ticket
      /\ \A i \in 1 .. Len(ledger'.in_flight) :
            \E j \in 1 .. Len(ledger.in_flight) :
               ledger'.in_flight[i] = ledger.in_flight[j]
  <2>1. CASE ledger' = ledger
    BY <2>1
  <2>2. ASSUME NEW k \in 1 .. Len(ledger.in_flight), Settles(h, k)
        PROVE  /\ ledger'.next_ticket = ledger.next_ticket
               /\ \A i \in 1 .. Len(ledger'.in_flight) :
                     \E j \in 1 .. Len(ledger.in_flight) :
                        ledger'.in_flight[i] = ledger.in_flight[j]
    <3>1. \A i \in 1 .. (Len(ledger.in_flight) - 1) :
              i \in 1 .. Len(ledger.in_flight) /\ i + 1 \in 1 .. Len(ledger.in_flight)
      BY <1>2
    <3> QED
      BY <2>2, <3>1 DEF Settles
  <2> QED
    BY <2>1, <2>2, AckBacklog
<1> QED
  BY <1>1, <1>3, MatchKeeps

LEMMA DropMatch ==
    ASSUME LedgerInv, HandlesMatch, LedgerInv', NEW h \in Handles, DropHandle(h)
    PROVE  HandlesMatch'
<1>1. \A g \in Handles : handle'[g] \in {handle[g], NoDelivery}
  BY DEF DropHandle, LedgerInv, TypeOK
<1>2. /\ ledger'.next_ticket = ledger.next_ticket
      /\ ledger'.in_flight = ledger.in_flight
  BY ReleaseResult DEF DropHandle, LedgerInv
<1> QED
  BY <1>1, <1>2, MatchKeeps

LEMMA InitLogInv == Init => LogInv
<1> SUFFICES ASSUME Init PROVE LogInv
  OBVIOUS
<1>1. LedgerInv
  BY InitLedgerInv
<1>2. HandlesMatch
  BY DEF Init, HandlesMatch, Free
<1>3. published = 0 /\ Len(Backlog) = 0
  <2>1. BacklogIndices
    BY <1>1, BacklogParts DEF LedgerInv
  <2>2. Len(ledger.in_flight) = 0 /\ Len(InHand) = 0 /\ Len(queue) = 0
    BY DEF Init, EmptyLedger, InHand
  <2> QED
    BY <2>1, <2>2 DEF BacklogIndices, Init
<1>4. Numbered /\ InOrder /\ NothingLost
  BY <1>3 DEF Numbered, InOrder, NothingLost
<1> QED
  BY <1>1, <1>2, <1>4 DEF LogInv

LEMMA NextLogInv == LogInv /\ [Next]_vars => LogInv'
<1> SUFFICES ASSUME LogInv, [Next]_vars PROVE LogInv'
  OBVIOUS
<1>1. LedgerInv /\ HandlesMatch /\ LogFacts
  BY DEF LogInv, LogFacts
<1>2. LedgerInv'
  BY <1>1, NextLedgerInv
<1>3. SUFFICES HandlesMatch' /\ LogFacts'
  BY <1>2, <1>3 DEF LogInv, LogFacts
<1>4. CASE Publish
  <2>1. HandlesMatch'
    BY <1>1, <1>4 DEF Publish, HandlesMatch, Free
  <2>2. LogFacts'
    BY <1>1, <1>2, <1>4, PublishBacklog, GrowsKeeps DEF Publish
  <2> QED
    BY <2>1, <2>2
<1>5. CASE RecvAwait \/ RecvCancel \/ UNCHANGED vars
  <2>1. ledger' = ledger /\ handle' = handle /\ queue' = queue /\ InHand' = InHand
    BY <1>5 DEF RecvAwait, RecvCancel, vars, InHand
  <2>2. Stays /\ published' = published /\ processed' = processed
    BY <1>1, <1>5, <2>1, QuietBacklog DEF RecvAwait, RecvCancel, vars
  <2>3. HandlesMatch'
    BY <1>1, <2>1 DEF HandlesMatch, Free
  <2> QED
    BY <1>1, <2>2, <2>3, StaysKeeps
<1>6. CASE RecvPop
  <2>1. HandlesMatch'
    BY <1>1, <1>6 DEF RecvPop, HandlesMatch, Free
  <2>2. Stays
    BY <1>1, <1>2, <1>6, PopBacklog
  <2> QED
    BY <1>1, <1>6, <2>1, <2>2, StaysKeeps DEF RecvPop
<1>7. ASSUME NEW h \in Handles, RecvRedelivery(h)
      PROVE  HandlesMatch' /\ LogFacts'
  <2>1. HandlesMatch'
    BY <1>1, <1>2, <1>7, RedeliveryMatch
  <2>2. ledger'.in_flight = ledger.in_flight
    BY <1>1, <1>7 DEF RecvRedelivery, Redelivery, LedgerInv, TypeOK, LedgerType
  <2>3. Stays
    BY <1>1, <1>7, <2>2, QuietBacklog DEF RecvRedelivery, InHand
  <2> QED
    BY <1>1, <1>7, <2>1, <2>3, StaysKeeps DEF RecvRedelivery
<1>8. ASSUME NEW h \in Handles, RecvRecord(h)
      PROVE  HandlesMatch' /\ LogFacts'
  <2>1. HandlesMatch'
    BY <1>1, <1>2, <1>8, RecordMatch
  <2>2. Stays
    BY <1>1, <1>2, <1>8, RecordBacklog
  <2> QED
    BY <1>1, <1>8, <2>1, <2>2, StaysKeeps DEF RecvRecord
<1>9. ASSUME NEW h \in Handles, AckHandle(h)
      PROVE  HandlesMatch' /\ LogFacts'
  <2>1. HandlesMatch'
    BY <1>1, <1>2, <1>9, AckMatch
  <2>2. /\ published' = published
        /\ processed' = processed \cup {handle[h].item.id}
    BY <1>9 DEF AckHandle
  <2>3. CASE Stays
    BY <1>1, <2>1, <2>2, <2>3, StaysKeeps
  <2>4. ASSUME NEW k \in 1 .. Len(ledger.in_flight), Settles(h, k)
        PROVE  LogFacts'
    <3>1. Loses(k) /\ processed' = processed \cup {Backlog[k].id}
      BY <2>2, <2>4 DEF Settles
    <3> QED
      BY <1>1, <2>2, <3>1, LosesKeeps
  <2> QED
    BY <1>1, <1>2, <1>9, <2>1, <2>3, <2>4, AckBacklog
<1>10. ASSUME NEW h \in Handles, DropHandle(h)
       PROVE  HandlesMatch' /\ LogFacts'
  <2>1. HandlesMatch'
    BY <1>1, <1>2, <1>10, DropMatch
  <2>2. ledger'.in_flight = ledger.in_flight
    BY <1>1, <1>10, ReleaseResult DEF DropHandle, LedgerInv
  <2>3. Stays
    BY <1>1, <1>10, <2>2, QuietBacklog DEF DropHandle, InHand
  <2> QED
    BY <1>1, <1>10, <2>1, <2>3, StaysKeeps DEF DropHandle
<1> QED
  BY <1>4, <1>5, <1>6, <1>7, <1>8, <1>9, <1>10 DEF Next

\* Nothing published is lost between the queue, recv's hand, the ledger and
\* the handles, whatever the consumer holds, drops or acknowledges out of order.
THEOREM ChannelLosesNothing == Spec => []NothingLost
<1>1. LogInv => NothingLost
  BY DEF LogInv
<1> QED
  BY InitLogInv, NextLogInv, <1>1, PTL DEF Spec

\* What is unacknowledged stays in the order published, through redelivery and
\* acknowledgement out of order.
THEOREM ChannelKeepsOrder == Spec => []InOrder
<1>1. LogInv => InOrder
  BY DEF LogInv
<1> QED
  BY InitLogInv, NextLogInv, <1>1, PTL DEF Spec

-----------------------------------------------------------------------------
(* A sink lane: one delivery at a time.                                    *)

LaneFacts == HeldIsFirst /\ Contiguous /\ ConfirmedIsCommitted

\* With one handle and nothing held, every entry is due for redelivery; there
\* is never a second entry in front of the cursor.
LEMMA LaneCursor ==
    ASSUME OneAtATime, LedgerInv
    PROVE  /\ ledger.cursor \in {0, 1}
           /\ \A h \in Handles : Free(h) => ledger.cursor = 0
<1>1. /\ ledger.cursor \in 0 .. Len(ledger.in_flight)
      /\ Len(ledger.in_flight) \in Nat
      /\ \A i \in 1 .. Len(ledger.in_flight) :
            ledger.in_flight[i] \in Entry /\ ledger.in_flight[i].ticket \in Nat
  BY LedgerParts DEF LedgerInv, TypeOK
<1>2. ASSUME NEW i \in 1 .. ledger.cursor, NEW h \in Handles
      PROVE  handle[h] = ledger.in_flight[i]
  BY <1>2 DEF LedgerInv, NoOrphan, OneAtATime
<1>3. ledger.cursor =< 1
  <2> SUFFICES ASSUME ledger.cursor >= 2 PROVE FALSE
    BY <1>1
  <2>1. 1 \in 1 .. ledger.cursor /\ 2 \in 1 .. ledger.cursor
    BY <1>1
  <2>2. ledger.in_flight[1] = ledger.in_flight[2]
    BY <1>2, <2>1 DEF LedgerInv, NoOrphan
  <2>3. /\ 1 \in 1 .. Len(ledger.in_flight)
        /\ 2 \in 1 .. Len(ledger.in_flight)
    BY <1>1
  <2>4. ledger.in_flight[1].ticket < ledger.in_flight[2].ticket
    BY <2>3 DEF LedgerInv, TicketsIncrease
  <2> QED
    BY <1>1, <2>2, <2>3, <2>4
<1>4. ASSUME NEW h \in Handles, Free(h)
      PROVE  ledger.cursor = 0
  <2> SUFFICES ASSUME ledger.cursor >= 1 PROVE FALSE
    BY <1>1
  <2>1. 1 \in 1 .. ledger.cursor /\ 1 \in 1 .. Len(ledger.in_flight)
    BY <1>1
  <2>2. NoDelivery \in Entry
    BY <1>1, <1>2, <1>4, <2>1 DEF Free
  <2> QED
    BY <2>2, NoDeliveryAssumption
<1> QED
  BY <1>1, <1>3, <1>4

LEMMA LaneTypes ==
    ASSUME LedgerInv
    PROVE  /\ published \in Nat
           /\ Len(Backlog) \in Nat
           /\ ledger.acked \in Nat
           /\ Committed \in Int
<1> QED
  BY BacklogParts, LedgerParts DEF LedgerInv, TypeOK, BacklogIndices, Committed

\* What a lane's step does: it appends, commits the first unacknowledged item,
\* or changes nothing a reader of the log can see.
LaneAppends ==
    /\ published < MaxItems
    /\ published' = published + 1
    /\ Committed' = Committed
    /\ ledger'.acked = ledger.acked

LaneCommits ==
    /\ Committed < published
    /\ published' = published
    /\ Committed' = Committed + 1
    /\ ledger'.acked \in {ledger.acked, Committed'}

LaneStutters ==
    /\ published' = published
    /\ Committed' = Committed
    /\ ledger'.acked = ledger.acked

\* A lane step keeps what is unacknowledged contiguous with the committed part.
LEMMA LaneStays ==
    ASSUME LaneFacts, LedgerInv, Stays, published' = published, ledger'.acked = ledger.acked
    PROVE  LaneStutters /\ Contiguous' /\ ConfirmedIsCommitted'
<1>1. Committed' = Committed
  BY DEF Stays, Committed
<1> QED
  BY <1>1 DEF LaneFacts, LaneStutters, Contiguous, ConfirmedIsCommitted, Stays

LEMMA LaneGrows ==
    ASSUME LaneFacts, LedgerInv, Publish, NEW position,
           Grows([id |-> published + 1, position |-> position])
    PROVE  LaneAppends /\ Contiguous' /\ ConfirmedIsCommitted'
<1> DEFINE n == Len(Backlog)
           x == [id |-> published + 1, position |-> position]
<1>1. /\ published \in Nat /\ n \in Nat /\ Committed \in Int
      /\ published < MaxItems
      /\ published' = published + 1
      /\ ledger' = ledger
  BY LaneTypes DEF Publish
<1>2. /\ Len(Backlog') = n + 1
      /\ \A i \in 1 .. n : Backlog'[i] = Backlog[i]
      /\ Backlog'[n + 1] = x
      /\ x.id = published + 1
  BY DEF Grows
<1> HIDE DEF x
<1>3. Committed = published - n /\ Committed' = published' - Len(Backlog')
  BY DEF Committed
<1>4. Committed' = Committed
  BY <1>1, <1>2, <1>3
<1> HIDE DEF n
<1>5. \A i \in 1 .. n : Backlog[i].id = Committed + i
  BY DEF LaneFacts, Contiguous, n
<1>6. ASSUME NEW i \in 1 .. (n + 1)
      PROVE  Backlog'[i].id = Committed + i
  <2>1. CASE i \in 1 .. n
    BY <1>2, <1>5, <2>1
  <2>2. CASE i = n + 1
    BY <1>1, <1>2, <1>3, <2>2
  <2> QED
    BY <1>1, <2>1, <2>2
<1>7. Contiguous'
  BY <1>2, <1>4, <1>6 DEF LaneFacts, Contiguous
<1> QED
  BY <1>1, <1>4, <1>7 DEF LaneFacts, LaneAppends, ConfirmedIsCommitted

\* The handle of a lane settles the first unacknowledged item.
LEMMA LaneSettles ==
    ASSUME LaneFacts, LedgerInv, Numbered, NEW h \in Handles, AckHandle(h),
           NEW k \in 1 .. Len(ledger.in_flight), Settles(h, k)
    PROVE  LaneCommits /\ Contiguous' /\ ConfirmedIsCommitted'
<1> DEFINE n == Len(Backlog)
<1>1. /\ published \in Nat /\ n \in Nat /\ Committed \in Int /\ ledger.acked \in Nat
      /\ published' = published
      /\ ~Free(h)
  BY LaneTypes DEF AckHandle
<1>2. k = 1
  <2>1. Len(ledger.in_flight) \in Nat
    BY LedgerParts DEF LedgerInv, TypeOK
  <2>2. 1 \in 1 .. Len(ledger.in_flight)
    BY <2>1
  <2>3. ledger.in_flight[k] = ledger.in_flight[1]
    BY <1>1 DEF Settles, LaneFacts, HeldIsFirst
  <2>4. k # 1 => ledger.in_flight[1].ticket < ledger.in_flight[k].ticket
    BY <2>1, <2>2 DEF LedgerInv, TicketsIncrease
  <2> QED
    BY <2>2, <2>3, <2>4, LedgerParts DEF LedgerInv, TypeOK
<1>3. /\ 1 \in 1 .. n
      /\ Len(Backlog') = n - 1
      /\ \A i \in 1 .. (n - 1) : Backlog'[i] = Backlog[i + 1]
      /\ Backlog[1] = handle[h].item
      /\ ledger'.acked = Larger(ledger.acked, handle[h].item.position)
  BY <1>1, <1>2 DEF Settles, Loses
<1>4. Committed = published - n /\ Committed' = published' - Len(Backlog')
  BY DEF Committed
<1> HIDE DEF n
<1>5. Committed' = Committed + 1 /\ Committed < published
  BY <1>1, <1>3, <1>4
<1>6. /\ Committed >= 0
      /\ ledger.acked =< Committed
      /\ \A i \in 1 .. n : Backlog[i].id = Committed + i
  BY DEF LaneFacts, Contiguous, ConfirmedIsCommitted, n
<1>7. ledger'.acked \in {ledger.acked, Committed'}
  <2>1. handle[h].item.position \in {NoPosition, Committed + 1}
    <3>1. Backlog[1].id = Committed + 1
      BY <1>3, <1>6
    <3>2. Backlog[1].position \in {NoPosition, Backlog[1].id}
      BY <1>3 DEF Numbered, n
    <3> QED
      BY <1>3, <3>1, <3>2
  <2>2. CASE handle[h].item.position = NoPosition
    BY <1>1, <1>3, <2>2 DEF Larger, NoPosition
  <2>3. CASE handle[h].item.position = Committed + 1
    BY <1>1, <1>3, <1>5, <1>6, <2>3 DEF Larger
  <2> QED
    BY <2>1, <2>2, <2>3
<1>8. Contiguous'
  <2>1. ASSUME NEW i \in 1 .. (n - 1)
        PROVE  Backlog'[i].id = (Committed + 1) + i
    <3>1. i + 1 \in 1 .. n
      BY <1>1
    <3>2. Backlog'[i] = Backlog[i + 1]
      BY <1>3
    <3>3. Backlog[i + 1].id = Committed + (i + 1)
      BY <1>6, <3>1
    <3>4. Committed + (i + 1) = (Committed + 1) + i
      BY <1>1
    <3> QED
      BY <3>2, <3>3, <3>4
  <2>2. Committed' >= 0
    BY <1>1, <1>5, <1>6
  <2> QED
    BY <1>3, <1>5, <2>1, <2>2 DEF Contiguous
<1>9. ConfirmedIsCommitted'
  BY <1>1, <1>5, <1>6, <1>7 DEF ConfirmedIsCommitted
<1> QED
  BY <1>1, <1>5, <1>7, <1>8, <1>9 DEF LaneCommits

\* The one handle takes the first entry, and gives it up before another is
\* handed out.
LEMMA HeldKeeps ==
    ASSUME OneAtATime, LedgerInv, HeldIsFirst, LedgerInv', [Next]_vars
    PROVE  HeldIsFirst'
<1>1. TypeOK
  BY DEF LedgerInv
<1>2. CASE Publish \/ RecvAwait \/ RecvPop \/ RecvCancel \/ UNCHANGED vars
  <2>1. ledger' = ledger /\ handle' = handle
    BY <1>2 DEF Publish, RecvAwait, RecvPop, RecvCancel, vars
  <2> QED
    BY <2>1 DEF HeldIsFirst, Free
<1>3. ASSUME NEW h \in Handles, RecvRedelivery(h)
      PROVE  HeldIsFirst'
  <2>1. ledger.cursor = 0
    BY <1>3, LaneCursor DEF RecvRedelivery, Deliver
  <2>2. handle'[h] = ledger.in_flight[1]
    BY <1>1, <1>3, <2>1 DEF RecvRedelivery, Deliver, AtCursor, TypeOK
  <2>3. ledger'.cursor = 1 /\ ledger'.in_flight = ledger.in_flight
    BY <1>1, <1>3, <2>1 DEF RecvRedelivery, Redelivery, TypeOK, LedgerType
  <2> QED
    BY <1>3, <2>2, <2>3 DEF HeldIsFirst, OneAtATime
<1>4. ASSUME NEW h \in Handles, RecvRecord(h)
      PROVE  HeldIsFirst'
  <2>1. ledger.cursor = 0
    BY <1>4, LaneCursor DEF RecvRecord, Deliver
  <2>2. /\ ledger'.cursor = 1
        /\ RecvEntry(ledger, popped) = ledger'.in_flight[1]
    <3>1. popped \in Item /\ ledger' = RecvLedger(ledger, popped)
      BY <1>1, <1>4 DEF RecvRecord, TypeOK
    <3>2. /\ ledger'.cursor = ledger.cursor + 1
          /\ RecvEntry(ledger, popped) = ledger'.in_flight[ledger'.cursor]
      BY <1>1, <3>1, RecvResult
    <3> QED
      BY <2>1, <3>2
  <2>3. handle'[h] = ledger'.in_flight[1]
    BY <1>1, <1>4, <2>2 DEF RecvRecord, Deliver, TypeOK
  <2> QED
    BY <1>4, <2>2, <2>3 DEF HeldIsFirst, OneAtATime
<1>5. ASSUME NEW h \in Handles, AckHandle(h) \/ DropHandle(h)
      PROVE  HeldIsFirst'
  <2>1. handle'[h] = NoDelivery
    BY <1>1, <1>5 DEF AckHandle, DropHandle, TypeOK
  <2> QED
    BY <1>5, <2>1 DEF HeldIsFirst, Free, OneAtATime
<1> QED
  BY <1>2, <1>3, <1>4, <1>5 DEF Next

\* Every step of a lane is one of the log's, and keeps the facts above.
LEMMA LaneStep ==
    ASSUME OneAtATime, LogInv, LaneFacts, LogInv', [Next]_vars
    PROVE  LaneFacts' /\ (LaneAppends \/ LaneCommits \/ LaneStutters)
<1>1. LedgerInv /\ LedgerInv' /\ HandlesMatch /\ Numbered
  BY DEF LogInv
<1>2. HeldIsFirst'
  BY <1>1, HeldKeeps DEF LaneFacts
<1>3. SUFFICES /\ Contiguous' /\ ConfirmedIsCommitted'
               /\ LaneAppends \/ LaneCommits \/ LaneStutters
  BY <1>2, <1>3 DEF LaneFacts
<1>4. CASE Publish
  BY <1>1, <1>4, PublishBacklog, LaneGrows
<1>5. CASE RecvAwait \/ RecvCancel \/ UNCHANGED vars
  <2>1. Stays /\ published' = published /\ ledger' = ledger
    BY <1>5, QuietBacklog DEF RecvAwait, RecvCancel, vars, InHand
  <2> QED
    BY <1>1, <2>1, LaneStays
<1>6. CASE RecvPop
  BY <1>1, <1>6, PopBacklog, LaneStays DEF RecvPop
<1>7. ASSUME NEW h \in Handles, RecvRedelivery(h)
      PROVE  LaneStutters /\ Contiguous' /\ ConfirmedIsCommitted'
  <2>1. ledger'.in_flight = ledger.in_flight /\ ledger'.acked = ledger.acked
    BY <1>1, <1>7 DEF RecvRedelivery, Redelivery, LedgerInv, TypeOK, LedgerType
  <2>2. Stays
    BY <1>7, <2>1, QuietBacklog DEF RecvRedelivery, InHand
  <2> QED
    BY <1>1, <1>7, <2>1, <2>2, LaneStays DEF RecvRedelivery
<1>8. ASSUME NEW h \in Handles, RecvRecord(h)
      PROVE  LaneStutters /\ Contiguous' /\ ConfirmedIsCommitted'
  <2>1. Stays
    BY <1>1, <1>8, RecordBacklog
  <2>2. ledger'.acked = ledger.acked
    BY <1>1, <1>8, RecvResult DEF RecvRecord, LedgerInv, TypeOK
  <2> QED
    BY <1>1, <1>8, <2>1, <2>2, LaneStays DEF RecvRecord
<1>9. ASSUME NEW h \in Handles, AckHandle(h)
      PROVE  /\ Contiguous' /\ ConfirmedIsCommitted'
             /\ LaneCommits \/ LaneStutters
  <2>1. CASE ledger' = ledger /\ Stays
    BY <1>1, <1>9, <2>1, LaneStays DEF AckHandle
  <2>2. ASSUME NEW k \in 1 .. Len(ledger.in_flight), Settles(h, k)
        PROVE  LaneCommits /\ Contiguous' /\ ConfirmedIsCommitted'
    BY <1>1, <1>9, <2>2, LaneSettles
  <2> QED
    BY <1>1, <1>9, <2>1, <2>2, AckBacklog
<1>10. ASSUME NEW h \in Handles, DropHandle(h)
       PROVE  LaneStutters /\ Contiguous' /\ ConfirmedIsCommitted'
  <2>1. ledger'.in_flight = ledger.in_flight /\ ledger'.acked = ledger.acked
    BY <1>1, <1>10, ReleaseResult DEF DropHandle, LedgerInv
  <2>2. Stays
    BY <1>10, <2>1, QuietBacklog DEF DropHandle, InHand
  <2> QED
    BY <1>1, <1>10, <2>1, <2>2, LaneStays DEF DropHandle
<1> QED
  BY <1>4, <1>5, <1>6, <1>7, <1>8, <1>9, <1>10 DEF Next

LEMMA InitLaneFacts == Init => LaneFacts /\ published = 0 /\ Committed = 0 /\ ledger.acked = 0
<1> SUFFICES ASSUME Init
             PROVE  LaneFacts /\ published = 0 /\ Committed = 0 /\ ledger.acked = 0
  OBVIOUS
<1>1. published = 0 /\ Len(Backlog) = 0
  <2>1. BacklogIndices
    BY InitLedgerInv, BacklogParts DEF LedgerInv
  <2>2. Len(ledger.in_flight) = 0 /\ Len(InHand) = 0 /\ Len(queue) = 0
    BY DEF Init, EmptyLedger, InHand
  <2> QED
    BY <2>1, <2>2 DEF BacklogIndices, Init
<1>2. ledger.acked = 0 /\ ledger.cursor = 0
  BY DEF Init, EmptyLedger, NoPosition
<1>3. Committed = 0
  BY <1>1 DEF Committed
<1>4. HeldIsFirst
  BY DEF HeldIsFirst, Init, Free
<1>5. Contiguous /\ ConfirmedIsCommitted
  BY <1>1, <1>2, <1>3 DEF Contiguous, ConfirmedIsCommitted
<1> QED
  BY <1>1, <1>2, <1>3, <1>4, <1>5 DEF LaneFacts

LEMMA InitLaneInv == Init => LaneInv
BY InitLogInv, InitLaneFacts DEF LaneInv, LaneFacts

LEMMA NextLaneInv == LaneInv /\ [Next]_vars => LaneInv'
<1> SUFFICES ASSUME LaneInv, [Next]_vars PROVE LaneInv'
  OBVIOUS
<1>1. LogInv /\ LogInv'
  BY NextLogInv DEF LaneInv
<1>2. OneAtATime => LaneFacts
  BY DEF LaneInv, LaneFacts
<1>3. OneAtATime => LaneFacts'
  BY <1>1, <1>2, LaneStep
<1>4. OneAtATime' = OneAtATime
  BY DEF OneAtATime
<1> QED
  BY <1>1, <1>3, <1>4 DEF LaneInv, LaneFacts

\* For a consumer that holds one delivery at a time nothing unacknowledged
\* lies at or below the acknowledged position.
THEOREM LaneAckIsCumulative == Spec => []AckedIsCumulative
<1>1. LaneInv => AckedIsCumulative
  <2> SUFFICES ASSUME LaneInv, OneAtATime, NEW i \in 1 .. Len(Backlog),
                      Backlog[i].position # NoPosition
               PROVE  Backlog[i].position > ledger.acked
    BY DEF AckedIsCumulative
  <2>1. /\ LedgerInv /\ Numbered
        /\ Contiguous /\ ConfirmedIsCommitted
    BY DEF LaneInv, LogInv
  <2>2. Backlog[i].position = Committed + i
    BY <2>1 DEF Numbered, Contiguous
  <2> QED
    BY <2>1, <2>2, LaneTypes DEF ConfirmedIsCommitted
<1> QED
  BY InitLaneInv, NextLaneInv, <1>1, PTL DEF Spec

\* A sink lane implements the log with one committed offset: every step of the
\* channel appends to the log, commits its next item, or is invisible.
THEOREM LaneImplementsLog ==
    ASSUME OneAtATime
    PROVE  Spec => LaneIsLog
<1>1. Init => Lane!Init
  BY InitLaneFacts DEF Lane!Init, Committed
<1>2. LaneInv /\ LaneInv' /\ [Next]_vars => [Lane!Next]_Lane!vars
  <2> SUFFICES ASSUME LaneInv, LaneInv', [Next]_vars
               PROVE  [Lane!Next]_Lane!vars
    OBVIOUS
  <2>1. LaneAppends \/ LaneCommits \/ LaneStutters
    BY LaneStep DEF LaneInv, LaneFacts
  <2>2. CASE LaneAppends
    BY <2>2 DEF LaneAppends, Lane!Next, Lane!Append1, Committed
  <2>3. CASE LaneCommits
    BY <2>3 DEF LaneCommits, Lane!Next, Lane!Commit, Committed
  <2>4. CASE LaneStutters
    BY <2>4 DEF LaneStutters, Lane!vars, Committed
  <2> QED
    BY <2>1, <2>2, <2>3, <2>4
<1> QED
  BY InitLaneInv, NextLaneInv, <1>1, <1>2, PTL DEF Spec, LaneIsLog, Lane!Spec
=============================================================================
