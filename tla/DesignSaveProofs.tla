-------------------------- MODULE DesignSaveProofs --------------------------
(* Proofs about the designer's document and its saving (module DesignSave). *)
EXTENDS DesignSave, Greatest

-----------------------------------------------------------------------------
(* Recursion along a sequence. A recursive function is the CHOOSE of its    *)
(* equation: that one exists has to be shown before it can be used.         *)

(* f starts with b and takes its i-th step by the function G[i].            *)
Follows(f, S, b, n, G) ==
    f \in [0 .. n -> S] /\ f[0] = b /\ \A i \in 1 .. n : f[i] = G[i][f[i - 1]]
StaysIn(S, n, G) == \A i \in 1 .. n : \A x \in S : G[i][x] \in S

LEMMA RecursionExists ==
    ASSUME NEW S, NEW b \in S, NEW n \in Nat, NEW G, StaysIn(S, n, G)
    PROVE  \E f : Follows(f, S, b, n, G)
<1> DEFINE P == {m \in 0 .. n : \E f : Follows(f, S, b, m, G)}
<1>1. 0 \in P
  <2>1. Follows([i \in 0 .. 0 |-> b], S, b, 0, G)
    BY DEF Follows
  <2>2. 0 \in 0 .. n
    OBVIOUS
  <2>3. QED
    BY <2>1, <2>2
<1>2. ASSUME NEW m \in 1 .. n, m - 1 \in P
      PROVE  m \in P
  <2>1. PICK f : Follows(f, S, b, m - 1, G)
    BY <1>2
  <2> DEFINE g == [i \in 0 .. m |-> IF i = m THEN G[m][f[m - 1]] ELSE f[i]]
  <2>2. g \in [0 .. m -> S]
    BY <2>1 DEF Follows, StaysIn
  <2>3. g[0] = b
    BY <2>1 DEF Follows
  <2>4. \A i \in 1 .. m : g[i] = G[i][g[i - 1]]
    BY <2>1 DEF Follows
  <2>5. Follows(g, S, b, m, G)
    BY <2>2, <2>3, <2>4 DEF Follows
  <2>6. m \in 0 .. n
    OBVIOUS
  <2>7. QED
    BY <2>5, <2>6
<1>3. n \in 0 .. n
  OBVIOUS
<1>4. n \in P
  <2> HIDE DEF P
  <2>1. QED
    BY <1>1, <1>2, <1>3, InductionUpTo
<1>5. QED
  BY <1>4

(* Two sequences in a row.                                                   *)
LEMMA ConcatParts ==
    ASSUME NEW S, NEW s \in Seq(S), NEW t \in Seq(S)
    PROVE  /\ s \o t \in Seq(S)
           /\ Len(s \o t) = Len(s) + Len(t)
           /\ \A i \in 1 .. Len(s) : (s \o t)[i] = s[i]
           /\ \A i \in 1 .. Len(t) : (s \o t)[Len(s) + i] = t[i]
OBVIOUS

(* The elements of two sequences in a row.                                  *)
LEMMA ConcatSet ==
    ASSUME NEW T, NEW s \in Seq(T), NEW t \in Seq(T)
    PROVE  ToSet(s \o t) = ToSet(s) \cup ToSet(t)
<1>1. /\ Len(s \o t) = Len(s) + Len(t)
      /\ \A i \in 1 .. Len(s) : (s \o t)[i] = s[i]
      /\ \A i \in 1 .. Len(t) : (s \o t)[Len(s) + i] = t[i]
  BY ConcatParts
<1>2. s \o t \in Seq(T)
  BY ConcatParts
<1>3. \A x \in ToSet(s \o t) : x \in ToSet(s) \cup ToSet(t)
  <2>1. TAKE x \in ToSet(s \o t)
  <2>2. PICK i \in 1 .. Len(s \o t) : x = (s \o t)[i]
    BY <1>2 DEF ToSet
  <2>3. i \in 1 .. Len(s) \/ i - Len(s) \in 1 .. Len(t)
    BY <1>1, <2>2
  <2>4. QED
    BY <1>1, <2>2, <2>3 DEF ToSet
<1>4. ASSUME NEW x \in ToSet(s) \cup ToSet(t)
      PROVE  x \in ToSet(s \o t)
  <2>1. CASE x \in ToSet(s)
    <3>1. PICK i \in 1 .. Len(s) : x = s[i]
      BY <2>1 DEF ToSet
    <3>2. i \in 1 .. Len(s \o t) /\ x = (s \o t)[i]
      BY <1>1, <3>1
    <3>3. QED
      BY <1>2, <3>2 DEF ToSet
  <2>2. CASE x \in ToSet(t)
    <3>1. PICK i \in 1 .. Len(t) : x = t[i]
      BY <2>2 DEF ToSet
    <3>2. Len(s) + i \in 1 .. Len(s \o t) /\ x = (s \o t)[Len(s) + i]
      BY <1>1, <3>1
    <3>3. QED
      BY <1>2, <3>2 DEF ToSet
  <2>3. QED
    BY <2>1, <2>2
<1>5. QED
  BY <1>3, <1>4

(* What FlattenSeq makes of sequences over T: a sequence of their elements. *)
LEMMA FlattenParts ==
    ASSUME NEW T, NEW s \in Seq(Seq(T))
    PROVE  /\ FlattenSeq(s) \in Seq(T)
           /\ ToSet(FlattenSeq(s)) = UNION {ToSet(s[i]) : i \in DOMAIN s}
<1> DEFINE n == Len(s)
<1>1. CASE n = 0
  BY <1>1 DEF FlattenSeq, ToSet
<1>2. CASE n # 0
  <2> DEFINE G == [i \in 1 .. n |-> [t \in Seq(T) |-> t \o s[i]]]
             R(f) == f = [i \in 1 .. n |-> IF i = 1 THEN s[i] ELSE f[i - 1] \o s[i]]
  <2>1. n \in Nat /\ 1 \in 1 .. n /\ n \in 1 .. n /\ \A i \in 1 .. n : s[i] \in Seq(T)
    BY <1>2
  <2>2. \A i \in 1 .. n : \A x \in Seq(T) : G[i][x] = x \o s[i] /\ G[i][x] \in Seq(T)
    BY <2>1
  <2>3. PICK f : Follows(f, Seq(T), <<>>, n, G)
    <3>1. <<>> \in Seq(T) /\ n \in Nat /\ StaysIn(Seq(T), n, G)
      BY <2>1, <2>2 DEF StaysIn
    <3> HIDE DEF G, n
    <3>2. QED
      BY <3>1, RecursionExists
  <2>4. ASSUME NEW i \in 1 .. n
        PROVE  f[i] = f[i - 1] \o s[i]
    <3>1. f[i - 1] \in Seq(T)
      <4>1. i - 1 \in 0 .. n
        BY <2>1
      <4> HIDE DEF n
      <4>2. QED
        BY <2>3, <4>1 DEF Follows
    <3>2. G[i][f[i - 1]] = f[i - 1] \o s[i]
      BY <3>1
    <3>3. QED
      BY <2>3, <3>2 DEF Follows
  <2> DEFINE g == [i \in 1 .. n |-> f[i]]
  <2>5. R(g)
    <3>1. \A i \in 1 .. n : g[i] = IF i = 1 THEN s[i] ELSE g[i - 1] \o s[i]
      <4>1. f[1] = s[1]
        <5>1. f[1] = f[0] \o s[1] /\ f[0] = <<>>
          <6>1. 1 - 1 = 0
            OBVIOUS
          <6> HIDE DEF n, G
          <6>2. QED
            BY <2>1, <2>3, <2>4, <6>1 DEF Follows
        <5>2. QED
          BY <2>1, <5>1
      <4>2. ASSUME NEW i \in 1 .. n, i # 1
            PROVE  g[i] = g[i - 1] \o s[i]
        <5>1. i - 1 \in 1 .. n
          BY <2>1, <4>2
        <5>2. QED
          BY <2>4, <5>1
      <4>3. QED
        BY <2>1, <4>1, <4>2
    <3>2. QED
      BY <3>1
  <2> DEFINE h == CHOOSE f_1 : R(f_1)
  <2>6. R(h)
    BY <2>5
  <2>7. FlattenSeq(s) = h[n]
    BY <1>2 DEF FlattenSeq
  <2> HIDE DEF h, G
  <2> DEFINE Good(i) == h[i] \in Seq(T) /\ ToSet(h[i]) = UNION {ToSet(s[j]) : j \in 1 .. i}
             P == {i \in 0 .. n : i = 0 \/ Good(i)}
  <2>8. \A i \in 1 .. n : h[i] = IF i = 1 THEN s[i] ELSE h[i - 1] \o s[i]
    BY <2>6
  <2>9. 0 \in P
    BY <2>1
  <2>10. ASSUME NEW i \in 1 .. n, i - 1 \in P
         PROVE  i \in P
    <3>1. i \in Nat /\ i \in 0 .. n /\ s[i] \in Seq(T)
      BY <2>1
    <3>2. CASE i = 1
      <4>1. h[1] = s[1]
        BY <2>8, <3>2
      <4>2. 1 .. 1 = {1}
        OBVIOUS
      <4>3. Good(1)
        BY <3>1, <3>2, <4>1, <4>2
      <4>4. QED
        BY <3>1, <3>2, <4>3
    <3>3. CASE i # 1
      <4>1. i - 1 # 0 /\ i - 1 \in 1 .. n
        BY <2>1, <3>1, <3>3
      <4>2. Good(i - 1)
        <5> HIDE DEF Good
        <5>1. QED
          BY <2>10, <4>1
      <4>3. h[i] = h[i - 1] \o s[i]
        BY <2>8, <3>3
      <4>4. h[i] \in Seq(T)
        BY <3>1, <4>2, <4>3
      <4>5. ToSet(h[i]) = ToSet(h[i - 1]) \cup ToSet(s[i])
        BY <3>1, <4>2, <4>3, ConcatSet
      <4>6. 1 .. i = (1 .. (i - 1)) \cup {i}
        BY <3>1, <4>1
      <4>7. UNION {ToSet(s[j]) : j \in 1 .. i}
              = (UNION {ToSet(s[j]) : j \in 1 .. (i - 1)}) \cup ToSet(s[i])
        <5> DEFINE Q(j) == ToSet(s[j])
        <5>1. UNION {Q(j) : j \in 1 .. i} = (UNION {Q(j) : j \in 1 .. (i - 1)}) \cup Q(i)
          <6> HIDE DEF Q
          <6>1. QED
            BY <4>6
        <5>2. QED
          BY <5>1
      <4>8. Good(i)
        BY <4>2, <4>4, <4>5, <4>7
      <4>9. QED
        BY <3>1, <4>8
    <3>4. QED
      BY <3>2, <3>3
  <2>11. n \in P
    <3>1. n \in 0 .. n
      BY <2>1
    <3> HIDE DEF P, n
    <3>2. QED
      BY <2>1, <2>9, <2>10, <3>1, InductionUpTo
  <2>12. Good(n)
    <3> HIDE DEF Good
    <3>1. QED
      BY <1>2, <2>11
  <2>13. DOMAIN s = 1 .. n
    OBVIOUS
  <2>14. QED
    BY <2>7, <2>12, <2>13
<1>3. QED
  BY <1>1, <1>2

-----------------------------------------------------------------------------
(* The document: what its helpers return.                                   *)

Tables == UNION {[D -> Schema] : D \in SUBSET Names}
Document == [index : Seq(Row), rest : Nat, schemas : Tables]

(* A schema table is a function from some of the names to schemas.          *)
LEMMA TableForm ==
    ASSUME NEW t
    PROVE  t \in Tables <=> /\ t = [n \in DOMAIN t |-> t[n]]
                            /\ DOMAIN t \subseteq Names
                            /\ \A n \in DOMAIN t : t[n] \in Schema
<1>1. ASSUME t \in Tables
      PROVE  /\ t = [n \in DOMAIN t |-> t[n]]
             /\ DOMAIN t \subseteq Names
             /\ \A n \in DOMAIN t : t[n] \in Schema
  <2>1. PICK D \in SUBSET Names : t \in [D -> Schema]
    BY <1>1 DEF Tables
  <2>2. QED
    BY <2>1
<1>2. ASSUME t = [n \in DOMAIN t |-> t[n]],
             DOMAIN t \subseteq Names,
             \A n \in DOMAIN t : t[n] \in Schema
      PROVE  t \in Tables
  <2>1. t \in [DOMAIN t -> Schema]
    BY <1>2
  <2>2. QED
    BY <1>2, <2>1 DEF Tables
<1>3. QED
  BY <1>1, <1>2

LEMMA PutKeyTable ==
    ASSUME NEW t \in Tables, NEW k \in Names, NEW v \in Schema
    PROVE  /\ PutKey(t, k, v) \in Tables
           /\ DOMAIN PutKey(t, k, v) = DOMAIN t \cup {k}
           /\ PutKey(t, k, v)[k] = v
           /\ \A n \in DOMAIN t : n # k => PutKey(t, k, v)[n] = t[n]
<1> DEFINE u == PutKey(t, k, v)
<1>1. DOMAIN t \subseteq Names /\ \A n \in DOMAIN t : t[n] \in Schema
  BY TableForm
<1>2. /\ u = [n \in DOMAIN u |-> u[n]]
      /\ DOMAIN u = DOMAIN t \cup {k}
      /\ u[k] = v
      /\ \A n \in DOMAIN t : n # k => u[n] = t[n]
  BY DEF PutKey
<1> HIDE DEF u
<1>3. u \in Tables
  BY <1>1, <1>2, TableForm
<1>4. QED
  BY <1>2, <1>3 DEF u

LEMMA DropKeysTable ==
    ASSUME NEW t \in Tables, NEW S
    PROVE  /\ DropKeys(t, S) \in Tables
           /\ DOMAIN DropKeys(t, S) = DOMAIN t \ S
           /\ \A n \in DOMAIN DropKeys(t, S) : DropKeys(t, S)[n] = t[n]
<1> DEFINE u == DropKeys(t, S)
<1>1. DOMAIN t \subseteq Names /\ \A n \in DOMAIN t : t[n] \in Schema
  BY TableForm
<1>2. /\ u = [n \in DOMAIN u |-> u[n]]
      /\ DOMAIN u = DOMAIN t \ S
      /\ \A n \in DOMAIN u : u[n] = t[n]
  BY DEF DropKeys
<1> HIDE DEF u
<1>3. u \in Tables
  BY <1>1, <1>2, TableForm
<1>4. QED
  BY <1>2, <1>3 DEF u

LEMMA DropNothing ==
    ASSUME NEW t \in Tables
    PROVE  DropKeys(t, {}) = t
<1>1. t = [n \in DOMAIN t |-> t[n]] /\ DOMAIN t \ {} = DOMAIN t
  BY TableForm
<1>2. QED
  BY <1>1 DEF DropKeys

(* The new name of a renamed row is the name of a row.                      *)
LEMMA RenameToName ==
    ASSUME NEW old \in Seq(Row), NEW new \in Seq(Row), NEW i \in Positions(old, new)
    PROVE  /\ RenameTo(old, new, old[i].name) \in Names
           /\ \A j \in Positions(old, new) :
                  (\A k \in Positions(old, new) : old[k].name = old[i].name => k = j)
                      => RenameTo(old, new, old[i].name) = new[j].name
<1> DEFINE Of == {j \in Positions(old, new) : old[j].name = old[i].name}
           c == CHOOSE j \in Positions(old, new) :
                    /\ old[j].name = old[i].name
                    /\ \A k \in Positions(old, new) : old[k].name = old[i].name => k <= j
<1>1. Positions(old, new) \subseteq 1 .. Len(new) /\ i \in Of
  BY DEF Positions
<1>2. \E j \in Of : \A k \in Of : k <= j
  <2>1. Of \subseteq Nat /\ Of # {} /\ Len(new) \in Nat
    BY <1>1
  <2>2. Bounded(Of)
    BY <1>1, <2>1 DEF Bounded
  <2> HIDE DEF Of
  <2>3. QED
    BY <2>1, <2>2, GreatestExists
<1>3. /\ c \in Positions(old, new)
      /\ old[c].name = old[i].name
  BY <1>2
<1>4. RenameTo(old, new, old[i].name) = new[c].name
  BY DEF RenameTo
<1> HIDE DEF c, Of
<1>5. new[c].name \in Names
  <2>1. new[c] \in Row
    BY <1>1, <1>3
  <2>2. QED
    BY <2>1 DEF Row
<1>6. QED
  BY <1>3, <1>4, <1>5

(* One step of the re-keying of setConfig.                                  *)
FirstOf(old, new, i) ==
    /\ i \in Positions(old, new)
    /\ \A j \in Positions(old, new) : old[j].name = old[i].name => i <= j
RekeyStep(old, new, t, i) ==
    IF FirstOf(old, new, i) /\ old[i].name \in DOMAIN t
    THEN DropKeys(PutKey(t, RenameTo(old, new, old[i].name), t[old[i].name]), {old[i].name})
    ELSE t
RekeySteps(f, old, new, schemas) ==
    /\ f[0] = schemas
    /\ \A i \in 1 .. Len(old) : f[i] = RekeyStep(old, new, f[i - 1], i)
    /\ \A i \in 0 .. Len(old) : f[i] \in Tables

LEMMA RekeyStepTable ==
    ASSUME NEW old \in Seq(Row), NEW new \in Seq(Row), NEW t \in Tables, NEW i
    PROVE  RekeyStep(old, new, t, i) \in Tables
<1>1. CASE FirstOf(old, new, i) /\ old[i].name \in DOMAIN t
  <2> DEFINE k == RenameTo(old, new, old[i].name)
             v == t[old[i].name]
             u == PutKey(t, k, v)
  <2>1. k \in Names
    BY <1>1, RenameToName DEF FirstOf
  <2>2. v \in Schema
    BY <1>1, TableForm
  <2>3. u \in Tables
    BY <2>1, <2>2, PutKeyTable
  <2>4. DropKeys(u, {old[i].name}) \in Tables
    <3> HIDE DEF u
    <3>1. QED
      BY <2>3, DropKeysTable
  <2>5. QED
    BY <1>1, <2>4 DEF RekeyStep
<1>2. CASE ~(FirstOf(old, new, i) /\ old[i].name \in DOMAIN t)
  BY <1>2 DEF RekeyStep
<1>3. QED
  BY <1>1, <1>2

(* What Rekeyed computes, step by step.                                     *)
LEMMA RekeyedSteps ==
    ASSUME NEW old \in Seq(Row), NEW new \in Seq(Row), NEW schemas \in Tables
    PROVE  \E f : RekeySteps(f, old, new, schemas) /\ Rekeyed(old, new, schemas) = f[Len(old)]
<1> DEFINE n == Len(old)
           G == [i \in 1 .. n |-> [t \in Tables |-> RekeyStep(old, new, t, i)]]
           R(f) == f = [i \in 0 .. n |-> IF i = 0 THEN schemas ELSE RekeyStep(old, new, f[i - 1], i)]
           h == CHOOSE f : R(f)
<1>1. n \in Nat
  OBVIOUS
<1>2. \A i \in 1 .. n : \A t \in Tables :
          G[i][t] = RekeyStep(old, new, t, i) /\ G[i][t] \in Tables
  BY RekeyStepTable
<1>3. PICK f : Follows(f, Tables, schemas, n, G)
  <2>1. StaysIn(Tables, n, G)
    BY <1>2 DEF StaysIn
  <2> HIDE DEF G, n
  <2>2. QED
    BY <1>1, <2>1, RecursionExists
<1>4. /\ f = [i \in 0 .. n |-> f[i]]
      /\ f[0] = schemas
      /\ \A i \in 0 .. n : f[i] \in Tables
      /\ \A i \in 1 .. n : f[i] = G[i][f[i - 1]]
  BY <1>3 DEF Follows
<1>5. ASSUME NEW i \in 1 .. n
      PROVE  f[i] = RekeyStep(old, new, f[i - 1], i)
  <2>1. i - 1 \in 0 .. n
    BY <1>1
  <2>2. f[i - 1] \in Tables
    BY <1>4, <2>1
  <2> HIDE DEF G
  <2>3. QED
    BY <1>2, <1>4, <2>2
<1>6. R(f)
  <2>1. \A i \in 0 .. n : f[i] = IF i = 0 THEN schemas ELSE RekeyStep(old, new, f[i - 1], i)
    <3>1. TAKE i \in 0 .. n
    <3>2. i = 0 \/ i \in 1 .. n
      BY <1>1
    <3>3. QED
      BY <1>4, <1>5, <3>2
  <2>2. QED
    BY <1>4, <2>1
<1>7. R(h)
  BY <1>6
<1>8. Rekeyed(old, new, schemas) = h[n]
  BY DEF Rekeyed, RekeyStep, FirstOf
<1> HIDE DEF h, G
<1>9. /\ h[0] = schemas
      /\ \A i \in 1 .. n : h[i] = RekeyStep(old, new, h[i - 1], i)
  <2>1. \A i \in 0 .. n : h[i] = IF i = 0 THEN schemas ELSE RekeyStep(old, new, h[i - 1], i)
    BY <1>7
  <2>2. QED
    BY <1>1, <2>1
<1>10. \A i \in 0 .. n : h[i] \in Tables
  <2> DEFINE P == {i \in 0 .. n : h[i] \in Tables}
  <2>1. 0 \in P
    BY <1>1, <1>9
  <2>2. ASSUME NEW i \in 1 .. n, i - 1 \in P
        PROVE  i \in P
    BY <1>1, <1>9, <2>2, RekeyStepTable
  <2> HIDE DEF P, n
  <2>3. \A i \in 0 .. n : i \in P
    BY <1>1, <2>1, <2>2, InductionUpTo
  <2>4. QED
    BY <2>3 DEF P
<1>11. QED
  BY <1>8, <1>9, <1>10 DEF RekeySteps

LEMMA RekeyedTable ==
    ASSUME NEW old \in Seq(Row), NEW new \in Seq(Row), NEW schemas \in Tables
    PROVE  Rekeyed(old, new, schemas) \in Tables
<1>1. PICK f : RekeySteps(f, old, new, schemas) /\ Rekeyed(old, new, schemas) = f[Len(old)]
  BY RekeyedSteps
<1>2. Len(old) \in 0 .. Len(old)
  OBVIOUS
<1>3. QED
  BY <1>1, <1>2 DEF RekeySteps

(* Nothing is renamed: the schemas stay.                                    *)
LEMMA RekeyedSame ==
    ASSUME NEW old \in Seq(Row), NEW new \in Seq(Row), NEW schemas \in Tables,
           Positions(old, new) = {}
    PROVE  Rekeyed(old, new, schemas) = schemas
<1>1. PICK f : RekeySteps(f, old, new, schemas) /\ Rekeyed(old, new, schemas) = f[Len(old)]
  BY RekeyedSteps
<1> DEFINE n == Len(old)
           P == {i \in 0 .. n : f[i] = schemas}
<1>2. 0 \in P
  BY <1>1 DEF RekeySteps
<1>3. ASSUME NEW i \in 1 .. n, i - 1 \in P
      PROVE  i \in P
  BY <1>1, <1>3 DEF RekeySteps, RekeyStep, FirstOf
<1>4. n \in Nat /\ n \in 0 .. n
  OBVIOUS
<1>5. n \in P
  <2> HIDE DEF P, n
  <2>1. QED
    BY <1>2, <1>3, <1>4, InductionUpTo
<1>6. QED
  BY <1>1, <1>5

(* One row is renamed: its schema moves to the new name.                    *)
LEMMA RekeyedOne ==
    ASSUME NEW old \in Seq(Row), NEW new \in Seq(Row), NEW schemas \in Tables,
           NEW k, Positions(old, new) = {k}
    PROVE  Rekeyed(old, new, schemas) =
               IF old[k].name \in DOMAIN schemas
               THEN DropKeys(PutKey(schemas, new[k].name, schemas[old[k].name]), {old[k].name})
               ELSE schemas
<1>1. PICK f : RekeySteps(f, old, new, schemas) /\ Rekeyed(old, new, schemas) = f[Len(old)]
  BY RekeyedSteps
<1> DEFINE n == Len(old)
           moved == RekeyStep(old, new, schemas, k)
           P == {i \in 0 .. n : f[i] = IF i < k THEN schemas ELSE moved}
<1>2. k \in 1 .. n /\ k \in Nat
  BY DEF Positions
<1>3. FirstOf(old, new, k) /\ \A i : FirstOf(old, new, i) => i = k
  BY <1>2 DEF FirstOf
<1>4. 0 \in P
  BY <1>1, <1>2 DEF RekeySteps
<1>5. ASSUME NEW i \in 1 .. n, i - 1 \in P
      PROVE  i \in P
  <2>1. f[i] = RekeyStep(old, new, f[i - 1], i)
    BY <1>1 DEF RekeySteps
  <2>2. CASE i = k
    <3>1. f[i - 1] = schemas
      BY <1>2, <1>5, <2>2
    <3>2. QED
      BY <1>2, <2>1, <2>2, <3>1
  <2>3. CASE i # k
    <3>1. f[i] = f[i - 1]
      BY <1>3, <2>1, <2>3 DEF RekeyStep
    <3>2. i - 1 < k <=> i < k
      BY <1>2, <2>3
    <3> HIDE DEF moved
    <3>3. QED
      BY <1>5, <3>1, <3>2
  <2>4. QED
    BY <2>2, <2>3
<1>6. n \in Nat /\ n \in 0 .. n /\ ~(n < k)
  BY <1>2
<1>7. n \in P
  <2> HIDE DEF P, n
  <2>1. QED
    BY <1>4, <1>5, <1>6, InductionUpTo
<1>8. Rekeyed(old, new, schemas) = moved
  BY <1>1, <1>6, <1>7
<1>9. RenameTo(old, new, old[k].name) = new[k].name
  BY RenameToName
<1>10. QED
  BY <1>3, <1>8, <1>9 DEF RekeyStep

(* What setConfig makes of the rows: their names stay, and a new one gets   *)
(* its id.                                                                  *)
Removed(old, new) ==
    {n \in NamesOf(old) : n \notin NamesOf(new) /\ ~IsRenamed(old, new, n)}
Identified(rows, new) ==
    /\ new \in Seq(Row)
    /\ Len(new) = Len(rows)
    /\ \A i \in 1 .. Len(rows) : /\ new[i].name = rows[i].name
                                 /\ new[i].id = IF rows[i].id = 0 THEN newId ELSE rows[i].id

LEMMA SetConfigParts ==
    ASSUME NEW d \in Document, NEW rows \in Seq(Row), NEW rest \in Nat, changes \in Nat
    PROVE  /\ SetConfig(d, rows, rest) \in Document
           /\ Identified(rows, SetConfig(d, rows, rest).index)
           /\ SetConfig(d, rows, rest).schemas
                = DropKeys(Rekeyed(d.index, rows, d.schemas), Removed(d.index, rows))
<1> DEFINE old == d.index
           r(i) == [rows[i] EXCEPT !.id = IF @ = 0 THEN newId ELSE @]
           Settle(i) == IF /\ i \in DOMAIN old
                           /\ IsRenamed(old, rows, old[i].name)
                           /\ RenameTo(old, rows, old[i].name) = r(i).name
                           /\ r(i).path = old[i].name
                        THEN [r(i) EXCEPT !.path = r(i).name]
                        ELSE r(i)
           new == [i \in DOMAIN rows |-> Settle(i)]
           t == DropKeys(Rekeyed(old, rows, d.schemas), Removed(old, rows))
<1>1. SetConfig(d, rows, rest) = [index |-> new, rest |-> rest, schemas |-> t]
  BY DEF SetConfig, Removed
<1>2. newId \in Nat /\ newId # 0
  BY StoreAssumption DEF newId
<1>3. ASSUME NEW i \in 1 .. Len(rows)
      PROVE  /\ Settle(i) \in Row
             /\ Settle(i).name = rows[i].name
             /\ Settle(i).id = IF rows[i].id = 0 THEN newId ELSE rows[i].id
  <2>1. rows[i] \in Row
    OBVIOUS
  <2>2. /\ r(i) \in Row
        /\ r(i).name = rows[i].name
        /\ r(i).id = IF rows[i].id = 0 THEN newId ELSE rows[i].id
    BY <1>2, <2>1 DEF Row
  <2> HIDE DEF r
  <2>3. /\ [r(i) EXCEPT !.path = r(i).name] \in Row
        /\ [r(i) EXCEPT !.path = r(i).name].name = r(i).name
        /\ [r(i) EXCEPT !.path = r(i).name].id = r(i).id
    BY <2>2 DEF Row, Paths
  <2>4. QED
    BY <2>2, <2>3
<1>4. /\ DOMAIN rows = 1 .. Len(rows)
      /\ Len(rows) \in Nat
  OBVIOUS
<1> HIDE DEF Settle
<1>5. /\ new \in Seq(Row)
      /\ Len(new) = Len(rows)
      /\ \A i \in 1 .. Len(rows) : new[i] = Settle(i)
  BY <1>3, <1>4
<1>6. Identified(rows, new)
  BY <1>3, <1>5 DEF Identified
<1>7. t \in Tables
  <2>1. old \in Seq(Row) /\ d.schemas \in Tables
    BY DEF Document
  <2>2. Rekeyed(old, rows, d.schemas) \in Tables
    BY <2>1, RekeyedTable
  <2>3. QED
    BY <2>2, DropKeysTable
<1> HIDE DEF new, t
<1>8. [index |-> new, rest |-> rest, schemas |-> t] \in Document
  BY <1>5, <1>7 DEF Document
<1>9. QED
  BY <1>1, <1>6, <1>8 DEF t

-----------------------------------------------------------------------------
(* Documents as every part of the flow holds them: well formed, with ids    *)
(* that are distinct and older than the next fresh one.                     *)

Distinct(rows) == \A i, j \in DOMAIN rows : rows[i].id = rows[j].id => i = j
Sound(d, c) ==
    /\ d \in Document
    /\ \A i \in DOMAIN d.index : d.index[i].id \in 1 .. (MaxRows + c)
    /\ Distinct(d.index)

(* Rows on their way into setConfig: at most one of them, without an id, is *)
(* new.                                                                     *)
Proposed(rows) ==
    /\ rows \in Seq(Row)
    /\ \A i \in DOMAIN rows : rows[i].id \in 0 .. (MaxRows + changes)
    /\ Distinct(rows)

LEMMA SetConfigSound ==
    ASSUME NEW d, Sound(d, changes), NEW rows, Proposed(rows), NEW rest \in Nat, changes \in Nat
    PROVE  Sound(SetConfig(d, rows, rest), changes + 1)
<1> DEFINE new == SetConfig(d, rows, rest).index
<1>1. SetConfig(d, rows, rest) \in Document /\ Identified(rows, new)
  BY SetConfigParts DEF Sound, Proposed
<1>2. newId = MaxRows + changes + 1 /\ MaxRows \in Nat
  BY StoreAssumption DEF newId
<1> HIDE DEF new
<1>3. DOMAIN new = 1 .. Len(rows) /\ DOMAIN rows = 1 .. Len(rows)
  BY <1>1 DEF Identified, Proposed
<1>4. \A i \in DOMAIN rows : rows[i].id \in 0 .. (MaxRows + changes)
  BY DEF Proposed
<1>5. \A i \in 1 .. Len(rows) : new[i].id = IF rows[i].id = 0 THEN newId ELSE rows[i].id
  BY <1>1 DEF Identified
<1>6. \A i \in DOMAIN new : new[i].id \in 1 .. (MaxRows + (changes + 1))
  BY <1>2, <1>3, <1>4, <1>5
<1>7. Distinct(new)
  <2>1. SUFFICES ASSUME NEW i \in DOMAIN new, NEW j \in DOMAIN new, new[i].id = new[j].id
                 PROVE  i = j
    BY DEF Distinct
  <2>2. rows[i].id = rows[j].id
    BY <1>2, <1>3, <1>4, <1>5, <2>1
  <2>3. QED
    BY <1>3, <2>2 DEF Proposed, Distinct
<1>8. QED
  BY <1>1, <1>6, <1>7 DEF Sound, new

(* Documents of which names and schemas are not mixed up: names are         *)
(* distinct, every schema is that of a row, and was made for it.            *)
Neat(d) ==
    /\ ~HasDuplicates(d.index)
    /\ DOMAIN d.schemas \subseteq NamesOf(d.index)
OwnSchemas(d) ==
    \A i \in DOMAIN d.index :
        d.index[i].name \in DOMAIN d.schemas => d.schemas[d.index[i].name].of = d.index[i].id
KeepsNeat(d, e) == Neat(d) => Neat(e) /\ (OwnSchemas(d) => OwnSchemas(e))

(* Rows that stay where they are keep their ids.                            *)
SameIds(old, rows) ==
    \A k \in DOMAIN old \cap DOMAIN rows : rows[k].id = old[k].id

(* An edit of the table that renames no row.                                *)
LEMMA NothingRenamedKeepsNeat ==
    ASSUME NEW d, Sound(d, changes), NEW rows, Proposed(rows), NEW rest \in Nat, changes \in Nat,
           Positions(d.index, rows) = {}, SameIds(d.index, rows),
           ~HasDuplicates(SetConfig(d, rows, rest).index)
    PROVE  KeepsNeat(d, SetConfig(d, rows, rest))
<1> DEFINE old == d.index
           new == SetConfig(d, rows, rest).index
           t == SetConfig(d, rows, rest).schemas
<1> SUFFICES ASSUME Neat(d)
             PROVE  Neat(SetConfig(d, rows, rest))
                    /\ (OwnSchemas(d) => OwnSchemas(SetConfig(d, rows, rest)))
  BY DEF KeepsNeat
<1>1. old \in Seq(Row) /\ d.schemas \in Tables /\ rows \in Seq(Row) /\ d \in Document
  BY DEF Sound, Document, Proposed
<1>2. t = DropKeys(d.schemas, Removed(old, rows)) /\ Identified(rows, new)
  BY <1>1, RekeyedSame, SetConfigParts
<1> HIDE DEF t, new
<1>3. /\ DOMAIN t = DOMAIN d.schemas \ Removed(old, rows)
      /\ \A n \in DOMAIN t : t[n] = d.schemas[n]
  <2> DEFINE u == d.schemas
             S == Removed(old, rows)
  <2>1. u \in Tables /\ t = DropKeys(u, S)
    BY <1>1, <1>2
  <2> HIDE DEF u, S
  <2>2. /\ DOMAIN DropKeys(u, S) = DOMAIN u \ S
        /\ \A n \in DOMAIN DropKeys(u, S) : DropKeys(u, S)[n] = u[n]
    BY <2>1, DropKeysTable
  <2>3. QED
    BY <2>1, <2>2, Zenon DEF u, S
<1>4. /\ DOMAIN new = 1 .. Len(rows)
      /\ DOMAIN rows = 1 .. Len(rows)
      /\ DOMAIN old = 1 .. Len(old)
      /\ Len(rows) \in Nat
      /\ Len(old) \in Nat
  BY <1>1, <1>2 DEF Identified
<1>5. \A i \in DOMAIN rows : /\ new[i].name = rows[i].name
                             /\ rows[i].id # 0 => new[i].id = rows[i].id
  BY <1>2, <1>4 DEF Identified
<1>6. \A k \in DOMAIN old \cap DOMAIN rows : old[k].name = rows[k].name
  BY DEF Positions
<1>7. ASSUME NEW n \in DOMAIN t
      PROVE  \E i \in DOMAIN rows : rows[i].name = n
  <2>1. n \in NamesOf(old) /\ n \notin Removed(old, rows)
    BY <1>3 DEF Neat
  <2>2. ~IsRenamed(old, rows, n)
    BY DEF IsRenamed
  <2>3. QED
    BY <2>1, <2>2 DEF Removed, NamesOf
<1>8. DOMAIN t \subseteq NamesOf(new)
  BY <1>4, <1>5, <1>7 DEF NamesOf
<1>9. ASSUME OwnSchemas(d), NEW i \in DOMAIN new, new[i].name \in DOMAIN t
      PROVE  t[new[i].name].of = new[i].id
  <2>1. PICK j \in DOMAIN old : old[j].name = new[i].name
    BY <1>3, <1>9 DEF Neat, NamesOf
  <2>2. t[new[i].name].of = old[j].id
    BY <1>3, <1>9, <2>1 DEF OwnSchemas
  <2>3. i = j
    <3>1. CASE j \in DOMAIN rows
      <4>1. new[j].name = new[i].name
        BY <1>5, <1>6, <2>1, <3>1
      <4>2. QED
        BY <1>4, <3>1, <4>1 DEF HasDuplicates, new
    <3>2. CASE j \notin DOMAIN rows
      <4>1. i \in DOMAIN old /\ i \in DOMAIN rows
        BY <1>4, <3>2
      <4>2. old[i].name = old[j].name
        BY <1>5, <1>6, <2>1, <4>1
      <4>3. QED
        BY <4>1, <4>2 DEF Neat, HasDuplicates
    <3>3. QED
      BY <3>1, <3>2
  <2>4. rows[i].id = old[i].id
    BY <1>4, <2>3 DEF SameIds
  <2>5. old[i].id # 0
    BY <2>3, StoreAssumption DEF Sound
  <2>6. QED
    BY <1>4, <1>5, <2>2, <2>3, <2>4, <2>5
<1>10. Neat(SetConfig(d, rows, rest))
  BY <1>8 DEF Neat, t, new
<1>11. OwnSchemas(d) => OwnSchemas(SetConfig(d, rows, rest))
  BY <1>9 DEF OwnSchemas, t, new
<1>12. QED
  BY <1>10, <1>11

(* An edit of the table that renames one row.                               *)
LEMMA OneRenamedKeepsNeat ==
    ASSUME NEW d, Sound(d, changes), NEW rows, Proposed(rows), NEW rest \in Nat, changes \in Nat,
           NEW k, Positions(d.index, rows) = {k}, SameIds(d.index, rows),
           Len(rows) = Len(d.index),
           ~HasDuplicates(SetConfig(d, rows, rest).index)
    PROVE  KeepsNeat(d, SetConfig(d, rows, rest))
<1> DEFINE old == d.index
           new == SetConfig(d, rows, rest).index
           t == SetConfig(d, rows, rest).schemas
           n0 == old[k].name
           n1 == rows[k].name
<1> SUFFICES ASSUME Neat(d)
             PROVE  Neat(SetConfig(d, rows, rest))
                    /\ (OwnSchemas(d) => OwnSchemas(SetConfig(d, rows, rest)))
  BY DEF KeepsNeat
<1>1. old \in Seq(Row) /\ d.schemas \in Tables /\ rows \in Seq(Row) /\ d \in Document
  BY DEF Sound, Document, Proposed
<1>2. Identified(rows, new)
  BY <1>1, SetConfigParts
<1>3. /\ DOMAIN new = DOMAIN old
      /\ DOMAIN rows = DOMAIN old
      /\ DOMAIN old = 1 .. Len(old)
      /\ Len(old) \in Nat
  <2> HIDE DEF new
  <2>1. QED
    BY <1>1, <1>2 DEF Identified
<1>4. k \in DOMAIN old /\ n0 # n1
      /\ \A j \in DOMAIN old : j # k => rows[j].name = old[j].name
  BY <1>3 DEF Positions
<1>5. \A i \in DOMAIN old : new[i].name = rows[i].name /\ new[i].id = old[i].id
  <2>1. TAKE i \in DOMAIN old
  <2>2. rows[i].id = old[i].id /\ old[i].id # 0
    BY <1>3, StoreAssumption DEF SameIds, Sound
  <2> HIDE DEF new
  <2>3. QED
    BY <1>2, <1>3, <2>2 DEF Identified
<1>6. Removed(old, rows) = {}
  <2>1. SUFFICES ASSUME NEW n \in Removed(old, rows)
                 PROVE  FALSE
    OBVIOUS
  <2>2. PICK j \in DOMAIN old : old[j].name = n
    BY DEF Removed, NamesOf
  <2>3. CASE j = k
    BY <2>2, <2>3 DEF Removed, IsRenamed
  <2>4. CASE j # k
    BY <1>3, <1>4, <2>2, <2>4 DEF Removed, NamesOf
  <2>5. QED
    BY <2>3, <2>4
<1>7. t = IF n0 \in DOMAIN d.schemas
          THEN DropKeys(PutKey(d.schemas, n1, d.schemas[n0]), {n0})
          ELSE d.schemas
  <2>1. t = Rekeyed(old, rows, d.schemas)
    <3>1. t = DropKeys(Rekeyed(old, rows, d.schemas), Removed(old, rows))
      BY <1>1, SetConfigParts
    <3>2. Rekeyed(old, rows, d.schemas) \in Tables
      BY <1>1, RekeyedTable
    <3>3. QED
      BY <1>6, <3>1, <3>2, DropNothing
  <2>2. Rekeyed(old, rows, d.schemas)
          = IF n0 \in DOMAIN d.schemas
            THEN DropKeys(PutKey(d.schemas, n1, d.schemas[n0]), {n0})
            ELSE d.schemas
    BY <1>1, RekeyedOne
  <2> HIDE DEF t, n0, n1, old
  <2>3. QED
    BY <2>1, <2>2
<1>8. n0 \in Names /\ n1 \in Names
  <2>1. old[k] \in Row /\ rows[k] \in Row
    BY <1>1, <1>3, <1>4
  <2>2. QED
    BY <2>1 DEF Row
<1>9. n1 \notin DOMAIN d.schemas
  <2>1. SUFFICES ASSUME n1 \in DOMAIN d.schemas
                 PROVE  FALSE
    OBVIOUS
  <2>2. PICK j \in DOMAIN old : old[j].name = n1
    BY <2>1 DEF Neat, NamesOf
  <2>3. j # k /\ rows[j].name = n1
    BY <1>4, <2>2
  <2>4. new[j].name = new[k].name
    BY <1>4, <1>5, <2>3
  <2>5. QED
    BY <1>3, <1>4, <2>3, <2>4 DEF HasDuplicates
<1>10. ASSUME NEW j \in DOMAIN old, j # k
       PROVE  old[j].name # n0 /\ old[j].name # n1 /\ new[j].name = old[j].name
  <2>1. old[j].name # n0
    BY <1>4, <1>10 DEF Neat, HasDuplicates
  <2>2. new[j].name = old[j].name /\ new[k].name = n1
    BY <1>4, <1>5, <1>10
  <2>3. new[j].name # new[k].name
    BY <1>3, <1>4, <1>10 DEF HasDuplicates
  <2>4. QED
    BY <2>1, <2>2, <2>3
<1>11. /\ n0 \notin DOMAIN t
       /\ n1 \in DOMAIN t => n0 \in DOMAIN d.schemas /\ t[n1] = d.schemas[n0]
       /\ \A n \in DOMAIN t : n # n1 => n \in DOMAIN d.schemas /\ t[n] = d.schemas[n]
  <2>1. CASE n0 \in DOMAIN d.schemas
    <3> DEFINE u == PutKey(d.schemas, n1, d.schemas[n0])
               v == DropKeys(u, {n0})
    <3>1. d.schemas[n0] \in Schema
      BY <1>1, <2>1, TableForm
    <3>2. /\ u \in Tables
          /\ DOMAIN u = DOMAIN d.schemas \cup {n1}
          /\ u[n1] = d.schemas[n0]
          /\ \A n \in DOMAIN d.schemas : n # n1 => u[n] = d.schemas[n]
      BY <1>1, <1>8, <3>1, PutKeyTable
    <3> HIDE DEF u
    <3>3. /\ v \in Tables
          /\ DOMAIN v = DOMAIN u \ {n0}
          /\ \A n \in DOMAIN v : v[n] = u[n]
      BY <3>2, DropKeysTable
    <3>4. t = v
      BY <1>7, <2>1 DEF u
    <3> HIDE DEF v, t
    <3>5. QED
      BY <1>4, <2>1, <3>2, <3>3, <3>4
  <2>2. CASE n0 \notin DOMAIN d.schemas
    <3>1. t = d.schemas
      BY <1>7, <2>2
    <3> HIDE DEF t
    <3>2. QED
      BY <1>9, <2>2, <3>1
  <2>3. QED
    BY <2>1, <2>2
<1> HIDE DEF t, new
<1>12. DOMAIN t \subseteq NamesOf(new)
  <2>1. SUFFICES ASSUME NEW n \in DOMAIN t
                 PROVE  \E i \in DOMAIN new : new[i].name = n
    BY DEF NamesOf
  <2>2. CASE n = n1
    BY <1>3, <1>4, <1>5, <2>2
  <2>3. CASE n # n1
    <3>1. PICK j \in DOMAIN old : old[j].name = n
      BY <1>11, <2>3 DEF Neat, NamesOf
    <3>2. j # k
      BY <1>11, <3>1
    <3>3. QED
      BY <1>3, <1>10, <3>1, <3>2
  <2>4. QED
    BY <2>2, <2>3
<1>13. ASSUME OwnSchemas(d), NEW i \in DOMAIN new, new[i].name \in DOMAIN t
       PROVE  t[new[i].name].of = new[i].id
  <2>1. i \in DOMAIN old /\ new[i].id = old[i].id
    BY <1>3, <1>5
  <2>2. CASE i = k
    <3>1. new[i].name = n1
      BY <1>5, <2>1, <2>2
    <3>2. QED
      BY <1>11, <1>13, <2>1, <2>2, <3>1 DEF OwnSchemas
  <2>3. CASE i # k
    <3>1. new[i].name = old[i].name /\ old[i].name # n1
      BY <1>10, <2>1, <2>3
    <3>2. QED
      BY <1>11, <1>13, <2>1, <3>1 DEF OwnSchemas
  <2>4. QED
    BY <2>2, <2>3
<1>14. Neat(SetConfig(d, rows, rest))
  BY <1>12 DEF Neat, t, new
<1>15. OwnSchemas(d) => OwnSchemas(SetConfig(d, rows, rest))
  BY <1>13 DEF OwnSchemas, t, new
<1>16. QED
  BY <1>14, <1>15

-----------------------------------------------------------------------------
(* The rows the edits hand to setConfig.                                    *)

LEMMA RowsOf ==
    ASSUME NEW d, Sound(d, changes), changes \in Nat
    PROVE  /\ d.index \in Seq(Row)
           /\ DOMAIN d.index = 1 .. Len(d.index)
           /\ Len(d.index) \in Nat
           /\ \A i \in DOMAIN d.index : d.index[i] \in Row /\ d.index[i].id \in 1 .. (MaxRows + changes)
           /\ Proposed(d.index)
           /\ d \in Document /\ d.rest \in Nat /\ d.schemas \in Tables
<1>1. d \in Document /\ MaxRows \in Nat
  BY StoreAssumption DEF Sound
<1>2. d.index \in Seq(Row) /\ d.rest \in Nat /\ d.schemas \in Tables
  BY <1>1 DEF Document
<1>3. /\ DOMAIN d.index = 1 .. Len(d.index)
      /\ Len(d.index) \in Nat
      /\ \A i \in DOMAIN d.index : d.index[i] \in Row
  BY <1>2
<1>4. \A i \in DOMAIN d.index : d.index[i].id \in 1 .. (MaxRows + changes)
  BY DEF Sound
<1>5. Proposed(d.index)
  BY <1>1, <1>2, <1>4 DEF Proposed, Sound
<1>6. QED
  BY <1>1, <1>2, <1>3, <1>4, <1>5

LEMMA RenamedRows ==
    ASSUME NEW d, Sound(d, changes), changes \in Nat, NEW k \in DOMAIN d.index, NEW name \in Names
    PROVE  LET rows == [d.index EXCEPT ![k].name = name]
           IN  /\ Proposed(rows)
               /\ SameIds(d.index, rows)
               /\ Len(rows) = Len(d.index)
               /\ name # d.index[k].name => Positions(d.index, rows) = {k}
<1> DEFINE old == d.index
           rows == [old EXCEPT ![k].name = name]
<1>1. /\ DOMAIN old = 1 .. Len(old)
      /\ Len(old) \in Nat
      /\ \A i \in DOMAIN old : old[i] \in Row
      /\ \A i \in DOMAIN old : old[i].id \in 0 .. (MaxRows + changes)
  BY RowsOf DEF Proposed
<1>2. [old[k] EXCEPT !.name = name] = [id |-> old[k].id, name |-> name, path |-> old[k].path]
  <2>1. old[k] \in Row
    BY <1>1
  <2>2. QED
    BY <2>1 DEF Row
<1>3. \A i \in DOMAIN old :
          rows[i] = IF i = k THEN [id |-> old[k].id, name |-> name, path |-> old[k].path] ELSE old[i]
  BY <1>2
<1>4. DOMAIN rows = DOMAIN old /\ rows = [i \in 1 .. Len(old) |-> rows[i]]
  BY <1>1
<1> HIDE DEF rows
<1>5. \A i \in DOMAIN old : /\ rows[i] \in Row
                            /\ rows[i].id = old[i].id
                            /\ i # k => rows[i].name = old[i].name
                            /\ i = k => rows[i].name = name
  BY <1>1, <1>3 DEF Row
<1>6. rows \in Seq(Row) /\ Len(rows) = Len(old)
  <2>1. rows \in [1 .. Len(old) -> Row]
    BY <1>1, <1>4, <1>5
  <2>2. QED
    BY <1>1, <2>1
<1>7. Proposed(rows)
  <2>1. Distinct(rows)
    BY <1>4, <1>5 DEF Distinct, Sound
  <2>2. \A i \in DOMAIN rows : rows[i].id \in 0 .. (MaxRows + changes)
    BY <1>1, <1>4, <1>5
  <2>3. QED
    BY <1>6, <2>1, <2>2 DEF Proposed
<1>8. SameIds(old, rows)
  BY <1>4, <1>5 DEF SameIds
<1>9. name # old[k].name => Positions(old, rows) = {k}
  BY <1>4, <1>5 DEF Positions
<1>10. QED
  BY <1>6, <1>7, <1>8, <1>9 DEF rows

LEMMA MovedRows ==
    ASSUME NEW d, Sound(d, changes), changes \in Nat, NEW k \in DOMAIN d.index, NEW path \in Paths
    PROVE  LET rows == [d.index EXCEPT ![k].path = path]
           IN  /\ Proposed(rows)
               /\ SameIds(d.index, rows)
               /\ Positions(d.index, rows) = {}
<1> DEFINE old == d.index
           rows == [old EXCEPT ![k].path = path]
<1>1. /\ DOMAIN old = 1 .. Len(old)
      /\ Len(old) \in Nat
      /\ \A i \in DOMAIN old : old[i] \in Row
      /\ \A i \in DOMAIN old : old[i].id \in 0 .. (MaxRows + changes)
  BY RowsOf DEF Proposed
<1>2. [old[k] EXCEPT !.path = path] = [id |-> old[k].id, name |-> old[k].name, path |-> path]
  <2>1. old[k] \in Row
    BY <1>1
  <2>2. QED
    BY <2>1 DEF Row
<1>3. \A i \in DOMAIN old :
          rows[i] = IF i = k THEN [id |-> old[k].id, name |-> old[k].name, path |-> path] ELSE old[i]
  BY <1>2
<1>4. DOMAIN rows = DOMAIN old /\ rows = [i \in 1 .. Len(old) |-> rows[i]]
  BY <1>1
<1> HIDE DEF rows
<1>5. \A i \in DOMAIN old : /\ rows[i] \in Row
                            /\ rows[i].id = old[i].id
                            /\ rows[i].name = old[i].name
  BY <1>1, <1>3 DEF Row
<1>6. rows \in Seq(Row)
  <2>1. rows \in [1 .. Len(old) -> Row]
    BY <1>1, <1>4, <1>5
  <2>2. QED
    BY <1>1, <2>1
<1>7. Proposed(rows)
  <2>1. Distinct(rows)
    BY <1>4, <1>5 DEF Distinct, Sound
  <2>2. \A i \in DOMAIN rows : rows[i].id \in 0 .. (MaxRows + changes)
    BY <1>1, <1>4, <1>5
  <2>3. QED
    BY <1>6, <2>1, <2>2 DEF Proposed
<1>8. SameIds(old, rows) /\ Positions(old, rows) = {}
  BY <1>4, <1>5 DEF SameIds, Positions
<1>9. QED
  BY <1>7, <1>8 DEF rows

LEMMA AddedRows ==
    ASSUME NEW d, Sound(d, changes), changes \in Nat, NEW r \in Row, r.id = 0
    PROVE  LET rows == Append(d.index, r)
           IN  /\ Proposed(rows)
               /\ SameIds(d.index, rows)
               /\ Positions(d.index, rows) = {}
<1> DEFINE old == d.index
           rows == Append(old, r)
<1>1. /\ old \in Seq(Row)
      /\ DOMAIN old = 1 .. Len(old)
      /\ Len(old) \in Nat
      /\ \A i \in DOMAIN old : old[i].id \in 1 .. (MaxRows + changes)
  BY RowsOf
<1>2. /\ rows \in Seq(Row)
      /\ DOMAIN rows = 1 .. (Len(old) + 1)
      /\ \A i \in DOMAIN old : rows[i] = old[i]
      /\ rows[Len(old) + 1] = r
  BY <1>1
<1> HIDE DEF rows
<1>3. \A i \in DOMAIN rows : i \in DOMAIN old \/ i = Len(old) + 1
  BY <1>1, <1>2
<1>4. MaxRows + changes \in Nat
  BY StoreAssumption
<1>5. \A i \in DOMAIN rows : rows[i].id \in 0 .. (MaxRows + changes)
  BY <1>1, <1>2, <1>3, <1>4
<1>6. Distinct(rows)
  <2>1. SUFFICES ASSUME NEW i \in DOMAIN rows, NEW j \in DOMAIN rows, rows[i].id = rows[j].id
                 PROVE  i = j
    BY DEF Distinct
  <2>2. CASE i \in DOMAIN old /\ j \in DOMAIN old
    BY <1>2, <2>1, <2>2 DEF Distinct, Sound
  <2>3. CASE i = Len(old) + 1 /\ j = Len(old) + 1
    BY <2>3
  <2>4. ~(i \in DOMAIN old /\ j = Len(old) + 1) /\ ~(j \in DOMAIN old /\ i = Len(old) + 1)
    BY <1>1, <1>2, <1>4, <2>1
  <2>5. QED
    BY <1>3, <2>2, <2>3, <2>4
<1>7. SameIds(old, rows) /\ Positions(old, rows) = {}
  BY <1>2 DEF SameIds, Positions
<1>8. QED
  BY <1>2, <1>5, <1>6, <1>7 DEF Proposed, rows

LEMMA RemovedRows ==
    ASSUME NEW d, Sound(d, changes), changes \in Nat, NEW k \in DOMAIN d.index
    PROVE  LET rows == RemoveAt(d.index, k)
           IN  /\ Proposed(rows)
               /\ k = Len(d.index) => SameIds(d.index, rows) /\ Positions(d.index, rows) = {}
<1> DEFINE old == d.index
           rows == RemoveAt(old, k)
<1>1. /\ old \in Seq(Row)
      /\ DOMAIN old = 1 .. Len(old)
      /\ Len(old) \in Nat
      /\ \A i \in DOMAIN old : old[i].id \in 1 .. (MaxRows + changes)
  BY RowsOf
<1>2. /\ rows \in Seq(Row)
      /\ Len(rows) = Len(old) - 1
      /\ \A i \in 1 .. (Len(old) - 1) : rows[i] = IF i < k THEN old[i] ELSE old[i + 1]
  <2> DEFINE s == SubSeq(old, 1, k - 1)
             t == SubSeq(old, k + 1, Len(old))
  <2>1. k \in 1 .. Len(old)
    BY <1>1
  <2>2. /\ s \in Seq(Row) /\ Len(s) = k - 1
        /\ \A i \in 1 .. (k - 1) : s[i] = old[i]
    BY <1>1, <2>1
  <2>3. /\ t \in Seq(Row) /\ Len(t) = Len(old) - k
        /\ \A i \in 1 .. (Len(old) - k) : t[i] = old[k + i]
    BY <1>1, <2>1
  <2>4. rows = s \o t
    BY DEF RemoveAt
  <2> HIDE DEF s, t, rows
  <2>5. /\ s \o t \in Seq(Row)
        /\ Len(s \o t) = Len(s) + Len(t)
        /\ \A i \in 1 .. Len(s) : (s \o t)[i] = s[i]
        /\ \A i \in 1 .. Len(t) : (s \o t)[Len(s) + i] = t[i]
    <3>1. s \in Seq(Row) /\ t \in Seq(Row)
      BY <2>2, <2>3
    <3>2. QED
      BY <3>1
  <2>6. /\ rows \in Seq(Row)
        /\ Len(rows) = Len(s) + Len(t)
        /\ \A i \in 1 .. Len(s) : rows[i] = s[i]
        /\ \A i \in 1 .. Len(t) : rows[Len(s) + i] = t[i]
    BY <2>4, <2>5
  <2>7. Len(rows) = Len(old) - 1
    BY <1>1, <2>1, <2>2, <2>3, <2>6
  <2>8. ASSUME NEW i \in 1 .. (Len(old) - 1)
        PROVE  rows[i] = IF i < k THEN old[i] ELSE old[i + 1]
    <3>1. CASE i < k
      <4>1. i \in 1 .. Len(s)
        BY <2>1, <2>2, <3>1
      <4>2. rows[i] = s[i] /\ s[i] = old[i]
        BY <2>2, <2>6, <4>1
      <4>3. QED
        BY <3>1, <4>2
    <3>2. CASE ~(i < k)
      <4>1. i - (k - 1) \in 1 .. Len(t) /\ (k - 1) + (i - (k - 1)) = i /\ k + (i - (k - 1)) = i + 1
        BY <1>1, <2>1, <2>3, <3>2
      <4>2. rows[(k - 1) + (i - (k - 1))] = old[k + (i - (k - 1))]
        BY <2>2, <2>3, <2>6, <4>1
      <4>3. QED
        BY <3>2, <4>1, <4>2
    <3>3. QED
      BY <3>1, <3>2
  <2>9. QED
    BY <2>6, <2>7, <2>8
<1>3. k \in 1 .. Len(old) /\ MaxRows + changes \in Nat
  BY <1>1, StoreAssumption
<1> HIDE DEF rows
<1>4. DOMAIN rows = 1 .. (Len(old) - 1)
  BY <1>2
<1>5. \A i \in DOMAIN rows : \E j \in DOMAIN old : rows[i] = old[j] /\ j = IF i < k THEN i ELSE i + 1
  BY <1>1, <1>2, <1>3, <1>4
<1>6. Distinct(rows)
  <2>1. SUFFICES ASSUME NEW i \in DOMAIN rows, NEW j \in DOMAIN rows, rows[i].id = rows[j].id
                 PROVE  i = j
    BY DEF Distinct
  <2>2. PICK a \in DOMAIN old : rows[i] = old[a] /\ a = IF i < k THEN i ELSE i + 1
    BY <1>5
  <2>3. PICK b \in DOMAIN old : rows[j] = old[b] /\ b = IF j < k THEN j ELSE j + 1
    BY <1>5
  <2>4. a = b
    BY <2>1, <2>2, <2>3 DEF Distinct, Sound
  <2>5. QED
    BY <1>1, <1>3, <1>4, <2>2, <2>3, <2>4
<1>7. Proposed(rows)
  <2>1. \A i \in DOMAIN rows : rows[i].id \in 0 .. (MaxRows + changes)
    BY <1>1, <1>3, <1>5
  <2>2. QED
    BY <1>2, <1>6, <2>1 DEF Proposed
<1>8. k = Len(old) => \A i \in DOMAIN rows : rows[i] = old[i]
  BY <1>2, <1>4
<1>9. k = Len(old) => SameIds(old, rows) /\ Positions(old, rows) = {}
  BY <1>8 DEF SameIds, Positions
<1>10. QED
  BY <1>7, <1>9 DEF rows

-----------------------------------------------------------------------------
(* A row with an id of its own comes in behind the k-th.                    *)

Inserted(old, rows, k, r) ==
    /\ rows \in Seq(Row)
    /\ Len(rows) = Len(old) + 1
    /\ \A j \in 1 .. (Len(old) + 1) :
           rows[j] = IF j <= k THEN old[j] ELSE IF j = k + 1 THEN r ELSE old[j - 1]

LEMMA AppendInserts ==
    ASSUME NEW old \in Seq(Row), NEW r \in Row
    PROVE  Inserted(old, Append(old, r), Len(old), r)
BY DEF Inserted

LEMMA InsertAtInserts ==
    ASSUME NEW old \in Seq(Row), NEW r \in Row, NEW k \in DOMAIN old
    PROVE  Inserted(old, InsertAt(old, k + 1, r), k, r)
<1> DEFINE s == SubSeq(old, 1, k)
           t == SubSeq(old, k + 1, Len(old))
           u == s \o <<r>>
           n == Len(old)
<1>1. n \in Nat /\ k \in 1 .. n /\ (k + 1) - 1 = k
  OBVIOUS
<1>2. /\ s \in Seq(Row) /\ Len(s) = k
      /\ \A i \in 1 .. k : s[i] = old[i]
  BY <1>1
<1>3. /\ t \in Seq(Row) /\ Len(t) = n - k
      /\ \A i \in 1 .. (n - k) : t[i] = old[k + i]
  BY <1>1
<1>4. InsertAt(old, k + 1, r) = u \o t
  BY <1>1 DEF InsertAt
<1> HIDE DEF s, t
<1>5. /\ u \in Seq(Row) /\ Len(u) = k + 1
      /\ \A i \in 1 .. k : u[i] = old[i]
      /\ u[k + 1] = r
  BY <1>1, <1>2
<1> HIDE DEF u
<1>6. /\ u \o t \in Seq(Row)
      /\ Len(u \o t) = Len(u) + Len(t)
      /\ \A i \in 1 .. Len(u) : (u \o t)[i] = u[i]
      /\ \A i \in 1 .. Len(t) : (u \o t)[Len(u) + i] = t[i]
  <2>1. u \in Seq(Row) /\ t \in Seq(Row)
    BY <1>3, <1>5
  <2>2. QED
    BY <2>1
<1> DEFINE rows == u \o t
<1>7. Len(rows) = n + 1
  BY <1>1, <1>3, <1>5, <1>6
<1>8. ASSUME NEW j \in 1 .. (n + 1)
      PROVE  rows[j] = IF j <= k THEN old[j] ELSE IF j = k + 1 THEN r ELSE old[j - 1]
  <2> HIDE DEF n
  <2>1. CASE j <= k + 1
    <3>1. j \in 1 .. Len(u) /\ (j <= k => j \in 1 .. k) /\ (~(j <= k) => j = k + 1)
      BY <1>1, <1>5, <2>1
    <3>2. rows[j] = u[j]
      BY <1>6, <3>1
    <3>3. QED
      BY <1>5, <3>1, <3>2
  <2>2. CASE ~(j <= k + 1)
    <3> DEFINE i == j - (k + 1)
    <3>1. i \in 1 .. Len(t) /\ i \in 1 .. (n - k) /\ Len(u) + i = j /\ k + i = j - 1
          /\ ~(j <= k) /\ j # k + 1
      <4>1. n \in Nat /\ k \in 1 .. n /\ Len(u) = k + 1 /\ Len(t) = n - k /\ j \in 1 .. (n + 1)
        BY <1>1, <1>3, <1>5
      <4>2. j \in Int /\ k \in Int /\ j > k + 1 /\ j <= n + 1
        BY <2>2, <4>1
      <4>3. i \in Int /\ 1 <= i /\ i <= n - k /\ (k + 1) + i = j /\ k + i = j - 1
        BY <4>1, <4>2
      <4>4. ~(j <= k) /\ j # k + 1
        BY <4>1, <4>2
      <4> HIDE DEF i
      <4>5. QED
        BY <4>1, <4>3, <4>4
    <3>2. rows[Len(u) + i] = t[i] /\ t[i] = old[k + i]
      <4> HIDE DEF i
      <4>1. QED
        BY <1>3, <1>6, <3>1
    <3> HIDE DEF i, rows
    <3>3. QED
      BY <3>1, <3>2
  <2>3. QED
    BY <2>1, <2>2
<1> HIDE DEF rows
<1>9. QED
  BY <1>4, <1>6, <1>7, <1>8 DEF Inserted, rows

LEMMA InsertionKeeps ==
    ASSUME Sound(doc, changes), changes \in Nat,
           NEW r \in Row, r.id = newId, NEW k \in 0 .. Len(doc.index),
           NEW e \in Document, Inserted(doc.index, e.index, k, r),
           \/ e.schemas = doc.schemas
           \/ \E v \in Schema : v.of = newId /\ e.schemas = PutKey(doc.schemas, r.name, v)
    PROVE  Sound(e, changes + 1) /\ (~HasDuplicates(e.index) => KeepsNeat(doc, e))
<1> DEFINE old == doc.index
           rows == e.index
           n == Len(old)
           From(j) == IF j <= k THEN j ELSE j - 1
<1>1. /\ old \in Seq(Row)
      /\ DOMAIN old = 1 .. n
      /\ n \in Nat
      /\ \A i \in DOMAIN old : old[i].id \in 1 .. (MaxRows + changes)
      /\ doc.schemas \in Tables
  BY RowsOf
<1>2. /\ rows \in Seq(Row)
      /\ Len(rows) = n + 1
      /\ \A j \in 1 .. (n + 1) :
             rows[j] = IF j <= k THEN old[j] ELSE IF j = k + 1 THEN r ELSE old[j - 1]
  BY DEF Inserted
<1>3. newId = MaxRows + changes + 1 /\ MaxRows \in Nat
  BY StoreAssumption DEF newId
<1>4. DOMAIN rows = 1 .. (n + 1) /\ k \in 0 .. n
  BY <1>2
<1> HIDE DEF rows, old, n
<1>5. rows[k + 1] = r /\ k + 1 \in DOMAIN rows
  BY <1>1, <1>2, <1>4
<1>6. ASSUME NEW j \in DOMAIN rows, j # k + 1
      PROVE  From(j) \in DOMAIN old /\ rows[j] = old[From(j)]
  BY <1>1, <1>2, <1>4, <1>6
<1>7. ASSUME NEW i \in DOMAIN rows, i # k + 1, NEW j \in DOMAIN rows, j # k + 1, From(i) = From(j)
      PROVE  i = j
  BY <1>1, <1>4, <1>7
<1>8. ASSUME NEW m \in DOMAIN old
      PROVE  \E j \in DOMAIN rows : j # k + 1 /\ From(j) = m
  <2>1. CASE m <= k
    <3>1. m \in DOMAIN rows /\ m # k + 1 /\ From(m) = m
      BY <1>1, <1>4, <2>1
    <3>2. QED
      BY <3>1
  <2>2. CASE ~(m <= k)
    <3>1. m + 1 \in DOMAIN rows /\ m + 1 # k + 1 /\ From(m + 1) = m
      BY <1>1, <1>4, <2>2
    <3>2. QED
      BY <3>1
  <2>3. QED
    BY <2>1, <2>2
<1> HIDE DEF From
<1>9. \A j \in DOMAIN rows : rows[j].id \in 1 .. (MaxRows + (changes + 1))
  <2>1. TAKE j \in DOMAIN rows
  <2>2. CASE j = k + 1
    BY <1>3, <1>5, <2>2
  <2>3. CASE j # k + 1
    <3>1. rows[j].id \in 1 .. (MaxRows + changes)
      BY <1>1, <1>6, <2>3
    <3>2. QED
      BY <1>3, <3>1
  <2>4. QED
    BY <2>2, <2>3
<1>10. ASSUME NEW j \in DOMAIN rows, j # k + 1
       PROVE  rows[j].id # newId
  <2>1. rows[j].id \in 1 .. (MaxRows + changes)
    BY <1>1, <1>6, <1>10
  <2>2. QED
    BY <1>3, <2>1
<1>11. Distinct(rows)
  <2>1. SUFFICES ASSUME NEW i \in DOMAIN rows, NEW j \in DOMAIN rows, rows[i].id = rows[j].id
                 PROVE  i = j
    BY DEF Distinct
  <2>2. CASE i = k + 1 \/ j = k + 1
    BY <1>5, <1>10, <2>1, <2>2
  <2>3. CASE i # k + 1 /\ j # k + 1
    <3>1. /\ From(i) \in DOMAIN old /\ rows[i] = old[From(i)]
          /\ From(j) \in DOMAIN old /\ rows[j] = old[From(j)]
      BY <1>6, <2>3
    <3>2. From(i) = From(j)
      BY <2>1, <3>1 DEF Distinct, Sound, old
    <3>3. QED
      BY <1>7, <2>3, <3>2
  <2>4. QED
    BY <2>2, <2>3
<1>12. Sound(e, changes + 1)
  BY <1>9, <1>11 DEF Sound, rows
<1>13. ASSUME ~HasDuplicates(rows), Neat(doc)
       PROVE  Neat(e) /\ (OwnSchemas(doc) => OwnSchemas(e))
  <2> DEFINE t == e.schemas
  <2>1. r.name \notin DOMAIN doc.schemas
    <3>1. SUFFICES ASSUME r.name \in DOMAIN doc.schemas
                   PROVE  FALSE
      OBVIOUS
    <3>2. PICK m \in DOMAIN old : old[m].name = r.name
      BY <1>13, <3>1 DEF Neat, NamesOf, old
    <3>3. PICK j \in DOMAIN rows : j # k + 1 /\ From(j) = m
      BY <1>8
    <3>4. rows[j].name = rows[k + 1].name
      BY <1>5, <1>6, <3>2, <3>3
    <3>5. QED
      BY <1>5, <1>13, <3>3, <3>4 DEF HasDuplicates
  <2>2. /\ \A x \in DOMAIN t : x # r.name => x \in DOMAIN doc.schemas /\ t[x] = doc.schemas[x]
        /\ r.name \in DOMAIN t => t[r.name].of = newId
    <3>1. CASE t = doc.schemas
      BY <2>1, <3>1
    <3>2. CASE \E v \in Schema : v.of = newId /\ t = PutKey(doc.schemas, r.name, v)
      <4>1. PICK v \in Schema : v.of = newId /\ t = PutKey(doc.schemas, r.name, v)
        BY <3>2
      <4>2. r.name \in Names
        BY DEF Row
      <4> DEFINE u == doc.schemas
                 x0 == r.name
      <4>3. u \in Tables /\ x0 \in Names /\ v \in Schema /\ t = PutKey(u, x0, v) /\ v.of = newId
        BY <1>1, <4>1, <4>2
      <4> HIDE DEF t, u, x0
      <4>4. /\ DOMAIN t = DOMAIN u \cup {x0}
            /\ t[x0] = v
            /\ \A x \in DOMAIN u : x # x0 => t[x] = u[x]
        BY <4>3, PutKeyTable
      <4>5. QED
        BY <4>3, <4>4, Zenon DEF u, x0
    <3>3. QED
      BY <3>1, <3>2
  <2> HIDE DEF t
  <2>3. DOMAIN t \subseteq NamesOf(rows)
    <3>1. SUFFICES ASSUME NEW x \in DOMAIN t
                   PROVE  \E j \in DOMAIN rows : rows[j].name = x
      BY DEF NamesOf
    <3>2. CASE x = r.name
      BY <1>5, <3>2
    <3>3. CASE x # r.name
      <4>1. PICK m \in DOMAIN old : old[m].name = x
        BY <1>13, <2>2, <3>3 DEF Neat, NamesOf, old
      <4>2. QED
        BY <1>6, <1>8, <4>1
    <3>4. QED
      BY <3>2, <3>3
  <2>4. ASSUME OwnSchemas(doc), NEW j \in DOMAIN rows, rows[j].name \in DOMAIN t
        PROVE  t[rows[j].name].of = rows[j].id
    <3>1. CASE j = k + 1
      BY <1>5, <2>2, <2>4, <3>1
    <3>2. CASE j # k + 1
      <4>1. rows[j].name # r.name
        BY <1>5, <1>13, <3>2 DEF HasDuplicates
      <4>2. From(j) \in DOMAIN old /\ rows[j] = old[From(j)]
        BY <1>6, <3>2
      <4>3. QED
        BY <2>2, <2>4, <4>1, <4>2 DEF OwnSchemas, old
    <3>3. QED
      BY <3>1, <3>2
  <2>5. Neat(e)
    BY <1>13, <2>3 DEF Neat, t, rows
  <2>6. OwnSchemas(doc) => OwnSchemas(e)
    BY <2>4 DEF OwnSchemas, t, rows
  <2>7. QED
    BY <2>5, <2>6
<1>14. QED
  BY <1>12, <1>13 DEF KeepsNeat, rows

-----------------------------------------------------------------------------
(* The edits of the document.                                               *)

(* The first row of a name gives the id a schema is made for.               *)
LEMMA IdOfRow ==
    ASSUME NEW rows \in Seq(Row), NEW name
    PROVE  /\ IdOf(rows, name) \in Nat
           /\ name \in NamesOf(rows) =>
                  \E i \in DOMAIN rows : rows[i].name = name /\ IdOf(rows, name) = rows[i].id
<1>1. CASE name \notin NamesOf(rows)
  BY <1>1 DEF IdOf
<1>2. CASE name \in NamesOf(rows)
  <2> DEFINE I == {i \in 1 .. Len(rows) : rows[i].name = name}
             k == SelectInSeq(rows, LAMBDA r : r.name = name)
  <2>1. I # {} /\ I \subseteq Nat
    BY <1>2 DEF NamesOf
  <2>2. k = Min(I)
    BY <2>1 DEF SelectInSeq
  <2>3. Min(I) \in I
    <3> HIDE DEF I
    <3>1. QED
      BY <2>1, MinProperties
  <2>4. k \in DOMAIN rows /\ rows[k].name = name
    BY <2>2, <2>3
  <2>5. IdOf(rows, name) = rows[k].id
    BY <1>2 DEF IdOf
  <2> HIDE DEF k
  <2>6. rows[k].id \in Nat
    <3>1. rows[k] \in Row
      BY <2>4
    <3>2. QED
      BY <3>1 DEF Row
  <2>7. QED
    BY <2>4, <2>5, <2>6
<1>3. QED
  BY <1>1, <1>2

(* Ids that are fresh for a number of changes are so for one more.          *)
LEMMA SoundLater ==
    ASSUME NEW d, NEW c \in Nat, Sound(d, c)
    PROVE  Sound(d, c + 1)
<1>1. MaxRows \in Nat
  BY StoreAssumption
<1>2. \A i \in DOMAIN d.index : d.index[i].id \in 1 .. (MaxRows + c)
  BY DEF Sound
<1>3. \A i \in DOMAIN d.index : d.index[i].id \in 1 .. (MaxRows + (c + 1))
  BY <1>1, <1>2
<1>4. QED
  BY <1>3 DEF Sound

LEMMA SetSchemas ==
    ASSUME NEW d \in Document, NEW t \in Tables
    PROVE  /\ [d EXCEPT !.schemas = t] \in Document
           /\ [d EXCEPT !.schemas = t].index = d.index
           /\ [d EXCEPT !.schemas = t].schemas = t
<1>1. [d EXCEPT !.schemas = t] = [index |-> d.index, rest |-> d.rest, schemas |-> t]
  BY DEF Document
<1>2. QED
  BY <1>1 DEF Document

(* A change of the document, as the rest of the argument uses it.           *)
Changed(d) ==
    /\ Sound(d, changes + 1)
    /\ tangled' = {} => tangled = {} /\ KeepsNeat(doc, d)

LEMMA ApplyChanges ==
    ASSUME Sound(doc, changes), changes \in Nat, active \in Names \cup {Config}, Apply
    PROVE  Changed(doc')
<1> DEFINE u == doc.schemas
           v == [rev |-> changes + 1,
                 of |-> IF active \in DOMAIN u THEN u[active].of ELSE IdOf(doc.index, active)]
           t == PutKey(u, active, v)
<1>1. active \in Names /\ doc' = [doc EXCEPT !.schemas = t]
  BY DEF Apply, Record
<1>2. u \in Tables /\ doc \in Document /\ doc.index \in Seq(Row)
  BY RowsOf
<1>3. IdOf(doc.index, active) \in Nat
  BY <1>2, IdOfRow
<1>4. v \in Schema
  <2>1. active \in DOMAIN u => u[active] \in Schema
    BY <1>2, TableForm
  <2> HIDE DEF u
  <2>2. QED
    BY <1>3, <2>1 DEF Schema
<1>5. v.of = IF active \in DOMAIN u THEN u[active].of ELSE IdOf(doc.index, active)
  OBVIOUS
<1> HIDE DEF v, u
<1>6. /\ t \in Tables
      /\ DOMAIN t = DOMAIN u \cup {active}
      /\ t[active] = v
      /\ \A x \in DOMAIN u : x # active => t[x] = u[x]
  BY <1>1, <1>2, <1>4, PutKeyTable
<1> HIDE DEF t
<1>7. doc' \in Document /\ doc'.index = doc.index /\ doc'.schemas = t
  BY <1>1, <1>2, <1>6, SetSchemas
<1>8. Sound(doc', changes + 1)
  BY <1>7, SoundLater DEF Sound
<1>9. ASSUME tangled' = {}
      PROVE  tangled = {} /\ KeepsNeat(doc, doc')
  <2>1. tangled = {} /\ active \in NamesOf(doc.index)
    BY <1>9 DEF Apply
  <2>2. SUFFICES ASSUME Neat(doc)
                 PROVE  Neat(doc') /\ (OwnSchemas(doc) => OwnSchemas(doc'))
    BY <2>1 DEF KeepsNeat
  <2>3. Neat(doc')
    BY <1>6, <1>7, <2>1, <2>2 DEF Neat, u
  <2>4. ASSUME OwnSchemas(doc), NEW i \in DOMAIN doc.index, doc.index[i].name \in DOMAIN t
        PROVE  t[doc.index[i].name].of = doc.index[i].id
    <3>1. CASE doc.index[i].name # active
      BY <1>6, <2>4, <3>1 DEF OwnSchemas, u
    <3>2. CASE doc.index[i].name = active
      <4>1. CASE active \in DOMAIN u
        BY <1>5, <1>6, <2>4, <3>2, <4>1 DEF OwnSchemas, u
      <4>2. CASE active \notin DOMAIN u
        <5>1. PICK j \in DOMAIN doc.index :
                doc.index[j].name = active /\ IdOf(doc.index, active) = doc.index[j].id
          BY <1>2, <2>1, IdOfRow
        <5>2. i = j
          BY <2>2, <3>2, <5>1 DEF Neat, HasDuplicates
        <5>3. QED
          BY <1>5, <1>6, <3>2, <4>2, <5>1, <5>2
      <4>3. QED
        BY <4>1, <4>2
    <3>3. QED
      BY <3>1, <3>2
  <2>5. OwnSchemas(doc) => OwnSchemas(doc')
    BY <1>7, <2>4 DEF OwnSchemas
  <2>6. QED
    BY <2>3, <2>5
<1>10. QED
  BY <1>8, <1>9 DEF Changed

(* The rows of the deployment panel.                                        *)
LEMMA RenameRowChanges ==
    ASSUME Sound(doc, changes), changes \in Nat,
           NEW k \in DOMAIN doc.index, NEW name \in Names, RenameRow(k, name)
    PROVE  Changed(doc')
<1> DEFINE rows == [doc.index EXCEPT ![k].name = name]
<1>1. doc' = SetConfig(doc, rows, doc.rest) /\ Tangle({}) /\ name # doc.index[k].name
  BY DEF RenameRow, Record
<1>2. /\ Proposed(rows)
      /\ SameIds(doc.index, rows)
      /\ Len(rows) = Len(doc.index)
      /\ Positions(doc.index, rows) = {k}
  BY <1>1, RenamedRows
<1>3. doc.rest \in Nat
  BY RowsOf
<1> HIDE DEF rows
<1>4. Sound(doc', changes + 1)
  BY <1>1, <1>2, <1>3, SetConfigSound
<1>5. ASSUME tangled' = {}
      PROVE  tangled = {} /\ KeepsNeat(doc, doc')
  <2>1. tangled = {} /\ ~HasDuplicates(doc'.index)
    BY <1>1, <1>5 DEF Tangle
  <2>2. KeepsNeat(doc, SetConfig(doc, rows, doc.rest))
    BY <1>1, <1>2, <1>3, <2>1, OneRenamedKeepsNeat
  <2>3. QED
    BY <1>1, <2>1, <2>2
<1>6. QED
  BY <1>4, <1>5 DEF Changed

(* An edit of the table that renames nothing.                               *)
LEMMA TableChanges ==
    ASSUME Sound(doc, changes), changes \in Nat, NEW rest \in Nat, NEW rows, Proposed(rows),
           NEW extra, doc' = SetConfig(doc, rows, rest), Tangle(extra),
           extra = {} => SameIds(doc.index, rows) /\ Positions(doc.index, rows) = {}
    PROVE  Changed(doc')
<1>1. Sound(doc', changes + 1)
  BY SetConfigSound
<1>2. ASSUME tangled' = {}
      PROVE  tangled = {} /\ KeepsNeat(doc, doc')
  <2>1. tangled = {} /\ extra = {} /\ ~HasDuplicates(doc'.index)
    BY <1>2 DEF Tangle
  <2>2. KeepsNeat(doc, SetConfig(doc, rows, rest))
    BY <2>1, NothingRenamedKeepsNeat
  <2>3. QED
    BY <2>1, <2>2
<1>3. QED
  BY <1>1, <1>2 DEF Changed

LEMMA MoveRowChanges ==
    ASSUME Sound(doc, changes), changes \in Nat,
           NEW k \in DOMAIN doc.index, NEW path \in Paths, MoveRow(k, path)
    PROVE  Changed(doc')
<1> DEFINE rows == [doc.index EXCEPT ![k].path = path]
<1>1. doc' = SetConfig(doc, rows, doc.rest) /\ Tangle({})
  BY DEF MoveRow, Record
<1>2. Proposed(rows) /\ SameIds(doc.index, rows) /\ Positions(doc.index, rows) = {}
  BY MovedRows
<1>3. doc.rest \in Nat
  BY RowsOf
<1> HIDE DEF rows
<1>4. QED
  BY <1>1, <1>2, <1>3, TableChanges

LEMMA SetRestChanges ==
    ASSUME Sound(doc, changes), changes \in Nat, SetRest
    PROVE  Changed(doc')
<1>1. doc' = SetConfig(doc, doc.index, changes + 1) /\ Tangle({}) /\ changes + 1 \in Nat
  BY DEF SetRest, Record
<1>2. Proposed(doc.index) /\ SameIds(doc.index, doc.index) /\ Positions(doc.index, doc.index) = {}
  BY RowsOf DEF SameIds, Positions
<1>3. QED
  BY <1>1, <1>2, TableChanges

LEMMA AddRowChanges ==
    ASSUME Sound(doc, changes), changes \in Nat, AddRow
    PROVE  Changed(doc')
<1> DEFINE r == [id |-> 0, name |-> NewIndex, path |-> NewIndex]
           rows == Append(doc.index, r)
<1>1. doc' = SetConfig(doc, rows, doc.rest) /\ Tangle({})
  BY DEF AddRow, Record
<1>2. r \in Row /\ r.id = 0
  BY StoreAssumption DEF Row, Paths
<1> HIDE DEF r
<1>3. Proposed(rows) /\ SameIds(doc.index, rows) /\ Positions(doc.index, rows) = {}
  BY <1>2, AddedRows
<1>4. doc.rest \in Nat
  BY RowsOf
<1> HIDE DEF rows
<1>5. QED
  BY <1>1, <1>3, <1>4, TableChanges

LEMMA RemoveRowChanges ==
    ASSUME Sound(doc, changes), changes \in Nat, NEW k \in DOMAIN doc.index, RemoveRow(k)
    PROVE  Changed(doc')
<1> DEFINE rows == RemoveAt(doc.index, k)
           extra == IF k < Len(doc.index) THEN {"shift"} ELSE {}
<1>1. doc' = SetConfig(doc, rows, doc.rest) /\ Tangle(extra)
  BY DEF RemoveRow, Record
<1>2. /\ Proposed(rows)
      /\ k = Len(doc.index) => SameIds(doc.index, rows) /\ Positions(doc.index, rows) = {}
  BY RemovedRows
<1>3. extra = {} => k = Len(doc.index)
  <2>1. k \in 1 .. Len(doc.index) /\ Len(doc.index) \in Nat
    BY RowsOf
  <2>2. QED
    BY <2>1
<1>4. doc.rest \in Nat
  BY RowsOf
<1> HIDE DEF rows, extra
<1>5. QED
  BY <1>1, <1>2, <1>3, <1>4, TableChanges

LEMMA FreshRow ==
    ASSUME changes \in Nat, NEW name \in Names, NEW path \in Paths
    PROVE  /\ newId \in Nat
           /\ [id |-> newId, name |-> name, path |-> path] \in Row
BY StoreAssumption DEF newId, Row

(* A row with an id of its own and perhaps a schema.                        *)
LEMMA CreateIndexChanges ==
    ASSUME Sound(doc, changes), changes \in Nat,
           NEW name \in Names, NEW path \in Paths, CreateIndex(name, path)
    PROVE  Changed(doc')
<1> DEFINE r == [id |-> newId, name |-> name, path |-> path]
           v == [rev |-> changes + 1, of |-> newId]
           rows == Append(doc.index, r)
           t == PutKey(doc.schemas, name, v)
<1>1. doc' = [doc EXCEPT !.index = rows, !.schemas = t] /\ Tangle({})
  BY DEF CreateIndex, Record
<1>2. doc.index \in Seq(Row) /\ doc.rest \in Nat /\ doc.schemas \in Tables /\ doc \in Document
  BY RowsOf
<1>3. r \in Row /\ r.id = newId /\ r.name = name /\ v \in Schema /\ v.of = newId
  BY FreshRow DEF Schema
<1> HIDE DEF r, v
<1>4. t \in Tables
  <2> DEFINE u == doc.schemas
  <2>1. u \in Tables
    BY <1>2
  <2> HIDE DEF u
  <2>2. PutKey(u, name, v) \in Tables
    BY <1>3, <2>1, PutKeyTable
  <2>3. QED
    BY <2>2 DEF u
<1>5. Inserted(doc.index, rows, Len(doc.index), r) /\ rows \in Seq(Row)
  BY <1>2, <1>3, AppendInserts DEF Inserted
<1>6. t = PutKey(doc.schemas, r.name, v)
  BY <1>3
<1> HIDE DEF t, rows
<1>7. doc' = [index |-> rows, rest |-> doc.rest, schemas |-> t]
  BY <1>1, <1>2 DEF Document
<1>8. /\ doc' \in Document
      /\ doc'.index = rows
      /\ doc'.schemas = t
  BY <1>2, <1>4, <1>5, <1>7 DEF Document
<1>9. Len(doc.index) \in 0 .. Len(doc.index)
  BY <1>2
<1>10. Sound(doc', changes + 1) /\ (~HasDuplicates(doc'.index) => KeepsNeat(doc, doc'))
  BY <1>3, <1>5, <1>6, <1>8, <1>9, InsertionKeeps
<1>11. QED
  BY <1>1, <1>10 DEF Changed, Tangle

LEMMA DupIndexChanges ==
    ASSUME Sound(doc, changes), changes \in Nat,
           NEW k \in DOMAIN doc.index, NEW name \in Names, DupIndex(k, name)
    PROVE  Changed(doc')
<1> DEFINE r == [id |-> newId, name |-> name, path |-> name]
           src == doc.index[k]
           v == [doc.schemas[src.name] EXCEPT !.of = newId]
           rows == InsertAt(doc.index, k + 1, r)
           t == IF src.name \in DOMAIN doc.schemas THEN PutKey(doc.schemas, name, v)
                                                   ELSE doc.schemas
<1>1. doc' = [doc EXCEPT !.index = rows, !.schemas = t] /\ Tangle({})
  BY DEF DupIndex, Record
<1>2. doc.index \in Seq(Row) /\ doc.rest \in Nat /\ doc.schemas \in Tables /\ doc \in Document
  BY RowsOf
<1>3. r \in Row /\ r.id = newId /\ r.name = name
  <2>1. name \in Paths
    BY DEF Paths
  <2>2. QED
    BY <2>1, FreshRow
<1>4. src.name \in DOMAIN doc.schemas => v \in Schema /\ v.of = newId
  <2>1. SUFFICES ASSUME src.name \in DOMAIN doc.schemas
                 PROVE  v \in Schema /\ v.of = newId
    OBVIOUS
  <2>2. doc.schemas[src.name] \in Schema
    BY <1>2, <2>1, TableForm
  <2>3. newId \in Nat
    BY <1>3 DEF Row
  <2>4. v = [rev |-> doc.schemas[src.name].rev, of |-> newId]
    BY <2>2 DEF Schema
  <2> HIDE DEF v
  <2>5. QED
    BY <2>2, <2>3, <2>4 DEF Schema
<1> HIDE DEF r, v
<1>5. t \in Tables
  <2>1. CASE src.name \in DOMAIN doc.schemas
    <3> DEFINE u == doc.schemas
    <3>1. u \in Tables /\ v \in Schema /\ t = PutKey(u, name, v)
      BY <1>2, <1>4, <2>1
    <3> HIDE DEF u, t
    <3>2. QED
      BY <3>1, PutKeyTable
  <2>2. CASE src.name \notin DOMAIN doc.schemas
    BY <1>2, <2>2
  <2>3. QED
    BY <2>1, <2>2
<1>6. Inserted(doc.index, rows, k, r) /\ rows \in Seq(Row)
  BY <1>2, <1>3, InsertAtInserts DEF Inserted
<1>7. \/ t = doc.schemas
      \/ v \in Schema /\ v.of = newId /\ t = PutKey(doc.schemas, r.name, v)
  BY <1>3, <1>4
<1> HIDE DEF t, rows
<1>8. doc' = [index |-> rows, rest |-> doc.rest, schemas |-> t]
  BY <1>1, <1>2 DEF Document
<1>9. /\ doc' \in Document
      /\ doc'.index = rows
      /\ doc'.schemas = t
  BY <1>2, <1>5, <1>6, <1>8 DEF Document
<1>10. k \in 0 .. Len(doc.index)
  BY <1>2
<1>11. Sound(doc', changes + 1) /\ (~HasDuplicates(doc'.index) => KeepsNeat(doc, doc'))
  BY <1>3, <1>6, <1>7, <1>9, <1>10, InsertionKeeps
<1>12. QED
  BY <1>1, <1>11 DEF Changed, Tangle

-----------------------------------------------------------------------------
(* The undo history.                                                        *)

History ==
    /\ past \in Seq(Document)
    /\ future \in Seq(Document)
    /\ Len(past) + Len(future) <= HistoryLimit
Known == {doc, saved} \cup ToSet(past) \cup ToSet(future)

LEMMA TailParts ==
    ASSUME NEW T, NEW s \in Seq(T), s # <<>>
    PROVE  /\ Tail(s) \in Seq(T)
           /\ Len(Tail(s)) = Len(s) - 1
           /\ ToSet(Tail(s)) \subseteq ToSet(s)
<1>1. Tail(s) \in Seq(T) /\ Len(Tail(s)) = Len(s) - 1
      /\ \A i \in 1 .. (Len(s) - 1) : Tail(s)[i] = s[i + 1]
  OBVIOUS
<1>2. \A i \in DOMAIN Tail(s) : i + 1 \in DOMAIN s /\ Tail(s)[i] = s[i + 1]
  BY <1>1
<1>3. QED
  BY <1>1, <1>2 DEF ToSet

LEMMA FrontParts ==
    ASSUME NEW T, NEW s \in Seq(T), s # <<>>
    PROVE  /\ Front(s) \in Seq(T)
           /\ Len(Front(s)) = Len(s) - 1
           /\ ToSet(Front(s)) \subseteq ToSet(s)
           /\ Last(s) \in ToSet(s)
           /\ Last(s) \in T
<1>1. Len(s) \in Nat \ {0} /\ DOMAIN s = 1 .. Len(s)
  OBVIOUS
<1>2. /\ Front(s) \in Seq(T)
      /\ Len(Front(s)) = Len(s) - 1
      /\ \A i \in 1 .. (Len(s) - 1) : Front(s)[i] = s[i]
  BY <1>1 DEF Front
<1>3. \A i \in DOMAIN Front(s) : i \in DOMAIN s /\ Front(s)[i] = s[i]
  BY <1>1, <1>2
<1>4. Last(s) = s[Len(s)] /\ Len(s) \in DOMAIN s
  BY <1>1 DEF Last
<1>5. QED
  BY <1>2, <1>3, <1>4 DEF ToSet

LEMMA AppendParts ==
    ASSUME NEW T, NEW s \in Seq(T), NEW x \in T
    PROVE  /\ Append(s, x) \in Seq(T)
           /\ Len(Append(s, x)) = Len(s) + 1
           /\ ToSet(Append(s, x)) = ToSet(s) \cup {x}
<1>1. /\ Append(s, x) \in Seq(T)
      /\ Len(Append(s, x)) = Len(s) + 1
      /\ \A i \in 1 .. Len(s) : Append(s, x)[i] = s[i]
      /\ Append(s, x)[Len(s) + 1] = x
  OBVIOUS
<1>2. DOMAIN Append(s, x) = DOMAIN s \cup {Len(s) + 1}
  OBVIOUS
<1>3. QED
  BY <1>1, <1>2 DEF ToSet

(* What every step of the store does to the documents it holds.             *)
StoreMoves ==
    /\ changes' \in {changes, changes + 1}
    /\ History'
    /\ active' \in Names \cup {Config}
    /\ ToSet(past') \cup ToSet(future') \subseteq Known
    /\ \/ doc' \in Known /\ (tangled' = {} => tangled = {})
       \/ changes' = changes + 1 /\ Changed(doc')

LEMMA RecordMoves ==
    ASSUME NEW d \in Document, doc \in Document, History, changes \in Nat, Record(d)
    PROVE  /\ changes' = changes + 1
           /\ doc' = d
           /\ History'
           /\ ToSet(past') \cup ToSet(future') \subseteq Known
<1> DEFINE kept == IF Len(past) = HistoryLimit THEN Tail(past) ELSE past
<1>1. past \in Seq(Document) /\ Len(past) \in Nat /\ Len(future) \in Nat
      /\ HistoryLimit \in Nat \ {0} /\ Len(past) + Len(future) <= HistoryLimit
  BY StoreAssumption DEF History
<1>2. /\ kept \in Seq(Document)
      /\ Len(kept) + 1 <= HistoryLimit
      /\ ToSet(kept) \subseteq ToSet(past)
  <2>1. CASE Len(past) = HistoryLimit
    <3>1. past # <<>>
      BY <1>1, <2>1
    <3>2. /\ Tail(past) \in Seq(Document)
          /\ Len(Tail(past)) = Len(past) - 1
          /\ ToSet(Tail(past)) \subseteq ToSet(past)
      BY <1>1, <3>1, TailParts
    <3>3. QED
      BY <1>1, <2>1, <3>2
  <2>2. CASE Len(past) # HistoryLimit
    BY <1>1, <2>2
  <2>3. QED
    BY <2>1, <2>2
<1>3. past' = Append(kept, doc) /\ future' = <<>> /\ doc' = d /\ changes' = changes + 1
  BY DEF Record
<1> HIDE DEF kept
<1>4. /\ past' \in Seq(Document)
      /\ Len(past') = Len(kept) + 1
      /\ ToSet(past') = ToSet(kept) \cup {doc}
  BY <1>2, <1>3, AppendParts
<1>5. future' \in Seq(Document) /\ Len(future') = 0 /\ ToSet(future') = {}
  BY <1>3 DEF ToSet
<1>6. History'
  BY <1>1, <1>2, <1>4, <1>5 DEF History
<1>7. QED
  BY <1>2, <1>3, <1>4, <1>5, <1>6 DEF Known

LEMMA EditMoves ==
    ASSUME Sound(doc, changes), changes \in Nat, History, active \in Names \cup {Config}, Edit
    PROVE  StoreMoves
<1>1. doc \in Document /\ doc \in Known
  BY DEF Sound, Known
<1>2. ASSUME Changed(doc'), NEW d, Record(d), active' \in Names \cup {Config}
      PROVE  StoreMoves
  <2>1. doc' = d /\ d \in Document
    BY <1>2 DEF Record, Changed, Sound
  <2>2. QED
    BY <1>1, <1>2, <2>1, RecordMoves DEF StoreMoves
<1>3. ASSUME UNCHANGED <<doc, past, future, changes, tangled>>, active' \in Names \cup {Config}
      PROVE  StoreMoves
  BY <1>1, <1>3 DEF StoreMoves, History, Known
<1>4. CASE Apply
  BY <1>2, <1>4, ApplyChanges DEF Apply
<1>5. ASSUME NEW k \in DOMAIN doc.index, NEW n \in Names, RenameRow(k, n)
      PROVE  StoreMoves
  BY <1>2, <1>5, RenameRowChanges DEF RenameRow
<1>6. ASSUME NEW k \in DOMAIN doc.index, NEW p \in Paths, MoveRow(k, p)
      PROVE  StoreMoves
  BY <1>2, <1>6, MoveRowChanges DEF MoveRow
<1>7. CASE SetRest
  BY <1>2, <1>7, SetRestChanges DEF SetRest
<1>8. CASE AddRow
  BY <1>2, <1>8, AddRowChanges DEF AddRow
<1>9. ASSUME NEW k \in DOMAIN doc.index, RemoveRow(k)
      PROVE  StoreMoves
  BY <1>2, <1>9, RemoveRowChanges DEF RemoveRow
<1>10. ASSUME NEW n \in Names, NEW p \in {n} \cup CustomPaths, CreateIndex(n, p)
       PROVE  StoreMoves
  <2>1. p \in Paths
    BY DEF Paths
  <2>2. QED
    BY <1>2, <1>10, <2>1, CreateIndexChanges DEF CreateIndex
<1>11. ASSUME NEW k \in DOMAIN doc.index, NEW n \in Names, DupIndex(k, n)
       PROVE  StoreMoves
  BY <1>2, <1>11, DupIndexChanges DEF DupIndex
<1>12. ASSUME NEW n \in Names, OpenIndex(n)
       PROVE  StoreMoves
  BY <1>3, <1>12 DEF OpenIndex
<1>13. CASE OpenDeployment
  BY <1>3, <1>13 DEF OpenDeployment
<1>14. QED
  BY <1>4, <1>5, <1>6, <1>7, <1>8, <1>9, <1>10, <1>11, <1>12, <1>13 DEF Edit

LEMMA UndoMoves ==
    ASSUME doc \in Document, changes \in Nat, History, active \in Names \cup {Config}, Undo \/ Redo
    PROVE  StoreMoves
<1>1. past \in Seq(Document) /\ future \in Seq(Document)
      /\ Len(past) \in Nat /\ Len(future) \in Nat /\ HistoryLimit \in Nat
      /\ Len(past) + Len(future) <= HistoryLimit
  BY StoreAssumption DEF History
<1>2. CASE Undo
  <2>1. /\ past # <<>> /\ doc' = Last(past) /\ past' = Front(past)
        /\ future' = Append(future, doc)
        /\ active' = active /\ changes' = changes /\ tangled' = tangled
    BY <1>2 DEF Undo
  <2>2. /\ past' \in Seq(Document) /\ Len(past') = Len(past) - 1
        /\ ToSet(past') \subseteq ToSet(past) /\ doc' \in ToSet(past)
    BY <1>1, <2>1, FrontParts
  <2>3. /\ future' \in Seq(Document) /\ Len(future') = Len(future) + 1
        /\ ToSet(future') = ToSet(future) \cup {doc}
    BY <1>1, <2>1, AppendParts
  <2>4. History'
    BY <1>1, <2>2, <2>3 DEF History
  <2>5. QED
    BY <2>1, <2>2, <2>3, <2>4 DEF StoreMoves, Known
<1>3. CASE Redo
  <2>1. /\ future # <<>> /\ doc' = Last(future) /\ future' = Front(future)
        /\ past' = Append(past, doc)
        /\ active' = active /\ changes' = changes /\ tangled' = tangled
    BY <1>3 DEF Redo
  <2>2. /\ future' \in Seq(Document) /\ Len(future') = Len(future) - 1
        /\ ToSet(future') \subseteq ToSet(future) /\ doc' \in ToSet(future)
    BY <1>1, <2>1, FrontParts
  <2>3. /\ past' \in Seq(Document) /\ Len(past') = Len(past) + 1
        /\ ToSet(past') = ToSet(past) \cup {doc}
    BY <1>1, <2>1, AppendParts
  <2>4. History'
    BY <1>1, <2>2, <2>3 DEF History
  <2>5. QED
    BY <2>1, <2>2, <2>3, <2>4 DEF StoreMoves, Known
<1>4. QED
  BY <1>2, <1>3

LEMMA ResetMoves ==
    ASSUME doc \in Document, saved \in Document, changes \in Nat, History,
           active \in Names \cup {Config}, RevertTo(saved)
    PROVE  StoreMoves
<1>1. Record(saved) /\ tangled' = tangled
  BY DEF RevertTo
<1>2. /\ changes' = changes + 1 /\ doc' = saved /\ History'
      /\ ToSet(past') \cup ToSet(future') \subseteq Known
  BY <1>1, RecordMoves
<1>3. active' \in Names \cup {Config}
  <2>1. saved.index \in Seq(Row)
    BY DEF Document
  <2>2. saved.index # <<>> => saved.index[1] \in Row
    BY <2>1
  <2>3. saved.index # <<>> => saved.index[1].name \in Names
    BY <2>2 DEF Row
  <2>4. QED
    BY <2>3 DEF RevertTo
<1>4. QED
  BY <1>1, <1>2, <1>3 DEF StoreMoves, Known

-----------------------------------------------------------------------------
(* The operations of a request: each belongs to a row of the document it is *)
(* sent with or to a saved row that this one does not have, and a row       *)
(* without one reads like the saved row with its id.                        *)

Op == [kind : {"upsert", "move", "delete"}, path : Paths, from : Paths, rev : Int, name : Names]
RowOp(d, r, o) ==
    /\ o.kind # "delete"
    /\ r.name \in DOMAIN d.schemas
    /\ o.name = r.name
    /\ o.path = r.path
    /\ o.rev = d.schemas[r.name].rev
    /\ o.kind = "move" => /\ o.from # o.path
                          /\ \E j \in DOMAIN saved.index : /\ saved.index[j].id = r.id
                                                           /\ saved.index[j].path = o.from
    /\ \/ o.kind = "move"
       \/ \A j \in DOMAIN saved.index : saved.index[j].id # r.id
       \/ indexDirty(d, r.name)
DeleteOp(d, o) ==
    /\ o.kind = "delete"
    /\ \E j \in DOMAIN saved.index :
           /\ o.path = saved.index[j].path
           /\ o.name = saved.index[j].name
           /\ \A i \in DOMAIN d.index : d.index[i].id # saved.index[j].id
Unchanged(d, r) ==
    /\ ~indexDirty(d, r.name)
    /\ \E j \in DOMAIN saved.index : /\ saved.index[j].id = r.id
                                     /\ saved.index[j].path = r.path
OpsFit(d, ops) ==
    /\ ops \in Seq(Op)
    /\ \A o \in ToSet(ops) : DeleteOp(d, o) \/ \E i \in DOMAIN d.index : RowOp(d, d.index[i], o)
    /\ \A i \in DOMAIN d.index :
           d.index[i].name \in DOMAIN d.schemas =>
               \/ \E o \in ToSet(ops) : RowOp(d, d.index[i], o)
               \/ Unchanged(d, d.index[i])
    /\ \A j \in DOMAIN saved.index :
           (\A i \in DOMAIN d.index : d.index[i].id # saved.index[j].id) =>
               \E o \in ToSet(ops) : o.kind = "delete" /\ o.path = saved.index[j].path

LEMMA WasRow ==
    ASSUME saved \in Document, NEW id
    PROVE  \/ Was(id) = 0 /\ \A j \in DOMAIN saved.index : saved.index[j].id # id
           \/ Was(id) # 0 /\ Was(id) \in DOMAIN saved.index /\ saved.index[Was(id)].id = id
<1> DEFINE I == {j \in 1 .. Len(saved.index) : saved.index[j].id = id}
<1>1. DOMAIN saved.index = 1 .. Len(saved.index) /\ Len(saved.index) \in Nat
  BY DEF Document
<1>2. Was(id) = IF I # {} THEN Min(I) ELSE 0
  BY DEF Was, SelectInSeq
<1>3. I \subseteq Nat
  OBVIOUS
<1>4. CASE I = {}
  BY <1>1, <1>2, <1>4
<1>5. CASE I # {}
  <2>1. Min(I) \in I
    <3> HIDE DEF I
    <3>1. QED
      BY <1>3, <1>5, MinProperties
  <2>2. QED
    BY <1>1, <1>2, <1>5, <2>1
<1>6. QED
  BY <1>4, <1>5

LEMMA NoneOrOne ==
    ASSUME NEW T
    PROVE  /\ <<>> \in Seq(T) /\ ToSet(<<>>) = {}
           /\ \A e \in T : <<e>> \in Seq(T) /\ ToSet(<<e>>) = {e}
<1>1. <<>> \in Seq(T) /\ ToSet(<<>>) = {}
  BY DEF ToSet
<1>2. ASSUME NEW e \in T
      PROVE  <<e>> \in Seq(T) /\ ToSet(<<e>>) = {e}
  <2>1. <<e>> \in Seq(T) /\ DOMAIN <<e>> = {1} /\ <<e>>[1] = e
    OBVIOUS
  <2>2. QED
    BY <2>1 DEF ToSet
<1>3. QED
  BY <1>1, <1>2

LEMMA BuildOpsFit ==
    doc \in Document /\ saved \in Document => OpsFit(doc, buildOps)
<1> SUFFICES ASSUME doc \in Document, saved \in Document
             PROVE  OpsFit(doc, buildOps)
  OBVIOUS
<1> DEFINE Moved(r) == [Upsert(r) EXCEPT !.kind = "move", !.from = saved.index[Was(r.id)].path]
           OpsOf(r) ==
               IF r.name \notin DOMAIN doc.schemas THEN <<>>
               ELSE IF Was(r.id) = 0 THEN <<Upsert(r)>>
               ELSE IF saved.index[Was(r.id)].path # r.path THEN <<Moved(r)>>
               ELSE IF indexDirty(doc, r.name) THEN <<Upsert(r)>>
               ELSE <<>>
           Deletes(r) == [kind |-> "delete", path |-> r.path, from |-> r.path, rev |-> -1,
                          name |-> r.name]
           Gone(r) == IF \E i \in DOMAIN doc.index : doc.index[i].id = r.id THEN <<>>
                      ELSE <<Deletes(r)>>
           A == [i \in DOMAIN doc.index |-> OpsOf(doc.index[i])]
           B == [i \in DOMAIN saved.index |-> Gone(saved.index[i])]
<1>1. buildOps = FlattenSeq(A) \o FlattenSeq(B)
  BY DEF buildOps
<1>2. /\ DOMAIN doc.index = 1 .. Len(doc.index) /\ Len(doc.index) \in Nat
      /\ DOMAIN saved.index = 1 .. Len(saved.index) /\ Len(saved.index) \in Nat
      /\ \A i \in DOMAIN doc.index : doc.index[i] \in Row
      /\ \A i \in DOMAIN saved.index : saved.index[i] \in Row
      /\ doc.schemas \in Tables
  BY DEF Document
<1>3. ASSUME NEW i \in DOMAIN doc.index
      PROVE  /\ OpsOf(doc.index[i]) \in Seq(Op)
             /\ \A o \in ToSet(OpsOf(doc.index[i])) : RowOp(doc, doc.index[i], o)
             /\ doc.index[i].name \in DOMAIN doc.schemas =>
                    \/ ToSet(OpsOf(doc.index[i])) # {}
                    \/ Unchanged(doc, doc.index[i])
  <2> DEFINE r == doc.index[i]
  <2>1. r \in Row
    BY <1>2
  <2>2. CASE r.name \notin DOMAIN doc.schemas
    BY <2>2, NoneOrOne
  <2>3. CASE r.name \in DOMAIN doc.schemas
    <3>1. doc.schemas[r.name] \in Schema
      BY <1>2, <2>3, TableForm
    <3>2. RevAt(doc, r.name) = doc.schemas[r.name].rev /\ RevAt(doc, r.name) \in Nat
      BY <2>3, <3>1 DEF RevAt, Schema
    <3>3. /\ Upsert(r) \in Op
          /\ Was(r.id) = 0 \/ indexDirty(doc, r.name) => RowOp(doc, r, Upsert(r))
      <4> HIDE DEF r
      <4>1. Upsert(r) = [kind |-> "upsert", path |-> r.path, from |-> r.path,
                         rev |-> RevAt(doc, r.name), name |-> r.name]
        BY DEF Upsert
      <4>2. Upsert(r) \in Op
        BY <2>1, <3>2, <4>1 DEF Op, Row
      <4>3. Was(r.id) = 0 => \A j \in DOMAIN saved.index : saved.index[j].id # r.id
        BY WasRow
      <4>4. QED
        BY <2>3, <3>2, <4>1, <4>2, <4>3 DEF RowOp
    <3>4. <<Upsert(r)>> \in Seq(Op) /\ ToSet(<<Upsert(r)>>) = {Upsert(r)}
      BY <3>3, NoneOrOne
    <3>5. CASE Was(r.id) = 0
      BY <2>3, <3>3, <3>4, <3>5
    <3>6. CASE Was(r.id) # 0
      <4> DEFINE w == saved.index[Was(r.id)]
      <4>1. Was(r.id) \in DOMAIN saved.index /\ w.id = r.id /\ w \in Row
        BY <1>2, <3>6, WasRow
      <4>2. CASE w.path # r.path
        <5>1. Moved(r) \in Op /\ RowOp(doc, r, Moved(r))
          <6> DEFINE m == Moved(r)
          <6>1. m = [kind |-> "move", path |-> r.path, from |-> w.path,
                     rev |-> RevAt(doc, r.name), name |-> r.name]
            <7> DEFINE u == Upsert(r)
                       from == w.path
            <7>1. m = [u EXCEPT !.kind = "move", !.from = from]
              OBVIOUS
            <7>2. u = [kind |-> "upsert", path |-> r.path, from |-> r.path,
                       rev |-> RevAt(doc, r.name), name |-> r.name]
              BY DEF Upsert
            <7> HIDE DEF r, u, from, m
            <7>3. m = [kind |-> "move", path |-> r.path, from |-> from,
                       rev |-> RevAt(doc, r.name), name |-> r.name]
              BY <7>1, <7>2
            <7>4. QED
              BY <7>3 DEF from
          <6>2. \E j \in DOMAIN saved.index : /\ saved.index[j].id = r.id
                                              /\ saved.index[j].path = w.path
            BY <4>1
          <6> HIDE DEF r, w, m
          <6>3. m \in Op
            BY <2>1, <3>2, <4>1, <6>1 DEF Op, Row
          <6>4. RowOp(doc, r, m)
            BY <2>3, <3>2, <4>2, <6>1, <6>2 DEF RowOp
          <6>5. QED
            BY <6>3, <6>4 DEF m
        <5>2. OpsOf(r) = <<Moved(r)>>
          BY <2>3, <3>6, <4>2
        <5> HIDE DEF Moved, OpsOf
        <5>3. OpsOf(r) \in Seq(Op) /\ ToSet(OpsOf(r)) = {Moved(r)}
          BY <5>1, <5>2, NoneOrOne
        <5>4. QED
          BY <5>1, <5>3
      <4>3. CASE w.path = r.path /\ indexDirty(doc, r.name)
        <5>1. OpsOf(r) = <<Upsert(r)>>
          BY <2>3, <3>6, <4>3
        <5> HIDE DEF OpsOf
        <5>2. QED
          BY <3>3, <3>4, <4>3, <5>1
      <4>4. CASE w.path = r.path /\ ~indexDirty(doc, r.name)
        <5>1. OpsOf(r) = <<>>
          BY <2>3, <3>6, <4>4
        <5>2. Unchanged(doc, r)
          BY <4>1, <4>4 DEF Unchanged
        <5> HIDE DEF OpsOf
        <5>3. QED
          BY <5>1, <5>2, NoneOrOne
      <4>5. QED
        BY <4>2, <4>3, <4>4
    <3>7. QED
      BY <3>5, <3>6
  <2>4. QED
    BY <2>2, <2>3
<1>4. ASSUME NEW i \in DOMAIN saved.index
      PROVE  /\ Gone(saved.index[i]) \in Seq(Op)
             /\ \A o \in ToSet(Gone(saved.index[i])) : DeleteOp(doc, o)
             /\ (\A k \in DOMAIN doc.index : doc.index[k].id # saved.index[i].id) =>
                    \E o \in ToSet(Gone(saved.index[i])) :
                        o.kind = "delete" /\ o.path = saved.index[i].path
  <2> DEFINE r == saved.index[i]
  <2>1. r \in Row
    BY <1>2
  <2>2. CASE \E k \in DOMAIN doc.index : doc.index[k].id = r.id
    <3>1. Gone(r) = <<>>
      BY <2>2
    <3> HIDE DEF Gone
    <3>2. QED
      BY <2>2, <3>1, NoneOrOne
  <2>3. CASE ~ \E k \in DOMAIN doc.index : doc.index[k].id = r.id
    <3>1. Gone(r) = <<Deletes(r)>>
      BY <2>3
    <3>2. Deletes(r) \in Op
      <4> HIDE DEF r
      <4>1. QED
        BY <2>1 DEF Op, Row
    <3>3. /\ DeleteOp(doc, Deletes(r))
          /\ Deletes(r).kind = "delete" /\ Deletes(r).path = r.path
      BY <2>3 DEF DeleteOp
    <3> HIDE DEF Gone, Deletes
    <3>4. Gone(r) \in Seq(Op) /\ ToSet(Gone(r)) = {Deletes(r)}
      BY <3>1, <3>2, NoneOrOne
    <3>5. QED
      BY <3>3, <3>4
  <2>4. QED
    BY <2>2, <2>3
<1> HIDE DEF OpsOf, Gone
<1>5. /\ A \in Seq(Seq(Op)) /\ DOMAIN A = DOMAIN doc.index
      /\ \A i \in DOMAIN A : A[i] = OpsOf(doc.index[i])
  BY <1>2, <1>3
<1>6. /\ B \in Seq(Seq(Op)) /\ DOMAIN B = DOMAIN saved.index
      /\ \A i \in DOMAIN B : B[i] = Gone(saved.index[i])
  BY <1>2, <1>4
<1> HIDE DEF A, B
<1>7. /\ FlattenSeq(A) \in Seq(Op)
      /\ ToSet(FlattenSeq(A)) = UNION {ToSet(A[i]) : i \in DOMAIN A}
  BY <1>5, FlattenParts
<1>8. /\ FlattenSeq(B) \in Seq(Op)
      /\ ToSet(FlattenSeq(B)) = UNION {ToSet(B[i]) : i \in DOMAIN B}
  BY <1>6, FlattenParts
<1>9. buildOps \in Seq(Op) /\ ToSet(buildOps) = ToSet(FlattenSeq(A)) \cup ToSet(FlattenSeq(B))
  <2> DEFINE s == FlattenSeq(A)
             t == FlattenSeq(B)
  <2>1. s \in Seq(Op) /\ t \in Seq(Op) /\ buildOps = s \o t
    BY <1>1, <1>7, <1>8
  <2> HIDE DEF s, t
  <2>2. s \o t \in Seq(Op) /\ ToSet(s \o t) = ToSet(s) \cup ToSet(t)
    BY <2>1, ConcatSet
  <2>3. QED
    BY <2>1, <2>2 DEF s, t
<1>10. ASSUME NEW o \in ToSet(buildOps)
       PROVE  DeleteOp(doc, o) \/ \E i \in DOMAIN doc.index : RowOp(doc, doc.index[i], o)
  <2>1. CASE o \in ToSet(FlattenSeq(A))
    <3>1. PICK i \in DOMAIN A : o \in ToSet(A[i])
      BY <1>7, <2>1
    <3>2. QED
      BY <1>3, <1>5, <3>1
  <2>2. CASE o \in ToSet(FlattenSeq(B))
    <3>1. PICK i \in DOMAIN B : o \in ToSet(B[i])
      BY <1>8, <2>2
    <3>2. QED
      BY <1>4, <1>6, <3>1
  <2>3. QED
    BY <1>9, <2>1, <2>2
<1>11. ASSUME NEW i \in DOMAIN doc.index, doc.index[i].name \in DOMAIN doc.schemas,
              ~Unchanged(doc, doc.index[i])
       PROVE  \E o \in ToSet(buildOps) : RowOp(doc, doc.index[i], o)
  <2>1. PICK o \in ToSet(OpsOf(doc.index[i])) : RowOp(doc, doc.index[i], o)
    BY <1>3, <1>11
  <2>2. o \in ToSet(buildOps)
    BY <1>5, <1>7, <1>9, <2>1
  <2>3. QED
    BY <2>1, <2>2
<1>12. ASSUME NEW j \in DOMAIN saved.index,
              \A i \in DOMAIN doc.index : doc.index[i].id # saved.index[j].id
       PROVE  \E o \in ToSet(buildOps) : o.kind = "delete" /\ o.path = saved.index[j].path
  <2>1. PICK o \in ToSet(Gone(saved.index[j])) : o.kind = "delete" /\ o.path = saved.index[j].path
    BY <1>4, <1>12
  <2>2. o \in ToSet(buildOps)
    BY <1>6, <1>8, <1>9, <2>1
  <2>3. QED
    BY <2>1, <2>2
<1>13. QED
  BY <1>9, <1>10, <1>11, <1>12 DEF OpsFit

-----------------------------------------------------------------------------
(* The plan of a request against the disk, and its application.             *)

DiskOK ==
    /\ DOMAIN disk.files \subseteq Paths
    /\ \A p \in DOMAIN disk.files : disk.files[p] \in Nat
Entry == [op : {"write", "delete", "move"}, path : Paths \cup {ConfigPath},
          from : Paths \cup {ConfigPath}, rev : Int, changed : BOOLEAN]

(* What an operation becomes: a delete of a file that exists, a move of one *)
(* that does, or a write, which says whether the file differs.              *)
ResolvesTo(o, e) ==
    /\ e.path = o.path
    /\ e.rev = o.rev
    /\ e.op = "delete" <=> o.kind = "delete"
    /\ e.op = "move" => o.kind = "move" /\ e.from = o.from
    /\ e.op # "move" => e.from = e.path
    /\ ~e.changed => FileRev(o.path) = o.rev

LEMMA ResolveParts ==
    ASSUME NEW o \in Op, DiskOK
    PROVE  /\ Resolve(o) \in Seq(Entry)
           /\ \A e \in ToSet(Resolve(o)) : ResolvesTo(o, e)
           /\ o.kind # "delete" => ToSet(Resolve(o)) # {}
<1> DEFINE c == FileRev(o.path) # o.rev
           write == [op |-> "write", path |-> o.path, from |-> o.path, rev |-> o.rev, changed |-> c]
           delete == [op |-> "delete", path |-> o.path, from |-> o.path, rev |-> o.rev,
                      changed |-> TRUE]
           move == [op |-> "move", path |-> o.path, from |-> o.from, rev |-> o.rev,
                    changed |-> TRUE]
<1>1. /\ o.kind \in {"upsert", "move", "delete"} /\ o.path \in Paths /\ o.from \in Paths
      /\ o.rev \in Int
  BY DEF Op
<1>2. write \in Entry /\ delete \in Entry /\ move \in Entry
  <2>1. c \in BOOLEAN
    OBVIOUS
  <2> HIDE DEF c
  <2>2. QED
    BY <1>1, <2>1 DEF Entry
<1>3. o.kind # "delete" => ResolvesTo(o, write)
  BY <1>1 DEF ResolvesTo
<1>4. o.kind = "delete" => ResolvesTo(o, delete)
  BY <1>1 DEF ResolvesTo
<1>5. o.kind = "move" => ResolvesTo(o, move)
  BY <1>1 DEF ResolvesTo
<1>6. Resolve(o) = IF o.kind = "delete"
                   THEN (IF o.path \in DOMAIN disk.files THEN <<delete>> ELSE <<>>)
                   ELSE IF o.kind = "move" /\ o.from \in DOMAIN disk.files THEN <<move>>
                   ELSE <<write>>
  <2>1. /\ [write EXCEPT !.op = "delete", !.changed = TRUE] = delete
        /\ [write EXCEPT !.op = "move", !.from = o.from, !.changed = TRUE] = move
    <3> DEFINE w == write
               x == [w EXCEPT !.op = "delete", !.changed = TRUE]
               y == [w EXCEPT !.op = "move", !.from = o.from, !.changed = TRUE]
    <3>1. /\ w = [op |-> "write", path |-> o.path, from |-> o.path, rev |-> o.rev, changed |-> c]
          /\ x = [w EXCEPT !.op = "delete", !.changed = TRUE]
          /\ y = [w EXCEPT !.op = "move", !.from = o.from, !.changed = TRUE]
      OBVIOUS
    <3> HIDE DEF c, w, x, y
    <3>2. x = delete
      BY <3>1
    <3>3. y = move
      BY <3>1
    <3>4. QED
      BY <3>2, <3>3 DEF x, y, w
  <2>2. Resolve(o)
          = CASE o.kind = "delete" ->
                   IF o.path \in DOMAIN disk.files
                   THEN <<[write EXCEPT !.op = "delete", !.changed = TRUE]>> ELSE <<>>
              [] o.kind = "move" /\ o.from \in DOMAIN disk.files ->
                   <<[write EXCEPT !.op = "move", !.from = o.from, !.changed = TRUE]>>
              [] OTHER -> <<write>>
    BY Zenon DEF Resolve
  <2>3. Resolve(o)
          = CASE o.kind = "delete" -> IF o.path \in DOMAIN disk.files THEN <<delete>> ELSE <<>>
              [] o.kind = "move" /\ o.from \in DOMAIN disk.files -> <<move>>
              [] OTHER -> <<write>>
    <3> HIDE DEF delete, move
    <3>1. QED
      BY <2>1, <2>2
  <2> HIDE DEF write, delete, move
  <2>4. QED
    BY <2>3
<1> HIDE DEF write, delete, move
<1>7. CASE Resolve(o) = <<>> /\ o.kind = "delete"
  BY <1>7, NoneOrOne
<1>8. ASSUME NEW e \in Entry, Resolve(o) = <<e>>, ResolvesTo(o, e)
      PROVE  /\ Resolve(o) \in Seq(Entry)
             /\ \A x \in ToSet(Resolve(o)) : ResolvesTo(o, x)
             /\ ToSet(Resolve(o)) # {}
  <2>1. Resolve(o) \in Seq(Entry) /\ ToSet(Resolve(o)) = {e}
    BY <1>8, NoneOrOne
  <2>2. QED
    BY <1>8, <2>1
<1>9. QED
  BY <1>2, <1>3, <1>4, <1>5, <1>6, <1>7, <1>8

(* The plan: first flusso.toml, then what the operations become.            *)
ConfigEntry(d, e) ==
    /\ e.op = "write"
    /\ e.path = ConfigPath
    /\ ~e.changed => disk.config = ConfigOf(d)

LEMMA PlanParts ==
    ASSUME NEW d, NEW ops \in Seq(Op), DiskOK
    PROVE  /\ plan(d, ops) \in Seq(Entry)
           /\ \E e \in ToSet(plan(d, ops)) : ConfigEntry(d, e)
           /\ \A e \in ToSet(plan(d, ops)) :
                  ConfigEntry(d, e) \/ \E o \in ToSet(ops) : ResolvesTo(o, e)
           /\ \A o \in ToSet(ops) :
                  o.kind # "delete" => \E e \in ToSet(plan(d, ops)) : ResolvesTo(o, e)
<1> DEFINE changed == disk.config # ConfigOf(d)
           first == [op |-> "write", path |-> ConfigPath, from |-> ConfigPath, rev |-> -1,
                     changed |-> changed]
           A == [i \in DOMAIN ops |-> Resolve(ops[i])]
           rest == FlattenSeq(A)
           head == <<first>>
<1>1. plan(d, ops) = head \o rest
  BY DEF plan
<1>2. first \in Entry /\ ConfigEntry(d, first)
  <2>1. changed \in BOOLEAN
    OBVIOUS
  <2>2. ConfigEntry(d, first)
    BY DEF ConfigEntry
  <2> HIDE DEF changed
  <2>3. QED
    BY <2>1, <2>2 DEF Entry
<1>3. DOMAIN ops = 1 .. Len(ops) /\ Len(ops) \in Nat /\ \A i \in DOMAIN ops : ops[i] \in Op
  OBVIOUS
<1>4. A \in Seq(Seq(Entry)) /\ DOMAIN A = DOMAIN ops /\ \A i \in DOMAIN ops : A[i] = Resolve(ops[i])
  BY <1>3, ResolveParts
<1> HIDE DEF A, first
<1>5. rest \in Seq(Entry) /\ ToSet(rest) = UNION {ToSet(A[i]) : i \in DOMAIN A}
  BY <1>4, FlattenParts
<1>6. head \in Seq(Entry) /\ ToSet(head) = {first}
  BY <1>2, NoneOrOne
<1> HIDE DEF head, rest
<1>7. head \o rest \in Seq(Entry) /\ ToSet(head \o rest) = ToSet(head) \cup ToSet(rest)
  <2>1. head \in Seq(Entry) /\ rest \in Seq(Entry)
    BY <1>5, <1>6
  <2>2. QED
    BY <2>1, ConcatSet
<1>8. \A e \in ToSet(plan(d, ops)) : e = first \/ \E i \in DOMAIN ops : e \in ToSet(Resolve(ops[i]))
  BY <1>1, <1>4, <1>5, <1>6, <1>7
<1>9. \A i \in DOMAIN ops : \A e \in ToSet(Resolve(ops[i])) : ResolvesTo(ops[i], e)
  BY <1>3, ResolveParts
<1>10. \A i \in DOMAIN ops : ops[i] \in ToSet(ops)
  BY DEF ToSet
<1>11. ASSUME NEW o \in ToSet(ops), o.kind # "delete"
       PROVE  \E e \in ToSet(plan(d, ops)) : ResolvesTo(o, e)
  <2>1. PICK i \in DOMAIN ops : ops[i] = o
    BY DEF ToSet
  <2>2. PICK e \in ToSet(Resolve(o)) : TRUE
    BY <1>3, <1>11, <2>1, ResolveParts
  <2>3. ResolvesTo(o, e)
    BY <1>9, <2>1, <2>2
  <2>4. e \in ToSet(plan(d, ops))
    BY <1>1, <1>4, <1>5, <1>7, <2>1, <2>2
  <2>5. QED
    BY <2>3, <2>4
<1>12. QED
  BY <1>1, <1>2, <1>6, <1>7, <1>8, <1>9, <1>10, <1>11

(* The steps are the entries that differ from the disk and are not skipped. *)
TakenFrom(steps, entries, skip) ==
    /\ steps \in Seq(Entry)
    /\ ToSet(steps) = {e \in ToSet(entries) : e.changed /\ e.path \notin skip}

LEMMA StepsParts ==
    ASSUME NEW d, NEW ops \in Seq(Op), NEW skip, DiskOK
    PROVE  TakenFrom(Steps(d, ops, skip), plan(d, ops), skip)
<1> DEFINE entries == plan(d, ops)
           Taken(e) == IF e.changed /\ e.path \notin skip THEN <<e>> ELSE <<>>
           A == [i \in DOMAIN entries |-> Taken(entries[i])]
<1>1. Steps(d, ops, skip) = FlattenSeq(A)
  BY DEF Steps
<1>2. entries \in Seq(Entry)
  BY PlanParts
<1> HIDE DEF entries
<1>3. DOMAIN entries = 1 .. Len(entries) /\ Len(entries) \in Nat
      /\ \A i \in DOMAIN entries : entries[i] \in Entry
  BY <1>2
<1>4. ASSUME NEW e \in Entry
      PROVE  /\ Taken(e) \in Seq(Entry)
             /\ ToSet(Taken(e)) = {x \in {e} : x.changed /\ x.path \notin skip}
  <2>1. CASE e.changed /\ e.path \notin skip
    <3>1. Taken(e) = <<e>> /\ {x \in {e} : x.changed /\ x.path \notin skip} = {e}
      BY <2>1
    <3> HIDE DEF Taken
    <3>2. QED
      BY <3>1, NoneOrOne
  <2>2. CASE ~(e.changed /\ e.path \notin skip)
    <3>1. Taken(e) = <<>> /\ {x \in {e} : x.changed /\ x.path \notin skip} = {}
      BY <2>2
    <3> HIDE DEF Taken
    <3>2. QED
      BY <3>1, NoneOrOne
  <2>3. QED
    BY <2>1, <2>2
<1> HIDE DEF Taken
<1>5. /\ A \in Seq(Seq(Entry)) /\ DOMAIN A = DOMAIN entries
      /\ \A i \in DOMAIN entries : A[i] = Taken(entries[i])
  BY <1>3, <1>4
<1> HIDE DEF A
<1>6. FlattenSeq(A) \in Seq(Entry) /\ ToSet(FlattenSeq(A)) = UNION {ToSet(A[i]) : i \in DOMAIN A}
  BY <1>5, FlattenParts
<1>7. UNION {ToSet(A[i]) : i \in DOMAIN A}
        = {e \in ToSet(entries) : e.changed /\ e.path \notin skip}
  <2>1. \A x : x \in UNION {ToSet(A[i]) : i \in DOMAIN A}
                 <=> \E i \in DOMAIN entries : x \in ToSet(Taken(entries[i]))
    BY <1>5
  <2>2. \A x : (\E i \in DOMAIN entries : x \in ToSet(Taken(entries[i])))
                 <=> \E i \in DOMAIN entries : x = entries[i] /\ x.changed /\ x.path \notin skip
    BY <1>3, <1>4
  <2>3. \A x : x \in ToSet(entries) <=> \E i \in DOMAIN entries : x = entries[i]
    BY DEF ToSet
  <2>4. QED
    BY <2>1, <2>2, <2>3
<1>8. QED
  BY <1>1, <1>6, <1>7 DEF TakenFrom, entries

(* What a file holds after the renames of the first steps, and after the    *)
(* removals that follow the last.                                           *)
Writes(steps) ==
    /\ steps \in Seq(Entry)
    /\ \A e \in ToSet(steps) : e.op # "delete" /\ e.path # ConfigPath => e.rev \in Nat
Touches(e, p) == e.path = p \/ (e.op = "move" /\ e.from = p)
RevIn(files, p) == IF p \in DOMAIN files THEN files[p] ELSE -1

Committed(c, steps, d, done) ==
    /\ DOMAIN c.files \subseteq Paths
    /\ \A p \in DOMAIN c.files : c.files[p] \in Nat
    /\ c.config \in {disk.config, ConfigOf(d)}
    /\ (\A e \in ToSet(steps) : e.path # ConfigPath) => c.config = disk.config
    /\ done = Len(steps) /\ (\E e \in ToSet(steps) : e.path = ConfigPath)
           => c.config = ConfigOf(d)
    /\ \A p : (\A e \in ToSet(steps) : ~Touches(e, p))
                  => RevIn(c.files, p) = RevIn(disk.files, p)
    /\ \A e \in ToSet(steps) :
           /\ done = Len(steps)
           /\ e.op # "delete" /\ e.path # ConfigPath
           /\ e.op = "move" => e.from # e.path
           /\ \A f \in ToSet(steps) : f # e => ~Touches(f, e.path)
           => RevIn(c.files, e.path) = e.rev

LEMMA CommitParts ==
    ASSUME NEW steps, Writes(steps), NEW d, NEW done \in 0 .. Len(steps),
           NEW removing \in BOOLEAN, DiskOK
    PROVE  Committed(Commit(steps, d, done, removing), steps, d, done)
<1> DEFINE written == {i \in 1 .. done : steps[i].op # "delete" /\ steps[i].path # ConfigPath}
           LastOn(p) == CHOOSE i \in written : steps[i].path = p /\
                            \A j \in written : steps[j].path = p => j <= i
           deleted == {i \in DOMAIN steps : steps[i].op = "delete"}
           moved == {i \in DOMAIN steps : steps[i].op = "move"}
           gone == IF removing THEN {steps[i].path : i \in deleted} \cup {steps[i].from : i \in moved}
                               ELSE {}
           onto == {steps[i].path : i \in written}
           files == [p \in (DOMAIN disk.files \cup onto) \ gone |->
                        IF p \in onto THEN steps[LastOn(p)].rev ELSE disk.files[p]]
           config == IF \E i \in 1 .. done : steps[i].path = ConfigPath
                     THEN ConfigOf(d) ELSE disk.config
           c == Commit(steps, d, done, removing)
<1>1. c = [config |-> config, files |-> files]
  BY DEF Commit
<1>2. /\ steps \in Seq(Entry) /\ DOMAIN steps = 1 .. Len(steps) /\ Len(steps) \in Nat
      /\ \A i \in DOMAIN steps : steps[i] \in Entry
      /\ \A i \in DOMAIN steps : steps[i] \in ToSet(steps)
      /\ 1 .. done \subseteq DOMAIN steps
  BY DEF Writes, ToSet
<1>3. \A i \in written : /\ i \in DOMAIN steps /\ steps[i].path \in Paths
                         /\ steps[i].rev \in Nat
  <2>1. TAKE i \in written
  <2>2. i \in DOMAIN steps /\ steps[i] \in Entry /\ steps[i] \in ToSet(steps)
    BY <1>2
  <2>3. steps[i].rev \in Nat
    BY <2>2 DEF Writes
  <2>4. steps[i].path \in Paths
    BY <2>2 DEF Entry
  <2>5. QED
    BY <2>2, <2>3, <2>4
<1>4. ASSUME NEW p \in onto
      PROVE  LastOn(p) \in written /\ steps[LastOn(p)].path = p
  <2> DEFINE Of == {i \in written : steps[i].path = p}
  <2>1. Of \subseteq Nat /\ Of # {} /\ done \in Nat /\ \A i \in Of : i <= done
    BY <1>2
  <2>2. Bounded(Of)
    BY <2>1 DEF Bounded
  <2>3. \E m \in Of : \A x \in Of : x <= m
    <3> HIDE DEF Of
    <3>1. QED
      BY <2>1, <2>2, GreatestExists
  <2>4. \E i \in written : steps[i].path = p /\ \A j \in written : steps[j].path = p => j <= i
    BY <2>3
  <2>5. QED
    BY <2>4
<1> HIDE DEF LastOn
<1>5. DOMAIN files \subseteq Paths /\ \A p \in DOMAIN files : files[p] \in Nat
  <2>1. onto \subseteq Paths
    BY <1>3
  <2>2. \A p \in onto : steps[LastOn(p)].rev \in Nat
    BY <1>3, <1>4
  <2> HIDE DEF onto, gone
  <2>3. QED
    BY <2>1, <2>2 DEF DiskOK
<1>6. /\ config \in {disk.config, ConfigOf(d)}
      /\ (\A e \in ToSet(steps) : e.path # ConfigPath) => config = disk.config
  BY <1>2
<1>7. done = Len(steps) /\ (\E e \in ToSet(steps) : e.path = ConfigPath) => config = ConfigOf(d)
  <2>1. ASSUME done = Len(steps), NEW e \in ToSet(steps), e.path = ConfigPath
        PROVE  config = ConfigOf(d)
    <3>1. PICK i \in DOMAIN steps : steps[i] = e
      BY DEF ToSet
    <3>2. i \in 1 .. done /\ steps[i].path = ConfigPath
      BY <1>2, <2>1, <3>1
    <3>3. QED
      BY <3>2
  <2>2. QED
    BY <2>1
<1>8. ASSUME NEW p, \A e \in ToSet(steps) : ~Touches(e, p)
      PROVE  RevIn(files, p) = RevIn(disk.files, p)
  <2>1. p \notin onto
    BY <1>2, <1>3, <1>8 DEF Touches
  <2>2. p \notin gone
    BY <1>2, <1>8 DEF Touches
  <2> HIDE DEF onto, gone
  <2>3. QED
    BY <2>1, <2>2 DEF RevIn
<1>9. ASSUME NEW e \in ToSet(steps), done = Len(steps), e.op # "delete", e.path # ConfigPath,
             e.op = "move" => e.from # e.path,
             \A f \in ToSet(steps) : f # e => ~Touches(f, e.path)
      PROVE  RevIn(files, e.path) = e.rev
  <2> DEFINE p == e.path
  <2>1. PICK k \in DOMAIN steps : steps[k] = e
    BY DEF ToSet
  <2>2. k \in written
    BY <1>2, <1>9, <2>1
  <2>3. p \in onto
    BY <2>1, <2>2
  <2>4. p \notin gone
    <3>1. \A i \in DOMAIN steps : steps[i].path = p => steps[i] = e
      BY <1>2, <1>9 DEF Touches
    <3>2. \A i \in deleted : steps[i].path # p
      BY <1>9, <3>1
    <3>3. \A i \in moved : steps[i].from # p
      BY <1>2, <1>9 DEF Touches
    <3> HIDE DEF p, deleted, moved
    <3>4. QED
      BY <3>2, <3>3
  <2>5. steps[LastOn(p)] = e
    <3>1. LastOn(p) \in DOMAIN steps /\ steps[LastOn(p)].path = p
      BY <1>3, <1>4, <2>3
    <3>2. QED
      BY <1>2, <1>9, <3>1 DEF Touches
  <2> HIDE DEF onto, gone, p
  <2>6. QED
    BY <2>3, <2>4, <2>5 DEF RevIn, p
<1> HIDE DEF files, config, c
<1>10. c.config = config /\ c.files = files
  BY <1>1
<1>11. QED
  BY <1>5, <1>6, <1>7, <1>8, <1>9, <1>10 DEF Committed, c

-----------------------------------------------------------------------------
(* A save: what it writes, and the snapshot it leaves.                      *)

LEMMA SentSteps ==
    ASSUME NEW d \in Document, NEW ops, OpsFit(d, ops), NEW skip, DiskOK
    PROVE  Writes(Steps(d, ops, skip))
<1> DEFINE steps == Steps(d, ops, skip)
<1>1. ops \in Seq(Op)
  BY DEF OpsFit
<1>2. /\ steps \in Seq(Entry)
      /\ ToSet(steps) = {e \in ToSet(plan(d, ops)) : e.changed /\ e.path \notin skip}
  <2>1. TakenFrom(steps, plan(d, ops), skip)
    BY <1>1, StepsParts
  <2> HIDE DEF steps
  <2>2. QED
    BY <2>1 DEF TakenFrom
<1> HIDE DEF steps
<1>3. ASSUME NEW e \in ToSet(steps), e.op # "delete", e.path # ConfigPath
      PROVE  e.rev \in Nat
  <2>1. e \in ToSet(plan(d, ops)) /\ ~ConfigEntry(d, e)
    BY <1>2, <1>3 DEF ConfigEntry
  <2>2. PICK o \in ToSet(ops) : ResolvesTo(o, e)
    BY <1>1, <2>1, PlanParts
  <2>3. o.kind # "delete" /\ e.rev = o.rev
    BY <1>3, <2>2 DEF ResolvesTo
  <2>4. PICK i \in DOMAIN d.index : RowOp(d, d.index[i], o)
    BY <2>3 DEF OpsFit, DeleteOp
  <2> DEFINE n == d.index[i].name
  <2>5. n \in DOMAIN d.schemas /\ o.rev = d.schemas[n].rev
    BY <2>4 DEF RowOp
  <2>6. d.schemas[n] \in Schema
    <3>1. d.schemas \in Tables
      BY DEF Document
    <3> HIDE DEF n
    <3>2. QED
      BY <2>5, <3>1, TableForm
  <2>7. QED
    BY <2>3, <2>5, <2>6 DEF Schema
<1>4. QED
  BY <1>2, <1>3 DEF Writes, steps

(* Without a collision, no other entry touches the file an entry writes.    *)
LEMMA AloneInPlan ==
    ASSUME NEW d, NEW ops, ~Collides(d, ops),
           NEW e \in ToSet(plan(d, ops)), e.op # "delete",
           NEW f \in ToSet(plan(d, ops)), f # e
    PROVE  ~Touches(f, e.path)
<1> DEFINE entries == plan(d, ops)
<1>1. PICK i \in DOMAIN entries : entries[i] = e
  BY DEF ToSet
<1>2. PICK j \in DOMAIN entries : entries[j] = f
  BY DEF ToSet
<1>3. i # j
  BY <1>1, <1>2
<1>4. entries[i].path \notin {entries[j].path, entries[j].from}
  BY <1>1, <1>3 DEF Collides
<1>5. QED
  BY <1>1, <1>2, <1>4 DEF Touches

(* The documents of a reply: the one that was sent and the saved one.       *)
Replying ==
    /\ SaveReply
    /\ Sound(request.doc, changes) /\ Sound(saved, changes)
    /\ OpsFit(request.doc, request.ops)
    /\ request.configDirty = (request.doc.index # saved.index \/ request.doc.rest # saved.rest)
    /\ DiskOK

LEMMA ReplyCommits ==
    ASSUME Replying
    PROVE  LET steps == Steps(request.doc, request.ops, request.skip)
           IN  /\ request.ops \in Seq(Op)
               /\ request.doc \in Document /\ saved \in Document
               /\ Writes(steps)
               /\ Len(steps) \in 0 .. Len(steps)
               /\ disk' = Commit(steps, request.doc, Len(steps), TRUE)
               /\ ToSet(steps) = {e \in ToSet(plan(request.doc, request.ops)) :
                                      e.changed /\ e.path \notin request.skip}
<1>1. request.ops \in Seq(Op) /\ request.doc \in Document /\ saved \in Document /\ DiskOK
  BY DEF Replying, OpsFit, Sound
<1>2. disk' = Commit(Steps(request.doc, request.ops, request.skip), request.doc,
                     Len(Steps(request.doc, request.ops, request.skip)), TRUE)
  BY DEF Replying, SaveReply
<1> DEFINE d == request.doc
           ops == request.ops
           skip == request.skip
           steps == Steps(d, ops, skip)
<1>3. d \in Document /\ ops \in Seq(Op) /\ OpsFit(d, ops) /\ DiskOK
  BY <1>1 DEF Replying
<1> HIDE DEF d, ops, skip
<1>4. /\ steps \in Seq(Entry)
      /\ ToSet(steps) = {e \in ToSet(plan(d, ops)) : e.changed /\ e.path \notin skip}
  <2>1. TakenFrom(steps, plan(d, ops), skip)
    BY <1>3, StepsParts
  <2> HIDE DEF steps
  <2>2. QED
    BY <2>1 DEF TakenFrom
<1>5. Writes(steps)
  BY <1>3, SentSteps
<1> HIDE DEF steps
<1>6. Len(steps) \in 0 .. Len(steps)
  BY <1>4
<1>7. QED
  BY <1>1, <1>2, <1>4, <1>5, <1>6 DEF steps, d, ops, skip

LEMMA ReplyKeepsDiskOK ==
    ASSUME Replying
    PROVE  DiskOK'
<1> DEFINE steps == Steps(request.doc, request.ops, request.skip)
           c == Commit(steps, request.doc, Len(steps), TRUE)
<1>1. Writes(steps) /\ Len(steps) \in 0 .. Len(steps) /\ disk' = c /\ DiskOK
  BY ReplyCommits DEF Replying
<1> HIDE DEF steps
<1>2. Committed(c, steps, request.doc, Len(steps))
  BY <1>1, CommitParts
<1> HIDE DEF c
<1>3. QED
  BY <1>1, <1>2 DEF DiskOK, Committed

(* The snapshot is well formed, and as neat as the documents it is made of. *)
LEMMA SnapshotParts ==
    ASSUME Replying
    PROVE  /\ Sound(saved', changes)
           /\ Neat(saved) /\ Neat(request.doc) => Neat(saved')
           /\ ~AnySkipped(request) => saved' = request.doc
<1> DEFINE config == IF ConfigSkipped(request) THEN saved ELSE request.doc
           dropped == {o.name : o \in {o \in Applied(request) : o.kind = "delete"}}
           written == {o.name : o \in {o \in Applied(request) : o.kind # "delete"}}
           keys == ((DOMAIN saved.schemas \cup written) \ dropped) \cap NamesOf(config.index)
           t == [n \in keys |-> IF n \in written THEN request.doc.schemas[n]
                                                 ELSE saved.schemas[n]]
<1>1. saved' = IF ~AnySkipped(request) THEN request.doc
               ELSE [index |-> config.index, rest |-> config.rest, schemas |-> t]
  BY DEF Replying, SaveReply, Snapshot
<1>2. Sound(request.doc, changes) /\ Sound(saved, changes) /\ OpsFit(request.doc, request.ops)
  BY DEF Replying
<1>3. CASE ~AnySkipped(request)
  BY <1>1, <1>2, <1>3
<1>4. CASE AnySkipped(request)
  <2>1. /\ Sound(config, changes) /\ config \in Document
        /\ Neat(saved) /\ Neat(request.doc) => Neat(config)
    BY <1>2 DEF Sound
  <2>2. written \subseteq DOMAIN request.doc.schemas
    <3>1. SUFFICES ASSUME NEW o \in ToSet(request.ops), o.kind # "delete"
                   PROVE  o.name \in DOMAIN request.doc.schemas
      BY DEF Applied
    <3>2. QED
      BY <1>2, <3>1 DEF OpsFit, RowOp, DeleteOp
  <2>3. request.doc.schemas \in Tables /\ saved.schemas \in Tables
    BY <1>2 DEF Sound, Document
  <2> DEFINE a == request.doc.schemas
             b == saved.schemas
  <2>4. t \in Tables
    <3>1. /\ a \in Tables /\ b \in Tables /\ written \subseteq DOMAIN a
          /\ keys \subseteq written \cup DOMAIN b
          /\ t = [n \in keys |-> IF n \in written THEN a[n] ELSE b[n]]
      BY <2>2, <2>3
    <3> HIDE DEF a, b, written, keys, t
    <3>2. /\ DOMAIN a \subseteq Names /\ \A n \in DOMAIN a : a[n] \in Schema
          /\ DOMAIN b \subseteq Names /\ \A n \in DOMAIN b : b[n] \in Schema
      BY <3>1, TableForm
    <3>3. /\ t = [n \in DOMAIN t |-> t[n]]
          /\ DOMAIN t \subseteq Names
          /\ \A n \in DOMAIN t : t[n] \in Schema
      BY <3>1, <3>2
    <3>4. QED
      BY <3>3, TableForm
  <2>5. DOMAIN t \subseteq NamesOf(config.index)
    OBVIOUS
  <2> HIDE DEF t, config
  <2>6. /\ saved' = [index |-> config.index, rest |-> config.rest, schemas |-> t]
        /\ saved' \in Document
    BY <1>1, <1>4, <2>1, <2>4 DEF Document
  <2>7. saved'.index = config.index /\ saved'.schemas = t
    BY <2>6
  <2>8. Sound(saved', changes)
    BY <2>1, <2>6, <2>7 DEF Sound
  <2>9. Neat(config) => Neat(saved')
    BY <2>5, <2>7 DEF Neat
  <2>10. QED
    BY <1>4, <2>1, <2>8, <2>9
<1>5. QED
  BY <1>3, <1>4

(* A name the snapshot of a partial save has a schema for: that of the      *)
(* document, when an operation of that name was applied, and otherwise that *)
(* of the old snapshot.                                                     *)
FoldedIn(n) ==
    /\ RevAt(saved', n) = RevAt(request.doc, n)
    /\ \E o \in Applied(request) : o.kind # "delete" /\ o.name = n
KeptIn(n) ==
    /\ n \in DOMAIN saved.schemas
    /\ RevAt(saved', n) = RevAt(saved, n)
    /\ \A o \in Applied(request) : o.name # n

LEMMA SnapshotFolds ==
    ASSUME Replying, AnySkipped(request)
    PROVE  /\ saved' = Snapshot(request)
           /\ ConfigSkipped(request) => saved'.index = saved.index /\ saved'.rest = saved.rest
           /\ ~ConfigSkipped(request) => /\ saved'.index = request.doc.index
                                         /\ saved'.rest = request.doc.rest
           /\ \A n \in DOMAIN saved'.schemas : FoldedIn(n) \/ KeptIn(n)
<1> DEFINE config == IF ConfigSkipped(request) THEN saved ELSE request.doc
           dropped == {o.name : o \in {o \in Applied(request) : o.kind = "delete"}}
           written == {o.name : o \in {o \in Applied(request) : o.kind # "delete"}}
           keys == ((DOMAIN saved.schemas \cup written) \ dropped) \cap NamesOf(config.index)
           t == [n \in keys |-> IF n \in written THEN request.doc.schemas[n]
                                                 ELSE saved.schemas[n]]
<1>1. saved' = [index |-> config.index, rest |-> config.rest, schemas |-> t]
      /\ saved' = Snapshot(request)
  BY DEF Replying, SaveReply, Snapshot
<1>2. saved'.index = config.index /\ saved'.rest = config.rest /\ saved'.schemas = t
  BY <1>1
<1>3. written \subseteq DOMAIN request.doc.schemas
  BY DEF Replying, Applied, OpsFit, RowOp, DeleteOp
<1>4. \A n \in written : \E o \in Applied(request) : o.kind # "delete" /\ o.name = n
  OBVIOUS
<1>5. \A o \in Applied(request) : o.name \in dropped \/ o.name \in written
  OBVIOUS
<1>6. /\ DOMAIN t = keys
      /\ \A n \in keys : t[n] = IF n \in written THEN request.doc.schemas[n] ELSE saved.schemas[n]
      /\ \A n \in keys : n \notin dropped /\ (n \in written \/ n \in DOMAIN saved.schemas)
  OBVIOUS
<1> HIDE DEF t, keys, written, dropped
<1>7. ASSUME NEW n \in DOMAIN saved'.schemas
      PROVE  FoldedIn(n) \/ KeptIn(n)
  <2>1. n \in keys /\ saved'.schemas[n] = t[n]
    BY <1>2, <1>6
  <2>2. CASE n \in written
    BY <1>2, <1>3, <1>4, <1>6, <2>1, <2>2 DEF FoldedIn, RevAt
  <2>3. CASE n \notin written
    BY <1>2, <1>5, <1>6, <2>1, <2>3 DEF KeptIn, RevAt
  <2>4. QED
    BY <2>2, <2>3
<1>8. QED
  BY <1>1, <1>2, <1>7

(* What is written beside entries that were unchecked was in the review.    *)
LEMMA StepIsApplied ==
    ASSUME Replying, AnySkipped(request), ~Unreviewed(request),
           NEW e \in ToSet(Steps(request.doc, request.ops, request.skip)),
           NEW o \in ToSet(request.ops), ResolvesTo(o, e)
    PROVE  o \in Applied(request)
<1> DEFINE steps == Steps(request.doc, request.ops, request.skip)
<1>1. e.path \notin request.skip /\ e.path = o.path
  BY ReplyCommits DEF ResolvesTo
<1>2. PICK i \in DOMAIN steps : steps[i].path = o.path
  BY <1>1 DEF ToSet
<1>3. ~Unchecked(request, o)
  BY <1>1 DEF Unchecked
<1>4. Reviewed(request, o)
  BY <1>2, <1>3 DEF Unreviewed
<1>5. QED
  BY <1>3, <1>4 DEF Applied

(* An applied operation is not among the skipped.                           *)
LEMMA AppliedIsTaken ==
    ASSUME ~Unreviewed(request), NEW o \in Applied(request)
    PROVE  o \in ToSet(request.ops) /\ o.path \notin request.skip
BY DEF Applied, Unreviewed

LEMMA RowPath ==
    ASSUME NEW d \in Document, NEW i \in DOMAIN d.index
    PROVE  d.index[i].path \in Paths /\ d.index[i].path # ConfigPath
<1> DEFINE rows == d.index
<1>1. rows \in Seq(Row) /\ i \in DOMAIN rows
  BY DEF Document
<1> HIDE DEF rows
<1>2. rows[i] \in Row
  BY <1>1
<1>3. rows[i].path \in Paths
  BY <1>2 DEF Row
<1>4. QED
  BY <1>3, SaveAssumption DEF rows

(* An operation that is not skipped puts its revision into its file.        *)
LEMMA TakenIsOnDisk ==
    ASSUME Replying, ~Collides(request.doc, request.ops),
           NEW o \in ToSet(request.ops), o.kind # "delete", o.path \notin request.skip
    PROVE  RevIn(disk'.files, o.path) = o.rev
<1> DEFINE d == request.doc
           ops == request.ops
           steps == Steps(d, ops, request.skip)
           c == Commit(steps, d, Len(steps), TRUE)
<1>1. /\ disk' = c /\ ops \in Seq(Op) /\ DiskOK /\ d \in Document /\ saved \in Document
      /\ Writes(steps) /\ Len(steps) \in 0 .. Len(steps)
      /\ ToSet(steps) = {e \in ToSet(plan(d, ops)) : e.changed /\ e.path \notin request.skip}
  BY ReplyCommits DEF Replying
<1>2. PICK i \in DOMAIN d.index : RowOp(d, d.index[i], o)
  BY DEF Replying, OpsFit, DeleteOp
<1>3. o.path \in Paths /\ o.path # ConfigPath /\ (o.kind = "move" => o.from # o.path)
  <2>1. d.index[i].path \in Paths /\ d.index[i].path # ConfigPath
    BY <1>1, RowPath
  <2>2. QED
    BY <1>2, <2>1 DEF RowOp
<1> HIDE DEF d, ops, steps
<1>4. PICK e \in ToSet(plan(d, ops)) : ResolvesTo(o, e)
  BY <1>1, PlanParts DEF ops
<1>5. /\ e.op # "delete" /\ e.path = o.path /\ e.rev = o.rev
      /\ e.op = "move" => e.from # e.path
      /\ ~e.changed => FileRev(o.path) = o.rev
  BY <1>3, <1>4 DEF ResolvesTo
<1>6. \A f \in ToSet(plan(d, ops)) : f # e => ~Touches(f, e.path)
  BY <1>5, AloneInPlan DEF d, ops
<1>7. Committed(c, steps, d, Len(steps))
  BY <1>1, CommitParts
<1> HIDE DEF c
<1>8. CASE e.changed
  <2>1. e \in ToSet(steps) /\ \A f \in ToSet(steps) : f # e => ~Touches(f, e.path)
    BY <1>1, <1>5, <1>6, <1>8
  <2>2. RevIn(c.files, e.path) = e.rev
    BY <1>3, <1>5, <1>7, <2>1 DEF Committed
  <2>3. QED
    BY <1>1, <1>5, <2>2
<1>9. CASE ~e.changed
  <2>1. \A f \in ToSet(steps) : ~Touches(f, o.path)
    BY <1>1, <1>5, <1>6, <1>9
  <2>2. RevIn(c.files, o.path) = FileRev(o.path)
    BY <1>7, <2>1 DEF Committed, RevIn, FileRev
  <2>3. QED
    BY <1>1, <1>5, <1>9, <2>2
<1>10. QED
  BY <1>8, <1>9

(* flusso.toml after a save, when it held the snapshot or needed no change. *)
LEMMA ConfigIsOnDisk ==
    ASSUME Replying,
           ~request.configDirty => disk.config = ConfigOf(request.doc)
    PROVE  /\ ~ConfigSkipped(request) => disk'.config = ConfigOf(request.doc)
           /\ ConfigSkipped(request) => disk'.config = disk.config
<1> DEFINE d == request.doc
           ops == request.ops
           steps == Steps(d, ops, request.skip)
           c == Commit(steps, d, Len(steps), TRUE)
<1>1. /\ disk' = c /\ ops \in Seq(Op) /\ DiskOK
      /\ Writes(steps) /\ Len(steps) \in 0 .. Len(steps)
      /\ ToSet(steps) = {e \in ToSet(plan(d, ops)) : e.changed /\ e.path \notin request.skip}
  BY ReplyCommits DEF Replying
<1> HIDE DEF d, ops, steps
<1>2. Committed(c, steps, d, Len(steps))
  BY <1>1, CommitParts
<1> HIDE DEF c
<1>3. CASE ConfigSkipped(request)
  <2>1. \A e \in ToSet(steps) : e.path # ConfigPath
    BY <1>1, <1>3 DEF ConfigSkipped
  <2>2. QED
    BY <1>1, <1>2, <1>3, <2>1 DEF Committed
<1>4. CASE ~ConfigSkipped(request) /\ request.configDirty
  <2>1. ConfigPath \notin request.skip
    BY <1>4 DEF ConfigSkipped
  <2>2. PICK e \in ToSet(plan(d, ops)) : ConfigEntry(d, e)
    BY <1>1, PlanParts
  <2>3. CASE e.changed
    <3>1. e.path = ConfigPath
      BY <2>2 DEF ConfigEntry
    <3>2. e \in ToSet(steps)
      BY <1>1, <2>1, <2>3, <3>1
    <3>3. QED
      BY <1>1, <1>2, <1>4, <3>1, <3>2 DEF Committed, d
  <2>4. CASE ~e.changed
    BY <1>1, <1>2, <1>4, <2>2, <2>4 DEF Committed, ConfigEntry, d
  <2>5. QED
    BY <2>3, <2>4
<1>5. CASE ~ConfigSkipped(request) /\ ~request.configDirty
  BY <1>1, <1>2, <1>5 DEF Committed, d
<1>6. QED
  BY <1>3, <1>4, <1>5

(* No entry touches the file of a row that needs no operation.              *)
LEMMA LeftAlone ==
    ASSUME NEW d \in Document, saved \in Document, NEW ops, OpsFit(d, ops), DiskOK,
           Distinct(d.index), Distinct(saved.index), ~SharedFile(d), ~SharedFile(saved),
           NEW i \in DOMAIN d.index, Unchanged(d, d.index[i]),
           NEW e \in ToSet(plan(d, ops))
    PROVE  ~Touches(e, d.index[i].path)
<1> DEFINE r == d.index[i]
           p == r.path
<1>1. p \in Paths /\ p # ConfigPath
  BY RowPath
<1>2. PICK j \in DOMAIN saved.index : saved.index[j].id = r.id /\ saved.index[j].path = p
  BY DEF Unchanged
<1>3. \A k \in DOMAIN saved.index : saved.index[k].path = p => k = j
  BY <1>2 DEF SharedFile
<1>4. SUFFICES ASSUME Touches(e, p)
               PROVE  FALSE
  OBVIOUS
<1>5. ~ConfigEntry(d, e)
  BY <1>1, <1>4 DEF ConfigEntry, Touches
<1>6. ops \in Seq(Op)
  BY DEF OpsFit
<1>7. PICK o \in ToSet(ops) : ResolvesTo(o, e)
  BY <1>5, <1>6, PlanParts
<1>8. ~DeleteOp(d, o)
  <2>1. SUFFICES ASSUME DeleteOp(d, o)
                 PROVE  FALSE
    OBVIOUS
  <2>2. e.op = "delete" /\ e.path = o.path
    BY <1>7, <2>1 DEF ResolvesTo, DeleteOp
  <2>3. o.path = p
    BY <1>4, <2>2 DEF Touches
  <2>4. PICK k \in DOMAIN saved.index :
          /\ o.path = saved.index[k].path
          /\ \A m \in DOMAIN d.index : d.index[m].id # saved.index[k].id
    BY <2>1 DEF DeleteOp
  <2>5. k = j
    BY <1>3, <2>3, <2>4
  <2>6. QED
    BY <1>2, <2>4, <2>5
<1>9. PICK m \in DOMAIN d.index : RowOp(d, d.index[m], o)
  BY <1>8 DEF OpsFit
<1>10. m # i
  <2>1. SUFFICES ASSUME RowOp(d, r, o)
                 PROVE  FALSE
    BY <1>9
  <2>2. o.kind = "move"
    BY <1>2, <2>1 DEF RowOp, Unchanged
  <2>3. PICK k \in DOMAIN saved.index : saved.index[k].id = r.id /\ saved.index[k].path = o.from
    BY <2>1, <2>2 DEF RowOp
  <2>4. k = j
    BY <1>2, <2>3 DEF Distinct
  <2>5. QED
    BY <1>2, <2>1, <2>2, <2>3, <2>4 DEF RowOp
<1>11. CASE e.path = p
  <2>1. d.index[m].path = p
    BY <1>7, <1>9, <1>11 DEF ResolvesTo, RowOp
  <2>2. QED
    BY <1>10, <2>1 DEF SharedFile
<1>12. CASE e.op = "move" /\ e.from = p
  <2>1. o.kind = "move" /\ o.from = p
    BY <1>7, <1>12 DEF ResolvesTo
  <2>2. PICK k \in DOMAIN saved.index :
          saved.index[k].id = d.index[m].id /\ saved.index[k].path = o.from
    BY <1>9, <2>1 DEF RowOp
  <2>3. k = j
    BY <1>3, <2>1, <2>2
  <2>4. d.index[m].id = d.index[i].id
    BY <1>2, <2>2, <2>3
  <2>5. QED
    BY <1>10, <2>4 DEF Distinct
<1>13. QED
  BY <1>4, <1>11, <1>12 DEF Touches

(* What a save of document d finds on the disk besides what it will write:  *)
(* so it is under the snapshot, and after any failed save of the same       *)
(* document.                                                                *)
HalfDone(d) ==
    /\ d.index = saved.index /\ d.rest = saved.rest => disk.config = ConfigOf(d)
    /\ ~Mistaken(d) =>
           \A i \in DOMAIN d.index :
               d.index[i].name \in DOMAIN d.schemas /\ Unchanged(d, d.index[i])
                   => FileRev(d.index[i].path) = RevAt(d, d.index[i].name)

LEMMA SchemaRev ==
    ASSUME NEW d \in Document, NEW n \in DOMAIN d.schemas
    PROVE  RevAt(d, n) = d.schemas[n].rev /\ RevAt(d, n) \in Nat
<1> DEFINE t == d.schemas
<1>1. t \in Tables /\ n \in DOMAIN t
  BY DEF Document
<1> HIDE DEF t
<1>2. t[n] \in Schema
  BY <1>1, TableForm
<1>3. QED
  BY <1>2 DEF RevAt, Schema, t

LEMMA WholeIsHalfDone ==
    ASSUME saved \in Document, Distinct(saved.index), OnDisk(saved), NEW d \in Document
    PROVE  HalfDone(d)
<1>1. d.index = saved.index /\ d.rest = saved.rest => disk.config = ConfigOf(d)
  BY DEF OnDisk, ConfigOf
<1>2. ASSUME ~Mistaken(d), NEW i \in DOMAIN d.index, d.index[i].name \in DOMAIN d.schemas,
             Unchanged(d, d.index[i])
      PROVE  FileRev(d.index[i].path) = RevAt(d, d.index[i].name)
  <2> DEFINE r == d.index[i]
  <2>1. PICK j \in DOMAIN saved.index : saved.index[j].id = r.id /\ saved.index[j].path = r.path
    BY <1>2 DEF Unchanged
  <2>2. RevAt(d, r.name) = RevAt(saved, r.name) /\ ~indexDirty(d, r.name)
    BY <1>2 DEF Unchanged, indexDirty
  <2>3. r.name \in DOMAIN saved.schemas
    <3>1. RevAt(d, r.name) \in Nat
      BY <1>2, SchemaRev
    <3>2. QED
      BY <2>2, <3>1 DEF RevAt
  <2>4. saved.index[j].name = r.name
    <3>1. Was(r.id) # 0 /\ Was(r.id) \in DOMAIN saved.index /\ saved.index[Was(r.id)].id = r.id
      BY <2>1, WasRow
    <3>2. Was(r.id) = j
      BY <2>1, <3>1 DEF Distinct
    <3>3. r \in ToSet(d.index)
      BY DEF ToSet
    <3>4. saved.index[Was(r.id)].name = r.name
      BY <1>2, <2>2, <3>1, <3>3 DEF Mistaken
    <3>5. QED
      BY <3>2, <3>4
  <2>5. QED
    BY <2>1, <2>2, <2>3, <2>4 DEF OnDisk
<1>3. QED
  BY <1>1, <1>2 DEF HalfDone

(* Without one of the recorded causes, a full save leaves on the disk the   *)
(* document that was sent, whatever failed saves of it left there.          *)
LEMMA ReplySavesDocument ==
    ASSUME Replying, HalfDone(request.doc), ~SharedFile(saved), ~AnySkipped(request),
           ~Collides(request.doc, request.ops), ~Unreviewed(request),
           ~SharedFile(request.doc), ~Mistaken(request.doc)
    PROVE  OnDisk(saved)' /\ ~SharedFile(saved)'
<1> DEFINE d == request.doc
           ops == request.ops
           steps == Steps(d, ops, request.skip)
           c == Commit(steps, d, Len(steps), TRUE)
<1>1. /\ saved' = d /\ disk' = c
      /\ d \in Document /\ saved \in Document
      /\ Writes(steps) /\ Len(steps) \in 0 .. Len(steps) /\ DiskOK
      /\ ToSet(steps) = {e \in ToSet(plan(d, ops)) : e.changed /\ e.path \notin request.skip}
      /\ OpsFit(d, ops) /\ Distinct(d.index) /\ Distinct(saved.index)
  BY SnapshotParts, ReplyCommits DEF Replying, Sound
<1>2. \A o \in ToSet(ops) : o.path \notin request.skip
  BY DEF Unreviewed, AnySkipped
<1>3. disk'.config = ConfigOf(d)
  <2>1. ~request.configDirty => disk.config = ConfigOf(d)
    BY DEF Replying, HalfDone
  <2>2. ~ConfigSkipped(request)
    BY DEF AnySkipped
  <2>3. QED
    BY <2>1, <2>2, ConfigIsOnDisk
<1>4. ASSUME NEW i \in DOMAIN d.index, d.index[i].name \in DOMAIN d.schemas
      PROVE  RevIn(disk'.files, d.index[i].path) = RevAt(d, d.index[i].name)
  <2> DEFINE r == d.index[i]
             p == r.path
  <2>1. CASE \E o \in ToSet(ops) : RowOp(d, r, o)
    <3>1. PICK o \in ToSet(ops) : RowOp(d, r, o)
      BY <2>1
    <3>2. o.kind # "delete" /\ o.path = p /\ o.rev = RevAt(d, r.name)
      BY <1>1, <1>4, <3>1, SchemaRev DEF RowOp
    <3>3. RevIn(disk'.files, o.path) = o.rev
      BY <1>2, <3>2, TakenIsOnDisk
    <3>4. QED
      BY <3>2, <3>3
  <2>2. CASE ~ \E o \in ToSet(ops) : RowOp(d, r, o)
    <3>1. Unchanged(d, r)
      BY <1>1, <1>4, <2>2 DEF OpsFit
    <3>2. FileRev(p) = RevAt(d, r.name)
      BY <1>4, <3>1 DEF HalfDone
    <3>3. \A e \in ToSet(plan(d, ops)) : ~Touches(e, p)
      BY <1>1, <3>1, LeftAlone
    <3> HIDE DEF steps, ops, d
    <3>4. Committed(c, steps, d, Len(steps))
      BY <1>1, CommitParts
    <3> HIDE DEF c
    <3>5. RevIn(disk'.files, p) = FileRev(p)
      BY <1>1, <3>3, <3>4 DEF Committed, RevIn, FileRev
    <3>6. QED
      BY <3>2, <3>5
  <2>3. QED
    BY <2>1, <2>2
<1>5. OnDisk(saved)'
  BY <1>1, <1>3, <1>4 DEF OnDisk, FileRev, RevIn
<1>6. ~SharedFile(saved)'
  BY <1>1 DEF SharedFile
<1>7. QED
  BY <1>5, <1>6

(* A file that no applied operation has to do with is left as it is, and so *)
(* is, in the snapshot of a partial save, the schema kept for its row.      *)
LEMMA KeptIsOnDisk ==
    ASSUME Replying, AnySkipped(request), ~Unreviewed(request),
           OnDisk(saved), ~SharedFile(saved),
           NEW j \in DOMAIN saved.index, saved.index[j].name \in DOMAIN saved.schemas,
           \A o \in Applied(request) : o.name # saved.index[j].name,
           \A o \in Applied(request) :
               o.kind # "delete" => saved.index[j].path \notin {o.path, o.from}
    PROVE  RevIn(disk'.files, saved.index[j].path) = RevAt(saved, saved.index[j].name)
<1> DEFINE d == request.doc
           ops == request.ops
           steps == Steps(d, ops, request.skip)
           c == Commit(steps, d, Len(steps), TRUE)
           p == saved.index[j].path
<1>1. /\ disk' = c /\ saved \in Document /\ ops \in Seq(Op) /\ OpsFit(d, ops)
      /\ Writes(steps) /\ Len(steps) \in 0 .. Len(steps) /\ DiskOK
      /\ ToSet(steps) = {e \in ToSet(plan(d, ops)) : e.changed /\ e.path \notin request.skip}
  BY ReplyCommits DEF Replying
<1>2. p \in Paths /\ p # ConfigPath
  BY <1>1, RowPath
<1>3. ASSUME NEW e \in ToSet(steps), Touches(e, p)
      PROVE  FALSE
  <2>1. e \in ToSet(plan(d, ops)) /\ ~ConfigEntry(d, e)
    BY <1>1, <1>2, <1>3 DEF ConfigEntry, Touches
  <2>2. PICK o \in ToSet(ops) : ResolvesTo(o, e)
    BY <1>1, <2>1, PlanParts
  <2>3. o \in Applied(request)
    BY <1>3, <2>2, StepIsApplied
  <2>4. CASE o.kind = "delete"
    <3>1. o.path = p
      BY <1>3, <2>2, <2>4 DEF ResolvesTo, Touches
    <3>2. PICK k \in DOMAIN saved.index : o.path = saved.index[k].path /\ o.name = saved.index[k].name
      BY <1>1, <2>4 DEF OpsFit, DeleteOp, RowOp
    <3>3. k = j
      BY <3>1, <3>2 DEF SharedFile
    <3>4. QED
      BY <2>3, <3>2, <3>3
  <2>5. CASE o.kind # "delete"
    BY <1>3, <2>2, <2>3, <2>5 DEF ResolvesTo, Touches
  <2>6. QED
    BY <2>4, <2>5
<1> HIDE DEF steps, d, ops
<1>4. Committed(c, steps, d, Len(steps))
  BY <1>1, CommitParts
<1> HIDE DEF c
<1>5. RevIn(disk'.files, p) = FileRev(p)
  BY <1>1, <1>3, <1>4 DEF Committed, RevIn, FileRev
<1>6. FileRev(p) = RevAt(saved, saved.index[j].name)
  BY DEF OnDisk
<1>7. QED
  BY <1>5, <1>6

(* The schema folded in for an applied operation is in its file.            *)
LEMMA FoldedIsOnDisk ==
    ASSUME Replying, ~Unreviewed(request), ~Collides(request.doc, request.ops),
           NEW o \in Applied(request), o.kind # "delete"
    PROVE  RevIn(disk'.files, o.path) = RevAt(request.doc, o.name)
<1>1. o \in ToSet(request.ops) /\ o.path \notin request.skip
  BY AppliedIsTaken
<1>2. RevIn(disk'.files, o.path) = o.rev
  BY <1>1, TakenIsOnDisk
<1>3. request.doc \in Document
  BY DEF Replying, Sound
<1>4. o.name \in DOMAIN request.doc.schemas /\ o.rev = request.doc.schemas[o.name].rev
  BY <1>1 DEF Replying, OpsFit, RowOp, DeleteOp
<1>5. QED
  BY <1>2, <1>3, <1>4, SchemaRev

(* Without one of the recorded causes, a save with entries unchecked leaves *)
(* on the disk the snapshot it makes.                                       *)
LEMMA ReplySavesSnapshot ==
    ASSUME Replying, OnDisk(saved), ~SharedFile(saved), AnySkipped(request),
           ~Collides(request.doc, request.ops), ~Unreviewed(request),
           ~SharedFile(request.doc), ~Left(request), ~Displaced(request)
    PROVE  OnDisk(saved)' /\ ~SharedFile(saved)'
<1> DEFINE d == request.doc
<1>1. /\ saved' = Snapshot(request)
      /\ ConfigSkipped(request) => saved'.index = saved.index /\ saved'.rest = saved.rest
      /\ ~ConfigSkipped(request) => saved'.index = d.index /\ saved'.rest = d.rest
      /\ \A n \in DOMAIN saved'.schemas : FoldedIn(n) \/ KeptIn(n)
  BY SnapshotFolds
<1>2. disk'.config = ConfigOf(saved')
  <2>1. ~request.configDirty => disk.config = ConfigOf(d)
    BY DEF Replying, OnDisk, ConfigOf
  <2>2. disk.config = ConfigOf(saved)
    BY DEF OnDisk
  <2>3. QED
    BY <1>1, <2>1, <2>2, ConfigIsOnDisk DEF ConfigOf
<1>3. ASSUME ConfigSkipped(request),
             NEW j \in DOMAIN saved.index, saved.index[j].name \in DOMAIN saved'.schemas
      PROVE  RevIn(disk'.files, saved.index[j].path) = RevAt(saved', saved.index[j].name)
  <2> DEFINE r == saved.index[j]
  <2>1. \A o \in Applied(request) :
            /\ o.kind # "delete"
            /\ r.name = o.name \/ r.path \in {o.path, o.from}
            => r.name = o.name /\ r.path = o.path
    <3>1. r \in ToSet(saved.index)
      BY DEF ToSet
    <3>2. QED
      BY <1>3, <3>1 DEF Displaced
  <2>2. CASE FoldedIn(r.name)
    <3>1. PICK o \in Applied(request) : o.kind # "delete" /\ o.name = r.name
      BY <2>2 DEF FoldedIn
    <3>2. o.path = r.path
      BY <2>1, <3>1
    <3>3. RevIn(disk'.files, o.path) = RevAt(d, o.name)
      BY <3>1, FoldedIsOnDisk
    <3>4. QED
      BY <2>2, <3>1, <3>2, <3>3 DEF FoldedIn
  <2>3. CASE KeptIn(r.name)
    <3>1. /\ r.name \in DOMAIN saved.schemas
          /\ \A o \in Applied(request) : o.name # r.name
          /\ RevAt(saved', r.name) = RevAt(saved, r.name)
      BY <2>3 DEF KeptIn
    <3>2. \A o \in Applied(request) : o.kind # "delete" => r.path \notin {o.path, o.from}
      BY <2>1, <3>1
    <3>3. RevIn(disk'.files, r.path) = RevAt(saved, r.name)
      BY <3>1, <3>2, KeptIsOnDisk
    <3>4. QED
      BY <3>1, <3>3
  <2>4. QED
    BY <1>1, <1>3, <2>2, <2>3
<1>4. ASSUME ~ConfigSkipped(request),
             NEW i \in DOMAIN d.index, d.index[i].name \in DOMAIN saved'.schemas
      PROVE  RevIn(disk'.files, d.index[i].path) = RevAt(saved', d.index[i].name)
  <2> DEFINE r == d.index[i]
             Own(o) == o.kind # "delete" /\ o.name = r.name /\ o.path = r.path
  <2>1. CASE \E o \in Applied(request) : Own(o)
    <3>1. PICK o \in Applied(request) : Own(o)
      BY <2>1
    <3>2. RevIn(disk'.files, r.path) = RevAt(d, r.name)
      BY <3>1, FoldedIsOnDisk
    <3>3. FoldedIn(r.name)
      BY <1>1, <1>4, <3>1 DEF KeptIn
    <3>4. QED
      BY <3>2, <3>3 DEF FoldedIn
  <2>2. CASE \A o \in Applied(request) : ~Own(o)
    <3>1. /\ IsRow(saved.index, r.name, r.path)
          /\ \A o \in Applied(request) :
                 ~(o.kind # "delete" /\ (o.name = r.name \/ o.from = r.path))
      <4>1. r \in ToSet(d.index)
        BY DEF ToSet
      <4>2. r.name \in DOMAIN Snapshot(request).schemas
        BY <1>1, <1>4
      <4>3. QED
        BY <1>4, <2>2, <4>1, <4>2 DEF Left
    <3>2. KeptIn(r.name)
      BY <1>1, <1>4, <3>1 DEF FoldedIn
    <3>3. PICK j \in DOMAIN saved.index : saved.index[j].name = r.name /\ saved.index[j].path = r.path
      BY <3>1 DEF IsRow
    <3>4. ASSUME NEW o \in Applied(request), o.kind # "delete"
          PROVE  r.path \notin {o.path, o.from}
      <4>1. o.from # r.path /\ o.name # r.name
        BY <3>1, <3>4
      <4>2. PICK m \in DOMAIN d.index : RowOp(d, d.index[m], o)
        BY <3>4, AppliedIsTaken DEF Replying, OpsFit, DeleteOp
      <4>3. m # i /\ o.path = d.index[m].path
        BY <4>1, <4>2 DEF RowOp
      <4>4. o.path # r.path
        BY <4>3 DEF SharedFile
      <4>5. QED
        BY <4>1, <4>4
    <3>5. RevIn(disk'.files, r.path) = RevAt(saved, r.name)
      BY <3>2, <3>3, <3>4, KeptIsOnDisk DEF KeptIn
    <3>6. QED
      BY <3>2, <3>5 DEF KeptIn
  <2>3. QED
    BY <2>1, <2>2
<1>5. OnDisk(saved)'
  BY <1>1, <1>2, <1>3, <1>4 DEF OnDisk, FileRev, RevIn
<1>6. ~SharedFile(saved)'
  BY <1>1 DEF SharedFile
<1>7. QED
  BY <1>5, <1>6

LEMMA MistakenStays ==
    ASSUME saved' = saved, NEW d
    PROVE  Mistaken(d)' = Mistaken(d)
<1>1. \A id : Was(id)' = Was(id)
  <2>1. TAKE id
  <2>2. {j \in 1 .. Len(saved'.index) : saved'.index[j].id = id}
          = {j \in 1 .. Len(saved.index) : saved.index[j].id = id}
    OBVIOUS
  <2>3. QED
    BY <2>2 DEF Was, SelectInSeq
<1>2. QED
  BY <1>1 DEF Mistaken, indexDirty

(* A save that fails half way touches no file but those of its operations.  *)
LEMMA FailureKeepsHalfDone ==
    ASSUME NEW d \in Document, saved \in Document, Distinct(d.index), Distinct(saved.index),
           NEW ops, OpsFit(d, ops), DiskOK, NEW skip, HalfDone(d), ~SharedFile(saved),
           NEW n \in 0 .. Len(Steps(d, ops, skip)), NEW b \in BOOLEAN,
           disk' = Commit(Steps(d, ops, skip), d, n, b), saved' = saved
    PROVE  SharedFile(d) \/ HalfDone(d)'
<1> DEFINE steps == Steps(d, ops, skip)
           c == Commit(steps, d, n, b)
<1>1. Writes(steps) /\ ops \in Seq(Op)
  BY SentSteps DEF OpsFit
<1>2. \A e \in ToSet(steps) : e \in ToSet(plan(d, ops))
  BY <1>1, StepsParts DEF TakenFrom
<1> HIDE DEF steps
<1>3. Committed(c, steps, d, n)
  BY <1>1, CommitParts DEF steps
<1>4. disk' = c
  BY DEF steps
<1> HIDE DEF c
<1>5. SUFFICES ASSUME ~SharedFile(d)
               PROVE  HalfDone(d)'
  OBVIOUS
<1>6. d.index = saved.index /\ d.rest = saved.rest => disk'.config = ConfigOf(d)
  BY <1>3, <1>4 DEF HalfDone, Committed
<1>7. ASSUME ~Mistaken(d), NEW i \in DOMAIN d.index, d.index[i].name \in DOMAIN d.schemas,
             Unchanged(d, d.index[i])
      PROVE  RevIn(disk'.files, d.index[i].path) = RevAt(d, d.index[i].name)
  <2>1. FileRev(d.index[i].path) = RevAt(d, d.index[i].name)
    BY <1>7 DEF HalfDone
  <2>2. \A e \in ToSet(steps) : ~Touches(e, d.index[i].path)
    BY <1>2, <1>5, <1>7, LeftAlone
  <2>3. QED
    BY <1>3, <1>4, <2>1, <2>2 DEF Committed, RevIn, FileRev
<1>8. Mistaken(d)' = Mistaken(d)
  BY MistakenStays
<1>9. \A i \in DOMAIN d.index : Unchanged(d, d.index[i])' = Unchanged(d, d.index[i])
  BY DEF Unchanged, indexDirty
<1>10. QED
  BY <1>6, <1>7, <1>8, <1>9 DEF HalfDone, FileRev, RevIn

-----------------------------------------------------------------------------
(* The inductive invariant.                                                 *)

Docs == Known \cup (IF request = Idle THEN {} ELSE {request.doc})
AllSound == \A d \in Docs : Sound(d, changes)
RequestFits ==
    request # Idle =>
        /\ OpsFit(request.doc, request.ops)
        /\ request.configDirty = (request.doc.index # saved.index \/ request.doc.rest # saved.rest)
Tidy ==
    tangled = {} => \A d \in Docs : Neat(d) /\ ("skipped" \notin doubts => OwnSchemas(d))
(* The disk holds the snapshot; or a save failed, of one document, and      *)
(* holds what a save of that document needs.                                *)
Untouched ==
    doubts \subseteq {"skipped"} =>
        /\ ~SharedFile(saved)
        /\ torn = {} => OnDisk(saved)
        /\ \A d : torn = {d} => SharedFile(d) \/ HalfDone(d)
Control == changes \in Nat /\ active \in Names \cup {Config} /\ History

IInv ==
    /\ AllSound
    /\ RequestFits
    /\ Tidy
    /\ Untouched
    /\ DiskOK
    /\ Control

LEMMA InvFacts ==
    ASSUME IInv
    PROVE  /\ Sound(doc, changes) /\ Sound(saved, changes)
           /\ doc \in Document /\ saved \in Document
           /\ request # Idle => Sound(request.doc, changes)
           /\ changes \in Nat /\ active \in Names \cup {Config} /\ History
<1>1. doc \in Docs /\ saved \in Docs /\ (request # Idle => request.doc \in Docs)
  BY DEF Docs, Known
<1>2. QED
  BY <1>1 DEF IInv, AllSound, Control, Sound

LEMMA UntouchedStays ==
    ASSUME Untouched, saved' = saved, disk' = disk, doubts' = doubts, torn' = torn
    PROVE  Untouched'
<1>1. \A d : HalfDone(d)' = HalfDone(d)
  BY MistakenStays DEF HalfDone, Unchanged, indexDirty, FileRev
<1>2. OnDisk(saved)' = OnDisk(saved) /\ SharedFile(saved)' = SharedFile(saved)
  BY DEF OnDisk, FileRev, SharedFile
<1>3. QED
  BY <1>1, <1>2 DEF Untouched

(* A step that leaves the saving side alone.                                *)
LEMMA StoreMovesKeepInv ==
    ASSUME IInv, StoreMoves, UNCHANGED saveVars
    PROVE  IInv'
<1>1. /\ saved' = saved /\ request' = request /\ disk' = disk /\ doubts' = doubts
      /\ torn' = torn
  BY DEF saveVars
<1>2. changes \in Nat /\ changes' \in {changes, changes + 1}
  BY DEF IInv, Control, StoreMoves
<1>3. \A d \in Docs' : d \in Docs \/ (d = doc' /\ changes' = changes + 1 /\ Changed(doc'))
  <2>1. /\ ToSet(past') \cup ToSet(future') \subseteq Known
        /\ doc' \in Known \/ (changes' = changes + 1 /\ Changed(doc'))
    BY DEF StoreMoves
  <2>2. Docs' = {doc', saved'} \cup (ToSet(past') \cup ToSet(future'))
                  \cup (IF request' = Idle THEN {} ELSE {request'.doc})
    BY DEF Docs, Known
  <2>3. saved \in Known /\ Docs = Known \cup (IF request = Idle THEN {} ELSE {request.doc})
    BY DEF Docs, Known
  <2>4. QED
    BY <1>1, <2>1, <2>2, <2>3
<1>4. AllSound'
  <2>1. SUFFICES ASSUME NEW d \in Docs'
                 PROVE  Sound(d, changes')
    BY DEF AllSound
  <2>2. CASE d \in Docs
    <3>1. Sound(d, changes)
      BY <2>2 DEF IInv, AllSound
    <3>2. QED
      BY <1>2, <3>1, SoundLater
  <2>3. CASE d = doc' /\ changes' = changes + 1 /\ Changed(doc')
    BY <2>3 DEF Changed
  <2>4. QED
    BY <1>3, <2>2, <2>3
<1>5. RequestFits'
  BY <1>1 DEF IInv, RequestFits, OpsFit, RowOp, DeleteOp, Unchanged, indexDirty
<1>6. Tidy'
  <2>1. SUFFICES ASSUME tangled' = {}, NEW d \in Docs'
                 PROVE  Neat(d) /\ ("skipped" \notin doubts' => OwnSchemas(d))
    BY DEF Tidy
  <2>2. tangled = {}
    BY <2>1 DEF StoreMoves, Changed
  <2>3. \A e \in Docs : Neat(e) /\ ("skipped" \notin doubts => OwnSchemas(e))
    BY <2>2 DEF IInv, Tidy
  <2>4. CASE d \in Docs
    BY <1>1, <2>3, <2>4
  <2>5. CASE d = doc' /\ Changed(doc')
    <3>1. KeepsNeat(doc, d)
      BY <2>1, <2>5 DEF Changed
    <3>2. doc \in Docs
      BY DEF Docs, Known
    <3>3. QED
      BY <1>1, <2>3, <3>1, <3>2 DEF KeepsNeat
  <2>6. QED
    BY <1>3, <2>4, <2>5
<1>7. Untouched'
  BY <1>1, UntouchedStays DEF IInv
<1>8. DiskOK'
  BY <1>1 DEF IInv, DiskOK
<1>9. Control'
  BY <1>2 DEF StoreMoves, Control
<1>10. QED
  BY <1>4, <1>5, <1>6, <1>7, <1>8, <1>9 DEF IInv

(* A step that leaves the store alone: the documents held do not grow.      *)
LEMMA QuietKeepsInv ==
    ASSUME IInv, UNCHANGED storeVars, saved' = saved,
           \/ request' = Idle
           \/ request' = request
           \/ /\ request'.doc = doc /\ request'.ops = buildOps
              /\ request'.configDirty = configDirty,
           DiskOK', Untouched', doubts \subseteq doubts'
    PROVE  IInv'
<1>1. /\ doc' = doc /\ active' = active /\ past' = past /\ future' = future
      /\ changes' = changes /\ tangled' = tangled
  BY DEF storeVars
<1>2. \A d \in Docs' : d \in Docs
  BY <1>1 DEF Docs, Known
<1>3. AllSound'
  BY <1>1, <1>2 DEF IInv, AllSound
<1>4. RequestFits'
  <2>1. CASE request' = Idle
    BY <2>1 DEF RequestFits
  <2>2. CASE request' = request
    BY <2>2 DEF IInv, RequestFits, OpsFit, RowOp, DeleteOp, Unchanged, indexDirty
  <2>3. CASE /\ request'.doc = doc /\ request'.ops = buildOps
             /\ request'.configDirty = configDirty
    <3>1. OpsFit(doc, buildOps)
      BY InvFacts, BuildOpsFit
    <3> DEFINE ops == buildOps
    <3>2. OpsFit(doc, ops)
      BY <3>1
    <3> HIDE DEF ops
    <3>3. /\ ops \in Seq(Op)
          /\ \A o \in ToSet(ops) : \/ DeleteOp(doc, o)'
                                   \/ \E i \in DOMAIN doc.index : RowOp(doc, doc.index[i], o)'
          /\ \A i \in DOMAIN doc.index :
                 doc.index[i].name \in DOMAIN doc.schemas =>
                     \/ \E o \in ToSet(ops) : RowOp(doc, doc.index[i], o)'
                     \/ Unchanged(doc, doc.index[i])'
          /\ \A j \in DOMAIN saved'.index :
                 (\A i \in DOMAIN doc.index : doc.index[i].id # saved'.index[j].id) =>
                     \E o \in ToSet(ops) : o.kind = "delete" /\ o.path = saved'.index[j].path
      BY <1>1, <3>2 DEF OpsFit, RowOp, DeleteOp, Unchanged, indexDirty
    <3>4. OpsFit(request.doc, request.ops)'
      <4>1. request'.doc = doc' /\ request'.ops = ops /\ doc' = doc
        BY <1>1, <2>3 DEF ops
      <4>2. QED
        BY <3>3, <4>1 DEF OpsFit
    <3>5. request'.configDirty
            = (request'.doc.index # saved'.index \/ request'.doc.rest # saved'.rest)
      BY <2>3 DEF configDirty
    <3>6. QED
      BY <3>4, <3>5 DEF RequestFits
  <2>4. QED
    BY <2>1, <2>2, <2>3
<1>5. Tidy'
  <2>1. SUFFICES ASSUME tangled' = {}, NEW d \in Docs'
                 PROVE  Neat(d) /\ ("skipped" \notin doubts' => OwnSchemas(d))
    BY DEF Tidy
  <2>2. tangled = {} /\ d \in Docs /\ ("skipped" \notin doubts' => "skipped" \notin doubts)
    BY <1>1, <1>2, <2>1
  <2>3. QED
    BY <2>2 DEF IInv, Tidy
<1>6. Control'
  BY <1>1 DEF IInv, Control, History
<1>7. QED
  BY <1>3, <1>4, <1>5, <1>6 DEF IInv

LEMMA SaveReplyKeepsInv ==
    ASSUME IInv, SaveReply
    PROVE  IInv'
<1>1. Replying
  BY InvFacts DEF IInv, RequestFits, Replying, SaveReply
<1>2. /\ doc' = doc /\ active' = active /\ past' = past /\ future' = future
      /\ changes' = changes /\ tangled' = tangled /\ request' = Idle
  BY DEF SaveReply, storeVars
<1>3. doubts \subseteq doubts' /\ (AnySkipped(request) => "skipped" \in doubts')
  BY DEF SaveReply
<1>4. /\ Sound(saved', changes)
      /\ Neat(saved) /\ Neat(request.doc) => Neat(saved')
      /\ ~AnySkipped(request) => saved' = request.doc
  BY <1>1, SnapshotParts
<1>5. \A d \in Docs' : d \in Docs \/ d = saved'
  BY <1>2 DEF Docs, Known
<1>6. saved \in Docs /\ request.doc \in Docs
  BY DEF Docs, Known, SaveReply
<1>7. AllSound'
  BY <1>2, <1>4, <1>5 DEF IInv, AllSound
<1>8. RequestFits'
  BY <1>2 DEF RequestFits
<1>9. Tidy'
  <2>1. SUFFICES ASSUME tangled' = {}, NEW d \in Docs'
                 PROVE  Neat(d) /\ ("skipped" \notin doubts' => OwnSchemas(d))
    BY DEF Tidy
  <2>2. \A e \in Docs : Neat(e) /\ ("skipped" \notin doubts' => OwnSchemas(e))
    BY <1>2, <1>3, <2>1 DEF IInv, Tidy
  <2>3. QED
    BY <1>3, <1>4, <1>5, <1>6, <2>2
<1>10. Untouched'
  <2>1. SUFFICES ASSUME doubts' \subseteq {"skipped"}
                 PROVE  OnDisk(saved)' /\ ~SharedFile(saved)'
    BY DEF Untouched, SaveReply
  <2>2. /\ ~Collides(request.doc, request.ops) /\ ~Unreviewed(request)
        /\ ~SharedFile(request.doc) /\ ~Mistaken(request.doc)
        /\ ~Left(request) /\ ~Displaced(request)
        /\ torn = {} \/ Retries(request)
    BY <2>1 DEF SaveReply
  <2>3. /\ ~SharedFile(saved)
        /\ torn = {} => OnDisk(saved)
        /\ torn = {request.doc} => HalfDone(request.doc)
    BY <1>3, <2>1, <2>2 DEF IInv, Untouched
  <2>4. CASE AnySkipped(request)
    <3>1. OnDisk(saved)
      BY <2>2, <2>3, <2>4 DEF Retries
    <3>2. QED
      BY <1>1, <2>2, <2>3, <2>4, <3>1, ReplySavesSnapshot
  <2>5. CASE ~AnySkipped(request)
    <3>1. HalfDone(request.doc)
      <4>1. CASE torn = {}
        <5>1. OnDisk(saved) /\ saved \in Document /\ Distinct(saved.index) /\ request.doc \in Document
          BY <1>1, <2>3, <4>1 DEF Replying, Sound
        <5>2. QED
          BY <5>1, WholeIsHalfDone
      <4>2. CASE torn # {}
        BY <2>2, <2>3, <4>2 DEF Retries
      <4>3. QED
        BY <4>1, <4>2
    <3>2. QED
      BY <1>1, <2>2, <2>3, <2>5, <3>1, ReplySavesDocument
  <2>6. QED
    BY <2>4, <2>5
<1>11. DiskOK'
  BY <1>1, ReplyKeepsDiskOK
<1>12. Control'
  BY <1>2 DEF IInv, Control, History
<1>13. QED
  BY <1>7, <1>8, <1>9, <1>10, <1>11, <1>12 DEF IInv

LEMMA RequestFailsKeepsInv ==
    ASSUME IInv, RequestFails
    PROVE  IInv'
<1> DEFINE steps == Steps(request.doc, request.ops, request.skip)
<1>1. UNCHANGED storeVars /\ saved' = saved /\ request' = Idle
  BY DEF RequestFails
<1>2. /\ doubts' = doubts
      /\ torn' = IF disk' = disk THEN torn ELSE torn \cup {request.doc}
      /\ \/ disk' = disk
         \/ \E done \in 1 .. Len(steps) :
                disk' \in {Commit(steps, request.doc, done, FALSE),
                          Commit(steps, request.doc, Len(steps), TRUE)}
  BY DEF RequestFails
<1>3. DiskOK'
  <2>1. CASE disk' = disk
    BY <2>1 DEF IInv, DiskOK
  <2>2. ASSUME NEW done \in 1 .. Len(steps),
               disk' \in {Commit(steps, request.doc, done, FALSE),
                          Commit(steps, request.doc, Len(steps), TRUE)}
        PROVE  DiskOK'
    <3>1. /\ request.doc \in Document /\ OpsFit(request.doc, request.ops) /\ DiskOK
      BY InvFacts DEF IInv, RequestFits, RequestFails, Sound
    <3>2. Writes(steps)
      BY <3>1, SentSteps
    <3> HIDE DEF steps
    <3>3. done \in 0 .. Len(steps) /\ Len(steps) \in 0 .. Len(steps)
      BY <3>2 DEF Writes
    <3>4. PICK n \in 0 .. Len(steps), b \in BOOLEAN : disk' = Commit(steps, request.doc, n, b)
      BY <2>2, <3>3
    <3> DEFINE c == Commit(steps, request.doc, n, b)
    <3>5. Committed(c, steps, request.doc, n)
      BY <3>1, <3>2, CommitParts
    <3>6. disk' = c
      BY <3>4
    <3> HIDE DEF c
    <3>7. QED
      BY <3>5, <3>6 DEF DiskOK, Committed
  <2>3. QED
    BY <1>2, <2>1, <2>2
<1>4. Untouched'
  <2>1. CASE disk' = disk
    BY <1>1, <1>2, <2>1, UntouchedStays DEF IInv
  <2>2. CASE disk' # disk
    <3> DEFINE ops == request.ops
               skip == request.skip
    <3>0. PICK d : d = request.doc
      OBVIOUS
    <3>1. /\ d \in Document /\ OpsFit(d, ops) /\ DiskOK /\ Distinct(d.index)
          /\ saved \in Document /\ Distinct(saved.index)
      BY <3>0, InvFacts DEF IInv, RequestFits, RequestFails, Sound
    <3>2. SUFFICES ASSUME doubts \subseteq {"skipped"}
                   PROVE  /\ ~SharedFile(saved')
                          /\ torn' # {}
                          /\ torn' = {d} => SharedFile(d) \/ HalfDone(d)'
      <4>1. torn' = torn \cup {d}
        BY <1>2, <2>2, <3>0
      <4>2. \A x : torn' = {x} => x = d
        BY <4>1
      <4>3. QED
        BY <1>2, <4>1, <4>2 DEF Untouched, SharedFile
    <3>3. ~SharedFile(saved') /\ torn' = torn \cup {d}
      BY <3>0, <1>1, <1>2, <2>2, <3>2 DEF IInv, Untouched
    <3>4. ASSUME torn' = {d}
          PROVE  SharedFile(d) \/ HalfDone(d)'
      <4>1. torn = {} \/ torn = {d}
        BY <3>3, <3>4
      <4>2. SharedFile(d) \/ HalfDone(d)
        <5>1. CASE torn = {}
          BY <3>1, <3>2, <5>1, WholeIsHalfDone DEF IInv, Untouched
        <5>2. CASE torn = {d}
          BY <3>2, <5>2 DEF IInv, Untouched
        <5>3. QED
          BY <4>1, <5>1, <5>2
      <4>3. PICK n \in 0 .. Len(steps), b \in BOOLEAN : disk' = Commit(steps, d, n, b)
        <5>1. Writes(steps)
          BY <3>0, <3>1, SentSteps
        <5> HIDE DEF steps
        <5>2. Len(steps) \in Nat
          BY <5>1 DEF Writes
        <5>3. PICK done \in 1 .. Len(steps) :
                disk' \in {Commit(steps, d, done, FALSE), Commit(steps, d, Len(steps), TRUE)}
          BY <1>2, <2>2, <3>0
        <5>4. done \in 0 .. Len(steps) /\ Len(steps) \in 0 .. Len(steps)
          BY <5>2
        <5>5. QED
          BY <5>3, <5>4
      <4>4. disk' = Commit(Steps(d, ops, skip), d, n, b) /\ n \in 0 .. Len(Steps(d, ops, skip))
        BY <3>0, <4>3
      <4> HIDE DEF ops, skip
      <4>5. saved' = saved /\ ~SharedFile(saved)
        BY <1>1, <3>3
      <4>6. CASE SharedFile(d)
        BY <4>6
      <4>7. CASE HalfDone(d)
        BY <3>1, <4>4, <4>5, <4>7, FailureKeepsHalfDone
      <4>8. QED
        BY <4>2, <4>6, <4>7
    <3>5. QED
      BY <3>3, <3>4
  <2>3. QED
    BY <2>1, <2>2
<1>5. QED
  BY <1>1, <1>2, <1>3, <1>4, QuietKeepsInv

LEMMA NextKeepsInv ==
    ASSUME IInv, [Next]_vars
    PROVE  IInv'
<1>1. CASE (Edit \/ Undo \/ Redo) /\ UNCHANGED saveVars
  BY <1>1, InvFacts, EditMoves, UndoMoves, StoreMovesKeepInv
<1>2. CASE Reset
  BY <1>2, InvFacts, ResetMoves, StoreMovesKeepInv DEF Reset
<1>3. ASSUME UNCHANGED storeVars, saved' = saved, disk' = disk, doubts' = doubts, torn' = torn,
             \/ request' = Idle
             \/ request' = request
             \/ /\ request'.doc = doc /\ request'.ops = buildOps
                /\ request'.configDirty = configDirty
      PROVE  IInv'
  <2>1. DiskOK'
    BY <1>3 DEF IInv, DiskOK
  <2>2. Untouched'
    BY <1>3, UntouchedStays DEF IInv
  <2>3. QED
    BY <1>3, <2>1, <2>2, QuietKeepsInv
<1>4. CASE SendDiff
  <2>1. /\ request'.doc = doc /\ request'.ops = buildOps
        /\ request'.configDirty = configDirty
    <3> DEFINE ops == buildOps
               dirty == configDirty
    <3>1. request' = [kind |-> "diff", doc |-> doc, ops |-> ops, configDirty |-> dirty]
      BY <1>4 DEF SendDiff
    <3> HIDE DEF ops, dirty
    <3>2. request'.doc = doc /\ request'.ops = ops /\ request'.configDirty = dirty
      BY <3>1
    <3>3. QED
      BY <3>2 DEF ops, dirty
  <2>2. QED
    BY <1>3, <1>4, <2>1 DEF SendDiff
<1>5. CASE DiffReply
  BY <1>3, <1>5 DEF DiffReply
<1>6. CASE Cancel
  BY <1>3, <1>6 DEF Cancel
<1>7. ASSUME NEW unchecked \in SUBSET ChangedPaths, Confirm(unchecked)
      PROVE  IInv'
  <2>1. /\ request'.doc = doc /\ request'.ops = buildOps
        /\ request'.configDirty = configDirty
    <3> DEFINE ops == buildOps
               dirty == configDirty
               skip == unchecked \cup (IF configDirty THEN {} ELSE {ConfigPath})
    <3>1. request' = [kind |-> "save", doc |-> doc, ops |-> ops, configDirty |-> dirty,
                      review |-> review, skip |-> skip]
      BY <1>7 DEF Confirm
    <3> HIDE DEF ops, dirty, skip
    <3>2. request'.doc = doc /\ request'.ops = ops /\ request'.configDirty = dirty
      BY <3>1
    <3>3. QED
      BY <3>2 DEF ops, dirty
  <2>2. QED
    BY <1>3, <1>7, <2>1 DEF Confirm
<1>8. CASE SaveReply
  BY <1>8, SaveReplyKeepsInv
<1>9. CASE RequestFails
  BY <1>9, RequestFailsKeepsInv
<1>10. CASE UNCHANGED vars
  BY <1>3, <1>10 DEF vars, saveVars
<1>11. QED
  BY <1>1, <1>2, <1>4, <1>5, <1>6, <1>7, <1>8, <1>9, <1>10 DEF Next

-----------------------------------------------------------------------------
(* The loaded project.                                                      *)
LEMMA InitSatisfiesInv ==
    ASSUME Init
    PROVE  IInv
<1> DEFINE rows == InitialRows
           loaded == NamesOf(rows) \ Unreadable
           Of(n) == SelectInSeq(rows, LAMBDA r : r.name = n)
           index == [i \in DOMAIN rows |-> [id |-> i, name |-> rows[i].name, path |-> rows[i].path]]
           t == [n \in loaded |-> [rev |-> 0, of |-> Of(n)]]
           files == [p \in {rows[i].path : i \in DOMAIN rows} |-> 0]
<1>1. /\ doc = [index |-> index, rest |-> 0, schemas |-> t]
      /\ active = IF rows = <<>> THEN Config ELSE rows[1].name
      /\ past = <<>> /\ future = <<>> /\ changes = 0
      /\ tangled = IF HasDuplicates(rows) THEN {"clash"} ELSE {}
      /\ saved = doc /\ request = Idle
      /\ disk = [config |-> ConfigOf(doc), files |-> files]
      /\ doubts = IF SharedFile(doc) THEN {"shared"} ELSE {}
      /\ torn = {}
  BY DEF Init, LoadProject
<1>2. /\ rows \in Seq([name : Names, path : Paths])
      /\ Len(rows) \in Nat /\ MaxRows \in Nat /\ Len(rows) <= MaxRows
      /\ DOMAIN rows = 1 .. Len(rows)
      /\ \A i \in DOMAIN rows : rows[i].name \in Names /\ rows[i].path \in Paths
  <2> DEFINE Loaded == [name : Names, path : Paths]
  <2>1. rows \in Seq(Loaded) /\ MaxRows \in Nat /\ Len(rows) <= MaxRows
    BY SaveAssumption, StoreAssumption
  <2> HIDE DEF Loaded, rows
  <2>2. /\ Len(rows) \in Nat
        /\ DOMAIN rows = 1 .. Len(rows)
        /\ \A i \in DOMAIN rows : rows[i] \in Loaded
    BY <2>1
  <2>3. \A r \in Loaded : r.name \in Names /\ r.path \in Paths
    BY DEF Loaded
  <2>4. QED
    BY <2>1, <2>2, <2>3 DEF Loaded
<1>3. ASSUME NEW n \in NamesOf(rows)
      PROVE  Of(n) \in DOMAIN rows /\ rows[Of(n)].name = n
  <2> DEFINE I == {i \in 1 .. Len(rows) : rows[i].name = n}
  <2>1. I # {} /\ I \subseteq Nat
    BY <1>2 DEF NamesOf
  <2>2. Of(n) = Min(I)
    BY <2>1 DEF SelectInSeq
  <2>3. Min(I) \in I
    <3> HIDE DEF I
    <3>1. QED
      BY <2>1, MinProperties
  <2>4. QED
    BY <1>2, <2>2, <2>3
<1> HIDE DEF Of, rows
<1>4. t \in Tables
  <2>1. \A n \in loaded : [rev |-> 0, of |-> Of(n)] \in Schema
    BY <1>2, <1>3 DEF Schema
  <2>2. DOMAIN t \subseteq Names
    BY <1>2 DEF NamesOf
  <2>3. t = [n \in DOMAIN t |-> t[n]] /\ \A n \in DOMAIN t : t[n] \in Schema
    BY <2>1
  <2> HIDE DEF t
  <2>4. QED
    BY <2>2, <2>3, TableForm
<1>5. /\ index \in Seq(Row) /\ DOMAIN index = DOMAIN rows
      /\ \A i \in DOMAIN rows : /\ index[i].id = i /\ index[i].name = rows[i].name
                                /\ index[i].path = rows[i].path
  <2>1. \A i \in DOMAIN rows : index[i] \in Row
    BY <1>2 DEF Row
  <2>2. QED
    BY <1>2, <2>1
<1>6. /\ DOMAIN t = loaded
      /\ \A n \in loaded : t[n].rev = 0 /\ t[n].of = Of(n)
  OBVIOUS
<1>7. /\ DOMAIN files = {rows[i].path : i \in DOMAIN rows}
      /\ \A p \in DOMAIN files : files[p] = 0
  OBVIOUS
<1> HIDE DEF index, t, files
<1>8. /\ doc.index = index /\ doc.schemas = t /\ doc.rest = 0
      /\ doc \in Document
  BY <1>1, <1>4, <1>5 DEF Document
<1>9. Sound(doc, changes)
  <2>1. \A i \in DOMAIN index : index[i].id \in 1 .. (MaxRows + 0)
    BY <1>2, <1>5
  <2>2. Distinct(index)
    BY <1>5 DEF Distinct
  <2>3. QED
    BY <1>1, <1>8, <2>1, <2>2 DEF Sound
<1>10. Docs = {doc}
  BY <1>1 DEF Docs, Known, ToSet
<1>11. AllSound /\ RequestFits
  BY <1>1, <1>9, <1>10 DEF AllSound, RequestFits
<1>12. Tidy
  <2>1. SUFFICES ASSUME tangled = {}
                 PROVE  Neat(doc) /\ OwnSchemas(doc)
    BY <1>10 DEF Tidy
  <2>2. ~HasDuplicates(rows)
    BY <1>1, <2>1
  <2>3. \A i, j \in DOMAIN rows : rows[i].name = rows[j].name => i = j
    BY <2>2 DEF HasDuplicates
  <2>4. Neat(doc)
    <3>1. ~HasDuplicates(index)
      BY <1>5, <2>3 DEF HasDuplicates
    <3>2. DOMAIN t \subseteq NamesOf(index)
      BY <1>5, <1>6 DEF NamesOf
    <3>3. QED
      BY <1>8, <3>1, <3>2 DEF Neat
  <2>5. OwnSchemas(doc)
    <3>1. SUFFICES ASSUME NEW i \in DOMAIN index, index[i].name \in DOMAIN t
                   PROVE  t[index[i].name].of = index[i].id
      BY <1>8 DEF OwnSchemas
    <3>2. index[i].name = rows[i].name /\ rows[i].name \in NamesOf(rows) /\ index[i].id = i
      BY <1>5 DEF NamesOf
    <3>3. Of(rows[i].name) = i
      BY <1>3, <1>5, <2>3, <3>2
    <3>4. QED
      BY <1>6, <3>1, <3>2, <3>3
  <2>6. QED
    BY <2>4, <2>5
<1>13. disk.config = ConfigOf(doc) /\ disk.files = files
  BY <1>1
<1>14. Untouched
  <2>1. SUFFICES ASSUME doubts \subseteq {"skipped"}
                 PROVE  OnDisk(saved) /\ ~SharedFile(saved)
    BY <1>1 DEF Untouched
  <2>2. ~SharedFile(saved)
    BY <1>1, <2>1
  <2>3. ASSUME NEW i \in DOMAIN index, index[i].name \in DOMAIN t
        PROVE  FileRev(index[i].path) = RevAt(doc, index[i].name)
    <3>1. index[i].path \in DOMAIN files
      BY <1>5, <1>7
    <3>2. FileRev(index[i].path) = 0
      BY <1>7, <1>13, <3>1 DEF FileRev
    <3>3. RevAt(doc, index[i].name) = 0
      BY <1>6, <1>8, <2>3 DEF RevAt
    <3>4. QED
      BY <3>2, <3>3
  <2>4. OnDisk(saved)
    BY <1>1, <1>8, <1>13, <2>3 DEF OnDisk
  <2>5. QED
    BY <2>2, <2>4
<1>15. DiskOK
  BY <1>2, <1>7, <1>13 DEF DiskOK
<1>16. Control
  <2>1. History
    BY <1>1, StoreAssumption DEF History
  <2>2. active \in Names \cup {Config}
    <3>1. rows # <<>> => 1 \in DOMAIN rows
      BY <1>2
    <3>2. QED
      BY <1>1, <1>2, <3>1
  <2>3. QED
    BY <1>1, <2>1, <2>2 DEF Control
<1>17. QED
  BY <1>11, <1>12, <1>14, <1>15, <1>16 DEF IInv

-----------------------------------------------------------------------------
(* Theorems.                                                                *)

LEMMA SaveInvariant == Spec => []IInv
<1>1. Init => IInv
  BY InitSatisfiesInv
<1>2. IInv /\ [Next]_vars => IInv'
  BY NextKeepsInv
<1>3. QED
  BY <1>1, <1>2, PTL DEF Spec

(* Documents, undo history and disk keep their types, row ids stay distinct *)
(* in the document and in the snapshot, and the history never outgrows its  *)
(* limit, for any project, any edits and any requests (store/design.ts,     *)
(* App.tsx performSave).                                                    *)
THEOREM DesignSaveTypes == Spec => []TypeOK
<1>1. ASSUME NEW d, Sound(d, changes)
      PROVE  IsDoc(d) /\ \A i, j \in DOMAIN d.index : d.index[i].id = d.index[j].id => i = j
  <2>1. d.index \in Seq(Row) /\ d.rest \in Nat /\ d.schemas \in Tables
    BY <1>1 DEF Sound, Document
  <2> DEFINE t == d.schemas
  <2>2. t \in Tables
    BY <2>1
  <2> HIDE DEF t
  <2>3. DOMAIN t \subseteq Names /\ \A n \in DOMAIN t : t[n] \in Schema
    BY <2>2, TableForm
  <2>4. IsDoc(d)
    BY <2>1, <2>3 DEF IsDoc, t
  <2>5. QED
    BY <1>1, <2>4 DEF Sound, Distinct
<1>2. IInv => TypeOK
  <2>1. SUFFICES ASSUME IInv
                 PROVE  TypeOK
    OBVIOUS
  <2>2. \A d \in {doc, saved} \cup ToSet(past) \cup ToSet(future) : Sound(d, changes)
    BY <2>1 DEF IInv, AllSound, Docs, Known
  <2>3. QED
    BY <1>1, <2>1, <2>2 DEF IInv, DiskOK, Control, History, TypeOK
<1>3. QED
  BY <1>2, SaveInvariant, PTL

(* The snapshot that "unsaved changes" is measured against is what the disk *)
(* holds, in every state a session can reach: edits, undo and redo at any   *)
(* moment, saves with entries unchecked, and failed ones once they are made *)
(* again, unless one of the other recorded causes applies (App.tsx          *)
(* performSave, api.rs save_project).                                       *)
THEOREM SavedSnapshotIsOnDisk == Spec => []SnapshotIsOnDisk
<1>1. IInv => SnapshotIsOnDisk
  BY DEF IInv, Untouched, SnapshotIsOnDisk
<1>2. QED
  BY <1>1, SaveInvariant, PTL

(* Schemas follow their rows through every edit, undo, redo and revert, as  *)
(* long as names stay distinct, rows are removed from the end and no save   *)
(* leaves a part out (setConfig, createIndex, App.tsx dupIndex).            *)
THEOREM RenamesKeepSchemas == Spec => []RenamesCarrySchemas
<1>1. IInv => RenamesCarrySchemas
  <2>1. doc \in Docs
    BY DEF Docs, Known
  <2>2. OwnSchemas(doc) => SchemasOfRows
    BY DEF OwnSchemas, SchemasOfRows
  <2>3. QED
    BY <2>1, <2>2 DEF IInv, Tidy, RenamesCarrySchemas
<1>2. QED
  BY <1>1, SaveInvariant, PTL

(* What is unchecked in the review stays unsaved.                           *)
StaysOffered ==
    SaveReply /\ doc = request.doc /\ ~HasDuplicates(doc.index) =>
        \A o \in ToSet(request.ops) :
            /\ Unchecked(request, o)
            /\ \/ ConfigSkipped(request)
               \/ o.kind = "upsert" /\ indexDirty(request.doc, o.name)
            => OfferedAgain(o)

(* An unchecked schema keeps its saved revision in the snapshot, or has     *)
(* none: another operation of its row would have been unchecked too.        *)
LEMMA UncheckedIsNotFolded ==
    ASSUME Replying, ~HasDuplicates(request.doc.index),
           NEW o \in ToSet(request.ops), Unchecked(request, o),
           NEW i \in DOMAIN request.doc.index, RowOp(request.doc, request.doc.index[i], o)
    PROVE  RevAt(saved', o.name) \in {RevAt(saved, o.name), -1}
<1>1. \A n \in DOMAIN saved'.schemas : FoldedIn(n) \/ KeptIn(n)
  <2>1. AnySkipped(request)
    BY DEF AnySkipped
  <2>2. QED
    BY <2>1, SnapshotFolds
<1>2. ~FoldedIn(o.name)
  <2>1. SUFFICES ASSUME NEW q \in ToSet(request.ops), q.kind # "delete", q.name = o.name,
                        Reviewed(request, q), ~Unchecked(request, q)
                 PROVE  FALSE
    BY DEF FoldedIn, Applied
  <2>2. PICK j \in DOMAIN request.doc.index : RowOp(request.doc, request.doc.index[j], q)
    BY <2>1 DEF Replying, OpsFit, DeleteOp
  <2>3. request.doc.index[j].name = request.doc.index[i].name
    BY <2>1, <2>2 DEF RowOp
  <2>4. j = i
    BY <2>3 DEF HasDuplicates
  <2>5. q.path = o.path
    BY <2>2, <2>4 DEF RowOp
  <2>6. QED
    BY <2>1, <2>5 DEF Unchecked
<1>3. QED
  BY <1>1, <1>2 DEF KeptIn, RevAt

(* A row of the document whose operation was unchecked is not what the new  *)
(* snapshot has, unless its file only moved and flusso.toml was saved.      *)
LEMMA UncheckedRowDiffers ==
    ASSUME Replying, NEW d, request.doc = d, ~HasDuplicates(d.index),
           NEW o \in ToSet(request.ops), Unchecked(request, o),
           ConfigSkipped(request) \/ indexDirty(d, o.name),
           NEW i \in DOMAIN d.index, RowOp(d, d.index[i], o)
    PROVE  ~Unchanged(d, d.index[i])'
<1> DEFINE r == d.index[i]
<1>1. RevAt(saved', o.name) \in {RevAt(saved, o.name), -1}
  BY UncheckedIsNotFolded
<1>2. o.name \in DOMAIN d.schemas /\ o.name = r.name /\ o.path = r.path /\ d \in Document
  BY DEF Replying, Sound, RowOp
<1>3. RevAt(d, o.name) \in Nat
  BY <1>2, SchemaRev
<1>4. CASE indexDirty(d, o.name)
  <2>1. RevAt(d, r.name) # RevAt(saved', r.name)
    BY <1>1, <1>2, <1>3, <1>4 DEF indexDirty
  <2>2. QED
    BY <2>1 DEF Unchanged, indexDirty, Replying, SaveReply, storeVars
<1>5. CASE ConfigSkipped(request) /\ ~indexDirty(d, o.name)
  <2>1. saved'.index = saved.index
    BY <1>5, SnapshotFolds DEF AnySkipped
  <2>2. ~ \E j \in DOMAIN saved.index : saved.index[j].id = r.id /\ saved.index[j].path = r.path
    <3>1. CASE o.kind = "move"
      <4>1. PICK k \in DOMAIN saved.index : saved.index[k].id = r.id /\ saved.index[k].path = o.from
        BY <3>1 DEF RowOp
      <4>2. o.from # r.path
        BY <1>2, <3>1 DEF RowOp
      <4>3. QED
        BY <4>1, <4>2 DEF Replying, Sound, Distinct
    <3>2. CASE o.kind # "move"
      BY <1>2, <1>5, <3>2 DEF RowOp
    <3>3. QED
      BY <3>1, <3>2
  <2>3. QED
    BY <2>1, <2>2 DEF Unchanged
<1>6. QED
  BY <1>4, <1>5

LEMMA UncheckedStaysOffered ==
    ASSUME IInv, SaveReply, doc = request.doc, ~HasDuplicates(doc.index),
           NEW o \in ToSet(request.ops), Unchecked(request, o),
           \/ ConfigSkipped(request)
           \/ o.kind = "upsert" /\ indexDirty(request.doc, o.name)
    PROVE  OfferedAgain(o)
<1>1. Replying
  BY InvFacts DEF IInv, RequestFits, Replying, SaveReply
<1>2. doc' = doc
  BY DEF SaveReply, storeVars
<1>3. doc' \in Document /\ saved' \in Document
  BY <1>1, <1>2, SnapshotParts DEF Replying, Sound
<1>4. OpsFit(doc, buildOps)'
  <2>1. (doc \in Document /\ saved \in Document => OpsFit(doc, buildOps))'
    BY BuildOpsFit, PTL
  <2>2. QED
    BY <1>3, <2>1
<1>5. CASE DeleteOp(doc, o)
  <2>1. o.kind = "delete" /\ ConfigSkipped(request)
    BY <1>5 DEF DeleteOp
  <2>2. saved'.index = saved.index
    BY <1>1, <2>1, SnapshotFolds DEF AnySkipped
  <2>3. PICK j \in DOMAIN saved'.index :
          /\ o.path = saved'.index[j].path
          /\ \A i \in DOMAIN doc'.index : doc'.index[i].id # saved'.index[j].id
    BY <1>2, <1>5, <2>2 DEF DeleteOp
  <2>4. PICK q \in ToSet(buildOps') : q.kind = "delete" /\ q.path = o.path
    BY <1>4, <2>3 DEF OpsFit
  <2>5. QED
    BY <2>1, <2>4 DEF OfferedAgain
<1>6. CASE ~DeleteOp(doc, o)
  <2>1. PICK i \in DOMAIN doc.index : RowOp(doc, doc.index[i], o)
    BY <1>1, <1>6 DEF Replying, OpsFit
  <2>2. /\ o.name \in DOMAIN doc.schemas /\ o.kind # "delete"
        /\ o.name = doc.index[i].name /\ o.path = doc.index[i].path
    BY <2>1 DEF RowOp
  <2>3. ~Unchanged(doc, doc.index[i])'
    <3>1. PICK d : d = doc
      OBVIOUS
    <3>2. ~Unchanged(d, d.index[i])'
      BY <1>1, <2>1, <3>1, UncheckedRowDiffers
    <3>3. QED
      BY <1>2, <3>1, <3>2 DEF Unchanged, indexDirty
  <2>4. i \in DOMAIN doc'.index /\ doc'.index[i].name \in DOMAIN doc'.schemas
    BY <1>2, <2>2
  <2>5. PICK q \in ToSet(buildOps') : RowOp(doc, doc.index[i], q)'
    BY <1>4, <2>3, <2>4 DEF OpsFit
  <2>6. q.kind # "delete" /\ q.path = o.path
    BY <1>2, <2>2, <2>5 DEF RowOp
  <2>7. QED
    BY <2>2, <2>6 DEF OfferedAgain
<1>7. QED
  BY <1>5, <1>6

(* What was unchecked in a save of the document as it stands is offered     *)
(* again by the next one, if no two rows share a name: everything when      *)
(* flusso.toml was unchecked too, and otherwise every schema edit           *)
(* (performSave, App.tsx:537-541).                                          *)
THEOREM UncheckedIsOfferedAgain == Spec => UncheckedEditsStayDirty
<1>1. IInv /\ [Next]_vars => [StaysOffered]_vars
  BY UncheckedStaysOffered DEF StaysOffered
<1>2. QED
  BY <1>1, SaveInvariant, PTL DEF Spec, UncheckedEditsStayDirty, StaysOffered
=============================================================================
