--------------------------- MODULE CodeSyncProofs ---------------------------
(* Proofs about Code mode, for any indexes and schemas and any number of     *)
(* steps, failures and previews in flight. The invariant says where every    *)
(* timer and request comes from: the one parse that may still be applied     *)
(* carries the buffer of now.                                                *)
EXTENDS CodeSync, SequenceTheorems, TLAPS

ParseCall == [seq : Nat, text : Texts, index : Indexes]
SeedCall == [index : Indexes, schema : Schemas]

DocTypes ==
    /\ versions \in Seq([Indexes -> Schemas])
    /\ at \in 1..Len(versions)
ScreenTypes ==
    /\ active \in Indexes \cup {Config}
    /\ rawMode \in BOOLEAN
    /\ rawText \in Texts
    /\ rawFor \in Indexes \cup {Nothing}
CallTypes == parseSeq \in Nat /\ parses \subseteq ParseCall
SeedTypes ==
    /\ seed # Nothing => seed \in SeedCall
    /\ (seed # Nothing) = (rawMode /\ active # Config /\ rawFor # active)
PreviewTypes ==
    /\ preview # Nothing => preview.yaml \in Texts
    /\ viewTimer # Nothing => viewTimer.schema \in Schemas
    /\ \A v \in views : v.schema \in Schemas

(* A timer that is set belongs to the buffer of now and carries the last     *)
(* number.                                                                   *)
TimerCurrent ==
    parseTimer # Nothing =>
        Owned /\ parseTimer = [seq |-> parseSeq, text |-> rawText, index |-> active]
(* No request has a number yet to come; the one with the last number was     *)
(* sent for the buffer of now, while there is one.                           *)
CallsCurrent ==
    \A p \in parses :
        /\ p.seq <= parseSeq
        /\ p.seq = parseSeq /\ Owned => p.text = rawText /\ p.index = active

IInv == /\ DocTypes /\ ScreenTypes /\ CallTypes /\ SeedTypes /\ PreviewTypes
        /\ TimerCurrent /\ CallsCurrent /\ QuietAgrees

-----------------------------------------------------------------------------
(* What an edit of the document does: one more version, the one shown.       *)
LEMMA NewVersion ==
    ASSUME DocTypes, NEW d \in [Indexes -> Schemas],
           versions' = Append(SubSeq(versions, 1, at), d), at' = at + 1
    PROVE  DocTypes' /\ schemas' = d
<1>1. SubSeq(versions, 1, at) \in Seq([Indexes -> Schemas]) /\ Len(SubSeq(versions, 1, at)) = at
  BY SubSeqProperties DEF DocTypes
<1>2. QED
  BY <1>1, AppendProperties DEF DocTypes, schemas

(* The texts a schema is written as.                                         *)
LEMMA YamlIsText == \A s \in Schemas : Yaml(s) \in Texts
  BY SyncAssumption DEF Yaml, Texts

LEMMA SchemasAreDocument == DocTypes => schemas \in [Indexes -> Schemas]
  BY DEF DocTypes, schemas

(* The effect that parses: whatever changes, timer and requests stay those   *)
(* of the buffer.                                                            *)
LEMMA ParseEffectKeeps ==
    ASSUME ScreenTypes, ScreenTypes', CallTypes, TimerCurrent, CallsCurrent,
           parses' \subseteq parses, ParseEffect
    PROVE  CallTypes' /\ TimerCurrent' /\ CallsCurrent'
<1>1. CASE <<rawMode, rawText, active, rawFor>>' = <<rawMode, rawText, active, rawFor>>
  BY <1>1 DEF ParseEffect, CallTypes, TimerCurrent, CallsCurrent, Owned
<1>2. CASE /\ <<rawMode, rawText, active, rawFor>>' # <<rawMode, rawText, active, rawFor>>
           /\ Owned'
  <2>1. parseSeq' = parseSeq + 1 /\ CallTypes'
    BY <1>2 DEF ParseEffect, CallTypes
  <2>2. \A p \in parses' : p.seq < parseSeq'
    BY <2>1 DEF CallTypes, CallsCurrent, ParseCall
  <2>3. CallsCurrent'
    BY <2>1, <2>2 DEF CallsCurrent, CallTypes, ParseCall
  <2>4. TimerCurrent'
    BY <1>2 DEF ParseEffect, TimerCurrent
  <2>5. QED
    BY <2>1, <2>3, <2>4
<1>3. CASE /\ <<rawMode, rawText, active, rawFor>>' # <<rawMode, rawText, active, rawFor>>
           /\ ~Owned'
  BY <1>3 DEF ParseEffect, CallTypes, TimerCurrent, CallsCurrent
<1>4. QED
  BY <1>1, <1>2, <1>3

(* The effect that re-seeds: a request for a buffer is alive exactly while   *)
(* the open index has none.                                                  *)
LEMMA SeedEffectKeeps ==
    ASSUME DocTypes', ScreenTypes', SeedTypes, SeedEffect
    PROVE  SeedTypes'
<1>1. CASE <<rawMode, active, rawFor, SchemaOf(schemas, active)>>'
           = <<rawMode, active, rawFor, SchemaOf(schemas, active)>>
  BY <1>1 DEF SeedEffect, SeedTypes
<1>2. CASE /\ <<rawMode, active, rawFor, SchemaOf(schemas, active)>>'
              # <<rawMode, active, rawFor, SchemaOf(schemas, active)>>
           /\ rawMode' /\ active' # Config /\ rawFor' # active'
  <2>1. seed' = [index |-> active', schema |-> SchemaOf(schemas, active)']
    BY <1>2 DEF SeedEffect
  <2>2. SchemaOf(schemas, active)' \in Schemas /\ active' \in Indexes
    BY <1>2 DEF DocTypes, ScreenTypes, SchemaOf, schemas
  <2>3. seed' \in SeedCall /\ seed' # Nothing
    BY <2>1, <2>2, SyncAssumption DEF SeedCall
  <2>4. QED
    BY <1>2, <2>3 DEF SeedTypes
<1>3. CASE /\ <<rawMode, active, rawFor, SchemaOf(schemas, active)>>'
              # <<rawMode, active, rawFor, SchemaOf(schemas, active)>>
           /\ ~(rawMode' /\ active' # Config /\ rawFor' # active')
  BY <1>3 DEF SeedEffect, SeedTypes
<1>4. QED
  BY <1>1, <1>2, <1>3

(* The effect that previews keeps what it shows a text.                      *)
LEMMA ViewEffectKeeps ==
    ASSUME DocTypes', ScreenTypes', PreviewTypes, views' = views, ViewEffect(preview)
    PROVE  PreviewTypes'
<1>1. CASE <<active, SchemaOf(schemas, active)>>' = <<active, SchemaOf(schemas, active)>>
  BY <1>1 DEF ViewEffect, PreviewTypes
<1>2. CASE /\ <<active, SchemaOf(schemas, active)>>' # <<active, SchemaOf(schemas, active)>>
           /\ active' = Config
  BY <1>2 DEF ViewEffect, PreviewTypes
<1>3. CASE /\ <<active, SchemaOf(schemas, active)>>' # <<active, SchemaOf(schemas, active)>>
           /\ active' # Config
  <2>1. SchemaOf(schemas, active)' \in Schemas
    BY <1>3 DEF DocTypes, ScreenTypes, SchemaOf, schemas
  <2>2. QED
    BY <1>3, <2>1 DEF ViewEffect, PreviewTypes
<1>4. QED
  BY <1>1, <1>2, <1>3

(* The three effects together, after a step that leaves no new parse and no  *)
(* new preview in flight (App.tsx:348-418).                                  *)
LEMMA RenderKeeps ==
    ASSUME ScreenTypes, CallTypes, SeedTypes, PreviewTypes, TimerCurrent, CallsCurrent,
           DocTypes', ScreenTypes', parses' \subseteq parses, views' = views, Render
    PROVE  CallTypes' /\ SeedTypes' /\ PreviewTypes' /\ TimerCurrent' /\ CallsCurrent'
  BY ParseEffectKeeps, SeedEffectKeeps, ViewEffectKeeps DEF Render

(* A buffer that has changed, or come to another index, waits for its parse. *)
LEMMA NewBufferWaits ==
    ASSUME ScreenTypes', CallTypes, ParseEffect, Owned',
           <<rawMode, rawText, active, rawFor>>' # <<rawMode, rawText, active, rawFor>>
    PROVE  Waiting'
<1>1. parseTimer' = [seq |-> parseSeq', text |-> rawText', index |-> active'] /\ parseSeq' \in Nat
  BY DEF ParseEffect, CallTypes
<1>2. rawText' \in [says : Schemas \cup {Mess}] /\ active' \in Indexes
  BY DEF ScreenTypes, Owned, Texts
<1>3. parseTimer' # Nothing
  BY <1>1, <1>2, SyncAssumption
<1>4. QED
  BY <1>3 DEF Waiting

(* Put on the index it is given, or on nothing on the deployment screen.     *)
LEMMA PutKeeps ==
    ASSUME DocTypes, NEW index \in Indexes \cup {Config}, NEW s \in Schemas, Put(index, s)
    PROVE  /\ DocTypes'
           /\ index # Config => schemas' = [schemas EXCEPT ![index] = s]
<1>1. schemas \in [Indexes -> Schemas]
  BY SchemasAreDocument
<1>2. CASE index = Config
  BY <1>2 DEF Put, DocTypes
<1>3. CASE index # Config /\ schemas[index] = s
  <2>1. versions' = versions /\ at' = at
    BY <1>3 DEF Put
  <2>2. schemas' = schemas
    BY <2>1 DEF schemas
  <2>3. schemas = [schemas EXCEPT ![index] = s]
    BY <1>1, <1>3
  <2>4. QED
    BY <2>1, <2>2, <2>3 DEF DocTypes
<1>4. CASE index # Config /\ schemas[index] # s
  <2>1. /\ versions' = Append(SubSeq(versions, 1, at), [schemas EXCEPT ![index] = s])
        /\ at' = at + 1
    BY <1>4 DEF Put
  <2>2. [schemas EXCEPT ![index] = s] \in [Indexes -> Schemas]
    BY <1>1
  <2>3. QED
    BY <2>1, <2>2, NewVersion
<1>5. QED
  BY <1>2, <1>3, <1>4

-----------------------------------------------------------------------------
LEMMA InitHolds == Init => IInv
<1> SUFFICES ASSUME Init PROVE IInv
  OBVIOUS
<1>1. DocTypes
  BY SyncAssumption DEF Init, DocTypes
<1>2. ScreenTypes
  BY DEF Init, ScreenTypes, Texts
<1>3. CallTypes /\ TimerCurrent /\ CallsCurrent /\ SeedTypes /\ QuietAgrees
  BY DEF Init, CallTypes, TimerCurrent, CallsCurrent, SeedTypes, QuietAgrees, Owned
<1>4. PreviewTypes
  BY SyncAssumption DEF Init, PreviewTypes
<1>5. QED
  BY <1>1, <1>2, <1>3, <1>4 DEF IInv

(* A parse reply: what it applies is what the buffer says, or it is not for  *)
(* the buffer of now (parse, App.tsx:382-391).                               *)
LEMMA ReplyApplies ==
    ASSUME IInv, NEW p \in parses, ParseReply(p)
    PROVE  /\ DocTypes'
           /\ Owned /\ schemas' # schemas =>
                  schemas' = [schemas EXCEPT ![active] = Parse(rawText)]
           /\ Wanted(p) /\ Owned /\ Parse(rawText) # Mess => schemas'[active] = Parse(rawText)
           /\ ~Wanted(p) => schemas' = schemas
<1>1. /\ p \in ParseCall /\ p.text \in Texts /\ Parse(p.text) \in Schemas \cup {Mess}
      /\ schemas \in [Indexes -> Schemas]
  BY SchemasAreDocument DEF IInv, CallTypes, ParseCall, Parse, Texts
<1>2. CASE Wanted(p) /\ Differs(p)
  <2>1. Put(active, Parse(p.text)) /\ Parse(p.text) \in Schemas
    BY <1>1, <1>2 DEF ParseReply, Differs
  <2>2. /\ DocTypes'
        /\ active # Config => schemas' = [schemas EXCEPT ![active] = Parse(p.text)]
    BY <2>1, PutKeeps DEF IInv, ScreenTypes
  <2>3. Owned => p.text = rawText /\ active # Config /\ active \in Indexes
    BY <1>2 DEF IInv, CallsCurrent, Wanted, Owned, ScreenTypes
  <2>4. QED
    BY <1>1, <1>2, <2>2, <2>3
<1>3. CASE ~(Wanted(p) /\ Differs(p))
  <2>1. versions' = versions /\ at' = at
    BY <1>3 DEF ParseReply
  <2>2. DocTypes' /\ schemas' = schemas
    BY <2>1 DEF IInv, DocTypes, schemas
  <2>3. Wanted(p) /\ Owned => p.text = rawText /\ p.index = active
    BY DEF IInv, CallsCurrent, Wanted
  <2>4. Wanted(p) /\ Owned /\ Parse(rawText) # Mess => schemas[active] = Parse(rawText)
    BY <1>3, <2>3 DEF Differs
  <2>5. QED
    BY <2>2, <2>4
<1>4. QED
  BY <1>2, <1>3

LEMMA StepKeeps == IInv /\ [Next]_vars => IInv'
<1> SUFFICES ASSUME IInv, [Next]_vars PROVE IInv'
  OBVIOUS
<1> USE DEF IInv
<1>1. ASSUME NEW s \in Schemas, EditCanvas(s) PROVE IInv'
  <2>1. DocTypes'
    BY <1>1, PutKeeps DEF EditCanvas, ScreenTypes
  <2>2. ScreenTypes' /\ ~Owned'
    BY <1>1 DEF EditCanvas, ScreenTypes, Owned
  <2>3. CallTypes' /\ SeedTypes' /\ PreviewTypes' /\ TimerCurrent' /\ CallsCurrent'
    BY <1>1, <2>1, <2>2, RenderKeeps DEF EditCanvas
  <2>4. QuietAgrees'
    BY <2>2 DEF QuietAgrees
  <2>5. QED
    BY <2>1, <2>2, <2>3, <2>4
<1>2. ASSUME NEW t \in Texts, Type(t) PROVE IInv'
  <2>1. DocTypes' /\ ScreenTypes'
    BY <1>2 DEF Type, DocTypes, ScreenTypes
  <2>2. CallTypes' /\ SeedTypes' /\ PreviewTypes' /\ TimerCurrent' /\ CallsCurrent'
    BY <1>2, <2>1, RenderKeeps DEF Type
  <2>3. Owned' => Waiting'
    BY <1>2, <2>1, NewBufferWaits DEF Type, Render
  <2>4. QED
    BY <2>1, <2>2, <2>3 DEF QuietAgrees
<1>3. ASSUME UndoRedo PROVE IInv'
  <2>1. DocTypes' /\ ScreenTypes'
    BY <1>3 DEF UndoRedo, DocTypes, ScreenTypes
  <2>2. CallTypes' /\ SeedTypes' /\ PreviewTypes' /\ TimerCurrent' /\ CallsCurrent'
    BY <1>3, <2>1, RenderKeeps DEF UndoRedo
  <2>3. drift' # {}
    BY <1>3 DEF UndoRedo
  <2>4. QED
    BY <2>1, <2>2, <2>3 DEF QuietAgrees
<1>4. ASSUME Reset PROVE IInv'
  <2>1. versions[1] \in [Indexes -> Schemas]
    BY DEF DocTypes
  <2>2. DocTypes'
    BY <1>4, <2>1, NewVersion DEF Reset
  <2>3. ScreenTypes'
    BY <1>4 DEF Reset, ScreenTypes
  <2>4. CallTypes' /\ SeedTypes' /\ PreviewTypes' /\ TimerCurrent' /\ CallsCurrent'
    BY <1>4, <2>2, <2>3, RenderKeeps DEF Reset
  <2>5. ~Owned'
    BY <1>4, SyncAssumption DEF Reset, ScreenTypes, Owned
  <2>6. QED
    BY <2>2, <2>3, <2>4, <2>5 DEF QuietAgrees
<1>5. ASSUME NEW index \in Indexes \cup {Config}, NEW code \in BOOLEAN, Visit(index, code)
      PROVE  IInv'
  <2>1. DocTypes' /\ ScreenTypes'
    BY <1>5 DEF Visit, DocTypes, ScreenTypes
  <2>2. CallTypes' /\ SeedTypes' /\ PreviewTypes' /\ TimerCurrent' /\ CallsCurrent'
    BY <1>5, <2>1, RenderKeeps DEF Visit
  <2>3. Owned' => Waiting'
    BY <1>5, <2>1, NewBufferWaits DEF Visit, Render
  <2>4. QED
    BY <2>1, <2>2, <2>3 DEF QuietAgrees
<1>6. ASSUME OpenRaw PROVE IInv'
  <2>1. rawText' \in Texts
    BY <1>6, YamlIsText, SyncAssumption DEF OpenRaw, PreviewTypes
  <2>2. DocTypes' /\ ScreenTypes'
    BY <1>6, <2>1 DEF OpenRaw, DocTypes, ScreenTypes
  <2>3. CallTypes' /\ SeedTypes' /\ PreviewTypes' /\ TimerCurrent' /\ CallsCurrent'
    BY <1>6, <2>2, RenderKeeps DEF OpenRaw
  <2>4. Owned' => Waiting'
    BY <1>6, <2>2, NewBufferWaits DEF OpenRaw, Render
  <2>5. QED
    BY <2>2, <2>3, <2>4 DEF QuietAgrees
<1>7. ASSUME ParseFires PROVE IInv'
  <2>1. parseTimer = [seq |-> parseSeq, text |-> rawText, index |-> active] /\ Owned
    BY <1>7 DEF ParseFires, TimerCurrent
  <2>2. DocTypes' /\ ScreenTypes' /\ SeedTypes' /\ PreviewTypes' /\ TimerCurrent'
    BY <1>7 DEF ParseFires, DocTypes, ScreenTypes, SeedTypes, PreviewTypes, TimerCurrent, schemas
  <2>3. parseTimer \in ParseCall
    BY <2>1 DEF ParseCall, CallTypes, ScreenTypes, Owned
  <2>4. CallTypes'
    BY <1>7, <2>3 DEF ParseFires, CallTypes
  <2>5. CallsCurrent'
    BY <1>7, <2>1 DEF ParseFires, CallsCurrent, CallTypes, Owned
  <2>6. Waiting'
    BY <1>7, <2>1 DEF ParseFires, Waiting
  <2>7. QED
    BY <2>2, <2>4, <2>5, <2>6 DEF QuietAgrees
<1>8. ASSUME NEW p \in parses, ParseReply(p) PROVE IInv'
  <2>1. DocTypes' /\ ScreenTypes'
    BY <1>8, ReplyApplies DEF ParseReply, ScreenTypes
  <2>2. CallTypes' /\ SeedTypes' /\ PreviewTypes' /\ TimerCurrent' /\ CallsCurrent'
    BY <1>8, <2>1, RenderKeeps DEF ParseReply
  <2>3. /\ Owned' = Owned /\ active' = active /\ rawText' = rawText
        /\ parseTimer' = parseTimer /\ parseSeq' = parseSeq
    BY <1>8 DEF ParseReply, Owned, Render, ParseEffect
  <2>4. CASE Wanted(p)
    <3>1. Owned /\ Parse(rawText) # Mess => schemas'[active] = Parse(rawText)
      BY <1>8, <2>4, ReplyApplies
    <3>2. Parse(rawText)' = Parse(rawText)
      BY <2>3 DEF Parse
    <3>3. QuietAgrees'
      BY <2>3, <3>1, <3>2 DEF QuietAgrees
    <3>4. QED
      BY <2>1, <2>2, <3>3
  <2>5. CASE ~Wanted(p)
    <3>1. schemas' = schemas /\ drift' = drift /\ parses' = parses \ {p}
      BY <1>8, <2>5, ReplyApplies DEF ParseReply
    <3>2. Owned => Waiting' = Waiting
      BY <2>3, <2>5, <3>1 DEF Waiting, Wanted, Owned
    <3>3. QuietAgrees'
      BY <2>3, <3>1, <3>2 DEF QuietAgrees, Parse
    <3>4. QED
      BY <2>1, <2>2, <3>3
  <2>6. QED
    BY <2>1, <2>2, <2>4, <2>5
<1>9. ASSUME NEW p \in parses, ParseFails(p) PROVE IInv'
  <2>1. DocTypes' /\ ScreenTypes' /\ SeedTypes' /\ PreviewTypes' /\ TimerCurrent'
    BY <1>9 DEF ParseFails, DocTypes, ScreenTypes, SeedTypes, PreviewTypes, TimerCurrent, Owned
  <2>2. CallTypes' /\ CallsCurrent'
    BY <1>9 DEF ParseFails, CallTypes, CallsCurrent, Owned
  <2>3. drift' # {}
    BY <1>9 DEF ParseFails
  <2>4. QED
    BY <2>1, <2>2, <2>3 DEF QuietAgrees
<1>10. ASSUME seed # Nothing, NEW t \in Texts, TakeSeed(t), Render,
              UNCHANGED <<versions, at, active, rawMode, parses, views>>
       PROVE  IInv'
  <2>1. DocTypes' /\ ScreenTypes'
    BY <1>10 DEF TakeSeed, DocTypes, ScreenTypes, SeedTypes, SeedCall
  <2>2. CallTypes' /\ SeedTypes' /\ PreviewTypes' /\ TimerCurrent' /\ CallsCurrent'
    BY <1>10, <2>1, RenderKeeps
  <2>3. rawFor # active
    BY <1>10 DEF SeedTypes
  <2>4. Owned' => Waiting'
    BY <1>10, <2>1, <2>3, NewBufferWaits DEF Render, Owned
  <2>5. QED
    BY <2>1, <2>2, <2>4 DEF QuietAgrees
<1>11. ASSUME SeedReply PROVE IInv'
  <2>1. Yaml(seed.schema) \in Texts
    BY <1>11, YamlIsText DEF SeedReply, SeedTypes, SeedCall
  <2>2. QED
    BY <1>10, <1>11, <2>1 DEF SeedReply
<1>12. ASSUME SeedFails PROVE IInv'
  <2>1. Yaml(First) \in Texts
    BY YamlIsText, SyncAssumption
  <2>2. QED
    BY <1>10, <1>12, <2>1 DEF SeedFails
<1>13. ASSUME ViewFires \/ (\E v \in views : ViewReply(v) \/ ViewFails(v)) PROVE IInv'
  <2>1. UNCHANGED <<versions, at, active, rawMode, rawText, rawFor, parseSeq, parseTimer,
                    parses, seed, drift>>
    BY <1>13 DEF ViewFires, ViewReply, ViewFails
  <2>2. DocTypes' /\ ScreenTypes' /\ CallTypes' /\ SeedTypes' /\ TimerCurrent' /\ CallsCurrent'
    BY <2>1 DEF DocTypes, ScreenTypes, CallTypes, SeedTypes, TimerCurrent, CallsCurrent, Owned
  <2>3. QuietAgrees'
    BY <2>1 DEF QuietAgrees, Owned, Waiting, schemas
  <2>4. PreviewTypes'
    BY <1>13, YamlIsText DEF ViewFires, ViewReply, ViewFails, PreviewTypes
  <2>5. QED
    BY <2>2, <2>3, <2>4
<1>14. ASSUME UNCHANGED vars PROVE IInv'
  BY <1>14 DEF vars, DocTypes, ScreenTypes, CallTypes, SeedTypes, PreviewTypes, TimerCurrent,
     CallsCurrent, QuietAgrees, Owned, Waiting, schemas
<1>15. QED
  BY <1>1, <1>2, <1>3, <1>4, <1>5, <1>6, <1>7, <1>8, <1>9, <1>11, <1>12, <1>13, <1>14
     DEF Next, User, Server

-----------------------------------------------------------------------------
LEMMA Invariance == Spec => []IInv
  BY InitHolds, StepKeeps, PTL DEF Spec

(* Code mode keeps its types: an undo or redo shows a document that exists,  *)
(* no parse has a number yet to come, and a request for a new buffer is      *)
(* alive exactly while the open index has none of its own, whatever the      *)
(* order of switches, resets and replies (App.tsx:397-418).                  *)
THEOREM CodeSyncTypes == Spec => []TypeOK
<1>1. IInv => TypeOK
  BY DEF IInv, TypeOK, DocTypes, ScreenTypes, SeedTypes, CallsCurrent
<1>2. QED
  BY <1>1, Invariance, PTL

(* While the buffer is the open index's own, a parse reply applies only what *)
(* the buffer says now ("The sequence guard drops out-of-order replies",     *)
(* App.tsx:366), for any number of requests in flight in any order.          *)
THEOREM RepliesAreCurrent == Spec => AppliedIsCurrent
<1>1. IInv /\ [Next]_vars =>
        [(\E p \in parses : ParseReply(p)) /\ Owned /\ schemas' # schemas =>
            schemas' = [schemas EXCEPT ![active] = Parse(rawText)]]_vars
  BY ReplyApplies
<1>2. QED
  BY <1>1, Invariance, PTL DEF Spec, AppliedIsCurrent

(* When no parse is waiting, the open index says what its buffer says        *)
(* (App.tsx:363-395), but for the recorded causes.                           *)
THEOREM QuietBufferAgrees == Spec => []QuietAgrees
<1>1. IInv => QuietAgrees
  BY DEF IInv
<1>2. QED
  BY <1>1, Invariance, PTL
=============================================================================
