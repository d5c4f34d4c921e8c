------------------------------ MODULE CodeSync ------------------------------
(* Code mode of the designer (App.tsx): the buffer, the debounced effects    *)
(* that parse it into the document, re-seed it after an index switch and     *)
(* preview the open index, and the replies they wait for, which come in any  *)
(* order. A text is the schema it says, or a Mess that does not parse; the   *)
(* YAML of a schema leaves out its unfinished parts.                         *)
EXTENDS Integers, Sequences, FiniteSets

CONSTANTS Indexes,      \* the indexes of the project
          Config,       \* the deployment screen, as a value of "active"
          Schemas,      \* what an index's schema can say
          Pruned(_),    \* prunedForPreview: a schema without unfinished parts
          Mess,         \* what a text says that does not parse
          First,        \* the schema every index is loaded with
          Nothing,      \* no preview, no timer, no request, no owner
          MaxMoves,     \* bound: the user's steps
          MaxFails,     \* bound: requests that fail
          MaxPreviews   \* bound: preview requests in flight

ASSUME SyncAssumption ==
    /\ Config \notin Indexes
    /\ First \in Schemas
    /\ Mess \notin Schemas
    /\ \A s \in Schemas : Pruned(s) \in Schemas /\ Pruned(Pruned(s)) = Pruned(s)
    /\ Nothing \notin Indexes
    /\ Nothing \notin [index : Indexes, schema : Schemas]
    /\ Nothing \notin [seq : Nat, text : [says : Schemas \cup {Mess}], index : Indexes]
    /\ MaxMoves \in Nat /\ MaxFails \in Nat /\ MaxPreviews \in Nat

VARIABLES versions,   \* the documents undo and redo walk through
          at,         \* the one shown
          active,     \* the open index, or Config
          rawMode,    \* Code mode
          rawText,    \* the buffer
          rawFor,     \* the index the buffer belongs to
          parseSeq,   \* the number of the last parse scheduled
          parseTimer, \* the parse waiting for its 300 ms
          parses,     \* parse requests on their way
          seed,       \* the request for a new buffer that is still alive
          preview,    \* the YAML in the drawer
          viewTimer,  \* the preview waiting for its 250 ms
          views,      \* preview requests on their way
          moves,      \* steps of the user
          fails,      \* requests that failed
          drift       \* history: what may have set buffer and document apart

vars == <<versions, at, active, rawMode, rawText, rawFor, parseSeq, parseTimer, parses,
          seed, preview, viewTimer, views, moves, fails, drift>>

Parse(text) == text.says
Yaml(s) == [says |-> Pruned(s)]
Texts == {[says |-> s] : s \in Schemas \cup {Mess}}
schemas == versions[at]
SchemaOf(doc, index) == IF index = Config THEN Nothing ELSE doc[index]

Owned == rawMode /\ active # Config /\ rawFor = active

----------------------------------------------------------------------------
(* The effects of a render. Each runs again when one of its dependencies has *)
(* changed, after its cleanup.                                               *)

(* The cleanup stops the timer; a request already sent is outrun only by a   *)
(* new sequence number, and there is none while the buffer is another's.     *)
ParseEffect ==
    IF <<rawMode, rawText, active, rawFor>>' = <<rawMode, rawText, active, rawFor>>
    THEN UNCHANGED <<parseSeq, parseTimer>>
    ELSE IF Owned'
    THEN /\ parseSeq' = parseSeq + 1
         /\ parseTimer' = [seq |-> parseSeq', text |-> rawText', index |-> active']
    ELSE /\ parseTimer' = Nothing
         /\ UNCHANGED parseSeq

(* Only the mode and the index are dependencies. *)
Bug_SeedEffectMissesOwner ==
    IF <<rawMode, active>>' = <<rawMode, active>> THEN seed' = IF Owned' THEN Nothing ELSE seed
    ELSE seed' = IF rawMode' /\ active' # Config /\ rawFor' # active'
                 THEN [index |-> active', schema |-> SchemaOf(schemas, active)'] ELSE Nothing

SeedEffect ==
    LET deps == <<rawMode, active, rawFor, SchemaOf(schemas, active)>>
    IN IF deps' = deps THEN UNCHANGED seed
       ELSE seed' = IF rawMode' /\ active' # Config /\ rawFor' # active'
                    THEN [index |-> active', schema |-> SchemaOf(schemas, active)'] ELSE Nothing

(* Also clears the preview on the deployment screen. *)
ViewEffect(shown) ==
    LET deps == <<active, SchemaOf(schemas, active)>>
    IN IF deps' = deps THEN preview' = shown /\ UNCHANGED viewTimer
       ELSE IF active' = Config THEN preview' = Nothing /\ viewTimer' = Nothing
       ELSE /\ viewTimer' = [index |-> active', schema |-> SchemaOf(schemas, active)']
            /\ preview' = shown

Render == ParseEffect /\ SeedEffect /\ ViewEffect(preview)

----------------------------------------------------------------------------
(* The user. *)

Step == moves < MaxMoves /\ moves' = moves + 1

Put(index, s) ==
    IF index = Config \/ schemas[index] = s THEN UNCHANGED <<versions, at>>
    ELSE /\ versions' = Append(SubSeq(versions, 1, at), [schemas EXCEPT ![index] = s])
         /\ at' = at + 1

EditCanvas(s) ==
    /\ Step
    /\ ~rawMode /\ active # Config /\ schemas[active] # s
    /\ Put(active, s)
    /\ UNCHANGED <<active, rawMode, rawText, rawFor, parses, views, fails, drift>>
    /\ Render

Type(text) ==
    /\ Step
    /\ rawMode /\ active # Config /\ text # rawText
    /\ rawText' = text
    /\ drift' = IF Owned THEN {} ELSE drift
    /\ UNCHANGED <<versions, at, active, rawMode, rawFor, parses, views, fails>>
    /\ Render

(* The buffer hears nothing of an undo or a redo. *)
UndoRedo ==
    /\ Step
    /\ at' \in {at - 1, at + 1} \cap DOMAIN versions
    /\ drift' = drift \cup {"undo"}
    /\ UNCHANGED <<versions, active, rawMode, rawText, rawFor, parses, views, fails>>
    /\ Render

Bug_ResetKeepsBuffer ==
    /\ Step
    /\ schemas # versions[1]
    /\ versions' = Append(SubSeq(versions, 1, at), versions[1])
    /\ at' = at + 1
    /\ UNCHANGED <<active, rawMode, rawText, rawFor, parses, views, fails, drift>>
    /\ Render

(* reset: back to the saved document; the buffer is re-seeded. *)
Reset ==
    /\ Step
    /\ schemas # versions[1]
    /\ versions' = Append(SubSeq(versions, 1, at), versions[1])
    /\ at' = at + 1
    /\ rawFor' = IF rawMode THEN Nothing ELSE rawFor
    /\ UNCHANGED <<active, rawMode, rawText, parses, views, fails, drift>>
    /\ Render

(* openIndex from the sidebar, the deployment screen, and both through the   *)
(* address bar, which also sets the mode (applyRoute).                       *)
Visit(index, code) ==
    /\ Step
    /\ <<index, code>> # <<active, rawMode>>
    /\ index = Config => code = rawMode \/ ~code
    /\ active' = index
    /\ rawMode' = code
    /\ UNCHANGED <<versions, at, rawText, rawFor, parses, views, fails>>
    /\ drift' = IF Owned' THEN {} ELSE drift
    /\ Render

(* openRaw: the buffer starts as the drawer's YAML, or the file's. *)
OpenRaw ==
    /\ Step
    /\ ~rawMode /\ active # Config
    /\ rawText' = IF preview = Nothing THEN Yaml(First) ELSE preview.yaml
    /\ rawFor' = active
    /\ rawMode' = TRUE
    /\ drift' = {}
    /\ UNCHANGED <<versions, at, active, parses, views, fails>>
    /\ Render

----------------------------------------------------------------------------
(* Timers and replies. *)

ParseFires ==
    /\ parseTimer # Nothing
    /\ parses' = parses \cup {parseTimer}
    /\ parseTimer' = Nothing
    /\ UNCHANGED <<versions, at, active, rawMode, rawText, rawFor, parseSeq, seed, preview,
                   viewTimer, views, moves, fails, drift>>

Wanted(p) == p.seq = parseSeq /\ rawMode
(* The reply is compared with the index it was asked for and applied to the  *)
(* open one.                                                                 *)
Differs(p) == Parse(p.text) # Mess /\ Parse(p.text) # schemas[p.index]

Bug_ParseReplyUnguarded(p) ==
    /\ p \in parses
    /\ parses' = parses \ {p}
    /\ IF rawMode /\ Differs(p) THEN Put(active, Parse(p.text)) ELSE UNCHANGED <<versions, at>>
    /\ UNCHANGED <<active, rawMode, rawText, rawFor, views, moves, fails, drift>>
    /\ Render

ParseReply(p) ==
    /\ p \in parses
    /\ parses' = parses \ {p}
    /\ IF Wanted(p) /\ Differs(p) THEN Put(active, Parse(p.text)) ELSE UNCHANGED <<versions, at>>
    /\ drift' = IF Wanted(p) /\ active # p.index THEN drift \cup {"crossed"} ELSE drift
    /\ UNCHANGED <<active, rawMode, rawText, rawFor, views, moves, fails>>
    /\ Render

ParseFails(p) ==
    /\ p \in parses
    /\ fails < MaxFails
    /\ fails' = fails + 1
    /\ parses' = parses \ {p}
    /\ drift' = drift \cup {"failed"}
    /\ UNCHANGED <<versions, at, active, rawMode, rawText, rawFor, parseSeq, parseTimer, seed,
                   preview, viewTimer, views, moves>>

Bug_SeedKeepsOwner(text) ==
    /\ rawText' = text
    /\ drift' = {}
    /\ UNCHANGED rawFor

TakeSeed(text) ==
    /\ rawText' = text
    /\ rawFor' = seed.index
    /\ drift' = {}

SeedReply ==
    /\ seed # Nothing
    /\ TakeSeed(Yaml(seed.schema))
    /\ UNCHANGED <<versions, at, active, rawMode, parses, views, moves, fails>>
    /\ Render

(* The file of the index takes the place of a failed reply. *)
SeedFails ==
    /\ seed # Nothing
    /\ fails < MaxFails
    /\ fails' = fails + 1
    /\ TakeSeed(Yaml(First))
    /\ UNCHANGED <<versions, at, active, rawMode, parses, views, moves>>
    /\ Render

ViewFires ==
    /\ viewTimer # Nothing
    /\ Cardinality(views) < MaxPreviews
    /\ views' = views \cup {viewTimer}
    /\ viewTimer' = Nothing
    /\ UNCHANGED <<versions, at, active, rawMode, rawText, rawFor, parseSeq, parseTimer, parses,
                   seed, preview, moves, fails, drift>>

(* Whatever reply comes last is shown. *)
ViewReply(v) ==
    /\ v \in views
    /\ views' = views \ {v}
    /\ preview' = [of |-> v.index, yaml |-> Yaml(v.schema)]
    /\ UNCHANGED <<versions, at, active, rawMode, rawText, rawFor, parseSeq, parseTimer, parses,
                   seed, viewTimer, moves, fails, drift>>

ViewFails(v) ==
    /\ v \in views
    /\ fails < MaxFails
    /\ fails' = fails + 1
    /\ views' = views \ {v}
    /\ UNCHANGED <<versions, at, active, rawMode, rawText, rawFor, parseSeq, parseTimer, parses,
                   seed, preview, viewTimer, moves, drift>>

----------------------------------------------------------------------------
Init ==
    /\ versions = <<[i \in Indexes |-> First]>>
    /\ at = 1
    /\ active \in Indexes \cup {Config}
    /\ rawMode = FALSE
    /\ rawText = [says |-> Mess]
    /\ rawFor = Nothing
    /\ parseSeq = 0
    /\ parseTimer = Nothing
    /\ parses = {}
    /\ seed = Nothing
    /\ preview = Nothing
    /\ viewTimer = IF active = Config THEN Nothing ELSE [index |-> active, schema |-> First]
    /\ views = {}
    /\ moves = 0
    /\ fails = 0
    /\ drift = {}

User ==
    \/ \E s \in Schemas : EditCanvas(s)
    \/ \E text \in Texts : Type(text)
    \/ UndoRedo
    \/ Reset
    \/ \E index \in Indexes \cup {Config}, code \in BOOLEAN : Visit(index, code)
    \/ OpenRaw

Server ==
    \/ ParseFires
    \/ \E p \in parses : ParseReply(p) \/ ParseFails(p)
    \/ SeedReply
    \/ SeedFails
    \/ ViewFires
    \/ \E v \in views : ViewReply(v) \/ ViewFails(v)

Next == User \/ Server

Spec == Init /\ [][Next]_vars

(* A timer that is set fires, and a request that is sent is answered.        *)
FairSpec ==
    /\ Spec
    /\ WF_vars(ParseFires)
    /\ WF_vars(\E p \in parses : ParseReply(p) \/ ParseFails(p))
    /\ WF_vars(SeedReply \/ SeedFails)
    /\ WF_vars(ViewFires)
    /\ WF_vars(\E v \in views : ViewReply(v) \/ ViewFails(v))

----------------------------------------------------------------------------
(* Properties *)

(* Types; and a buffer request is alive exactly while the open index has no  *)
(* buffer of its own (the effect of App.tsx:400).                            *)
TypeOK ==
    /\ at \in DOMAIN versions
    /\ \A k \in DOMAIN versions : versions[k] \in [Indexes -> Schemas]
    /\ active \in Indexes \cup {Config}
    /\ rawText \in Texts
    /\ rawFor \in Indexes \cup {Nothing}
    /\ \A p \in parses : p.seq <= parseSeq
    /\ (seed # Nothing) = (rawMode /\ active # Config /\ rawFor # active)

(* While the buffer is the open index's own, a parse reply changes the       *)
(* document only to what the buffer says now, however replies are ordered    *)
(* ("The sequence guard drops out-of-order replies", App.tsx:366).           *)
AppliedIsCurrent ==
    [][(\E p \in parses : ParseReply(p)) /\ Owned /\ schemas' # schemas =>
          schemas' = [schemas EXCEPT ![active] = Parse(rawText)]]_vars

Waiting == parseTimer # Nothing \/ \E p \in parses : p.seq = parseSeq

(* When no parse is waiting, the document says what the buffer says, unless  *)
(* it does not parse, an undo or redo came since, the request failed, or the *)
(* reply was spent on another index.                                         *)
QuietAgrees ==
    Owned /\ ~Waiting /\ drift = {} /\ Parse(rawText) # Mess =>
        schemas[active] = Parse(rawText)

(* A parse reply changes no index but the one whose buffer was parsed        *)
(* ("Gating the sync on it is what keeps an index switch from parsing the    *)
(* *previous* index's YAML into the new one", App.tsx:369).                  *)
NothingCrosses ==
    [][\A p \in parses : ParseReply(p) /\ schemas' # schemas =>
          \A i \in Indexes \ {p.index} : schemas'[i] = schemas[i]]_vars

(* Once the user rests, every timer and request is spent and the index open  *)
(* in Code mode has its own buffer.                                          *)
Settles ==
    <>[](/\ ~Waiting /\ seed = Nothing /\ viewTimer = Nothing /\ views = {}
         /\ rawMode /\ active # Config => rawFor = active)
=============================================================================
