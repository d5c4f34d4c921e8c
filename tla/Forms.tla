-------------------------------- MODULE Forms --------------------------------
(* The form editors of the designer: the deployment panel's sinks and the    *)
(* options of their adapters (ConfigPanel.tsx, AdapterForm.tsx), the         *)
(* inspector's list editors (Inspector.tsx, Filters.tsx), the boxes that     *)
(* edit a value as JSON (widgets.tsx) and the new-index wizard (App.tsx).    *)
(* Each editor is a pure function of its value and of what it keeps itself,  *)
(* so a behaviour is about one of them. "" is a blank text.                  *)
EXTENDS Integers, Sequences, FiniteSets, SequencesExt

CONSTANTS Editors,     \* the editors a behaviour can be about
          ArrayKeys,   \* the keys that are array indices to JavaScript, ascending
          SinkTexts,   \* what is typed as the name of a sink
          Words,       \* what is typed anywhere else
          SinkKinds,   \* the options of each sink adapter; its example sets them
          OptionNames, \* the options of an adapter's form
          MaxItems     \* bound: entries of a list

VARIABLES form,      \* the editor
          value,     \* what it edits
          text,      \* its own state: drafts, the text of a box
          clobbered  \* history: the last step took the name of another entry

formsVars == <<form, value, text, clobbered>>

Now(next) == value' = next /\ UNCHANGED form
Set(next) == Now(next) /\ UNCHANGED text /\ clobbered' = FALSE
Room == Len(value) < MaxItems
Unset == "unset"

----------------------------------------------------------------------------
(* A JavaScript object as the sequence of its entries: the keys that are     *)
(* array indices come first, ascending, and any other new key goes last.     *)

Keys(entries) == {entries[i].key : i \in DOMAIN entries}
Place(entries, k) == SelectInSeq(entries, LAMBDA e : e.key = k)
IsIndex(k) == k \in ToSet(ArrayKeys)
Slot(entries, k) ==
    LET smaller == {ArrayKeys[i] : i \in {i \in DOMAIN ArrayKeys :
                        \E j \in DOMAIN ArrayKeys : i < j /\ ArrayKeys[j] = k}}
    IN IF IsIndex(k) THEN 1 + Cardinality(Keys(entries) \cap smaller) ELSE Len(entries) + 1
Put(entries, k, v) ==
    IF k \in Keys(entries) THEN [entries EXCEPT ![Place(entries, k)].val = v]
    ELSE InsertAt(entries, Slot(entries, k), [key |-> k, val |-> v])
Without(entries, k) == SelectSeq(entries, LAMBDA e : e.key # k)
Bug_Rekey(entries, from, to) ==    \* deletes the old key and writes the new one
    Put(Without(entries, from), to, entries[Place(entries, from)].val)
(* The entries copied in their order to a new object. *)
Rekey(entries, from, to) ==
    FoldLeft(LAMBDA out, e : Put(out, IF e.key = from THEN to ELSE e.key, e.val), <<>>, entries)
Numbered(base, entries) == base \o ToString(Len(entries) + 1)

----------------------------------------------------------------------------
(* Sinks. A card is mounted by its sink's name and keeps a draft of it.      *)

Example(kind) == [kind |-> kind, set |-> SinkKinds[kind], backfill |-> TRUE]
Cards == text' = [n \in Keys(value') |-> IF n \in DOMAIN text THEN text[n] ELSE n]
SetSink(n, sink) == Now(Put(value, n, sink)) /\ Cards /\ clobbered' = FALSE
SinkAt(n) == value[Place(value, n)].val

renameSink(from, to) ==
    /\ IF to = "" \/ to = from \/ to \in Keys(value) THEN Now(value) ELSE Now(Rekey(value, from, to))
    /\ Cards
    /\ clobbered' = FALSE

DraftName(n, t) ==
    /\ t # text[n]
    /\ text' = [text EXCEPT ![n] = t]
    /\ UNCHANGED <<form, value, clobbered>>
(* Blur or Enter: a blank, unchanged or taken name is put back.              *)
commitName(n) ==
    IF text[n] \in {""} \cup Keys(value)
    THEN /\ text' = [text EXCEPT ![n] = n]
         /\ UNCHANGED <<form, value, clobbered>>
    ELSE renameSink(n, text[n])

(* The kind brings its example's options and leaves "backfill" as it is; an  *)
(* option that is cleared goes from the entry.                               *)
SinkEditor(n) ==
    \/ \E t \in SinkTexts : DraftName(n, t)
    \/ commitName(n)
    \/ \E kind \in DOMAIN SinkKinds : SetSink(n, [Example(kind) EXCEPT !.backfill = SinkAt(n).backfill])
    \/ \E o \in SinkKinds[SinkAt(n).kind] : SetSink(n, [SinkAt(n) EXCEPT !.set = @ \cup {o}])
    \/ \E o \in SinkAt(n).set : SetSink(n, [SinkAt(n) EXCEPT !.set = @ \ {o}])
    \/ SetSink(n, [SinkAt(n) EXCEPT !.backfill = ~@])
removeSink(n) == Now(Without(value, n)) /\ Cards /\ clobbered' = FALSE
(* The new sink is numbered by how many there are. *)
AddSink ==
    /\ Room
    /\ Now(Put(value, Numbered("sink", value), Example(CHOOSE k \in DOMAIN SinkKinds : TRUE)))
    /\ Cards
    /\ clobbered' = (Numbered("sink", value) \in Keys(value))

Sinks == (\E n \in Keys(value) : SinkEditor(n) \/ removeSink(n)) \/ AddSink

----------------------------------------------------------------------------
(* An option that is a secret, or a table of parts. A mode picks the shape.  *)

Secret(shape, v) == [shape |-> shape, val |-> v, parts |-> {}]
ModeOf(v) == IF v.shape \in {"env", "parts"} THEN v.shape ELSE "literal"
OptionInput ==
    \/ Set(Secret(Unset, ""))    \* "literal" is the empty text, which the form drops
    \/ Set(Secret("env", ""))
    \/ Set([Secret("parts", "") EXCEPT !.parts = OptionNames])
(* Switching between the two keeps nothing of the other; clearing the literal unsets. *)
SecretInput ==
    /\ ModeOf(value) # "parts"
    /\ \/ \E w \in Words : Set(IF ModeOf(value) = "env" THEN Secret("env", w)
                               ELSE Secret(IF w = "" THEN Unset ELSE "literal", w))
       \/ Set(Secret("env", IF value.shape = "env" THEN value.val ELSE ""))
       \/ Set(IF value.shape = "literal" THEN value ELSE Secret(Unset, ""))
ObjectInput ==
    /\ ModeOf(value) = "parts"
    /\ \/ \E o \in OptionNames : Set([value EXCEPT !.parts = @ \cup {o}])
       \/ \E o \in value.parts : Set([value EXCEPT !.parts = @ \ {o}])
OptionField == OptionInput \/ SecretInput \/ ObjectInput

----------------------------------------------------------------------------
(* Filters *)

FilterOps == {"eq", "in", "between"}   \* one of each arity
opArity(op) == IF op = "in" THEN "list" ELSE IF op = "between" THEN "range" ELSE "single"
Filter(kind, op, args) == [kind |-> kind, column |-> "", op |-> op, args |-> args]
blank(kind) ==
    IF kind = "value_op" THEN Filter(kind, "eq", <<"">>)
    ELSE IF kind = "null_check" THEN Filter(kind, "is_null", <<>>) ELSE Filter(kind, "", <<"">>)
First(args) == IF args = <<>> THEN "" ELSE args[1]
Bug_reshapeValue(op, args) ==    \* starts over when the arity changes
    IF opArity(op) = "range" THEN <<"", "">> ELSE <<"">>
reshapeValue(op, args) ==
    CASE opArity(op) = "list" -> IF args = <<>> THEN <<"">> ELSE args
      [] opArity(op) = "range" -> <<First(args), IF Len(args) > 1 THEN args[2] ELSE "">>
      [] OTHER -> <<First(args)>>

ValueOpEditor(f) ==
    {[f EXCEPT !.op = op, !.args = reshapeValue(op, @)] : op \in FilterOps \ {f.op}}
    \cup UNION {{[f EXCEPT !.args[k] = w] : w \in Words} : k \in DOMAIN f.args}
    \cup (IF opArity(f.op) = "list"
          THEN {[f EXCEPT !.args = RemoveAt(@, k)] : k \in DOMAIN f.args \ {1}}
               \cup (IF Len(f.args) < MaxItems THEN {[f EXCEPT !.args = Append(@, "")]} ELSE {})
          ELSE {})
FilterEdits(f) ==
    {blank(kind) : kind \in {"raw", "null_check", "value_op"}}
    \cup (IF f.kind # "raw" THEN {[f EXCEPT !.column = w] : w \in Words} ELSE {})
    \cup (CASE f.kind = "raw" -> {[f EXCEPT !.args = <<w>>] : w \in Words}
            [] f.kind = "null_check" -> {[f EXCEPT !.op = op] : op \in {"is_null", "is_not_null"}}
            [] OTHER -> ValueOpEditor(f))

Edited(edits(_)) == \E i \in DOMAIN value : \E e \in edits(value[i]) : Set([value EXCEPT ![i] = e])
Removed == \E i \in DOMAIN value : Set(RemoveAt(value, i))
Filters == Edited(FilterEdits) \/ Removed \/ (Room /\ Set(Append(value, blank("value_op"))))

----------------------------------------------------------------------------
(* The variants of an enum; a draft waits for Enter or the button.           *)
Swapped(i, j) == [value EXCEPT ![i] = value[j], ![j] = value[i]]
VariantsEditor ==
    \/ \E w \in Words \ {text} : text' = w /\ UNCHANGED <<form, value, clobbered>>
    \/ /\ Room /\ text # "" /\ text \notin ToSet(value)
       /\ Now(Append(value, text)) /\ text' = "" /\ clobbered' = FALSE
    \/ \E i \in DOMAIN value, w \in Words : Set([value EXCEPT ![i] = w])
    \/ Removed
    \/ \E i \in DOMAIN value : i + 1 \in DOMAIN value /\ Set(Swapped(i, i + 1))

(* The options of a field, as rows of key and value. A key is renamed on     *)
(* every keystroke, and a new one is numbered by how many there are.         *)
Knobs == {"boost"}
SetOpt(k, v) == Now(Put(value, k, v)) /\ UNCHANGED text
renameOpt(from, to) ==
    /\ Now(Rekey(value, from, to))
    /\ clobbered' = (to \in Keys(value) \ {from})
    /\ UNCHANGED text
OptionsEditor ==
    \/ Room /\ \E k \in Knobs \ Keys(value) : SetOpt(k, "seed") /\ clobbered' = FALSE
    \/ /\ Room
       /\ SetOpt(Numbered("option", value), "")
       /\ clobbered' = (Numbered("option", value) \in Keys(value))
    \/ \E k \in Keys(value), w \in Words : SetOpt(k, w) /\ clobbered' = FALSE
    \/ \E k \in Keys(value), to \in OptionNames : renameOpt(k, to)
    \/ \E k \in Keys(value) : Set(Without(value, k))

OrderEdits(o) == {[o EXCEPT !.column = w] : w \in Words} \cup {[o EXCEPT !.desc = d] : d \in BOOLEAN}
OrderByEditor ==
    Edited(OrderEdits) \/ Removed \/ (Room /\ Set(Append(value, [column |-> "a", desc |-> FALSE])))

SoftDeleteEditor ==
    \/ \E kind \in {"none", "field", "column"} : Set([kind |-> kind, name |-> ""])
    \/ value.kind # "none" /\ \E w \in Words : Set([value EXCEPT !.name = w])

(* How an aggregate reaches its table: by a key, or through a junction with  *)
(* filters of its own, where "distinct" means something.                     *)
Direct == [through |-> FALSE, table |-> "", key |-> "", filters |-> {}, distinct |-> FALSE]
AggregateKeyEditor ==
    \/ Set([Direct EXCEPT !.distinct = FALSE])
    \/ Set([Direct EXCEPT !.through = TRUE, !.distinct = value.distinct])
    \/ \E w \in Words : Set([value EXCEPT !.key = w])
ThroughEditor ==
    value.through /\ \E w \in Words :
        Set([value EXCEPT !.table = w, !.filters = IF w = value.table THEN @ ELSE {}])
JunctionFilters == value.through /\ Set([value EXCEPT !.filters = {value.table}])
Distinct == value.through /\ Set([value EXCEPT !.distinct = ~@])
AggregateKey == AggregateKeyEditor \/ ThroughEditor \/ JunctionFilters \/ Distinct

----------------------------------------------------------------------------
(* A box that edits a value as JSON: "~x" says what "x" says in a spelling   *)
(* of the user's own, and "{" is not finished.                               *)

Says == ("x" :> "x") @@ ("~x" :> "x") @@ ("y" :> "y")
Spelt(v) == IF v = Unset THEN "" ELSE v
(* The text follows the value only when the value's own spelling changed.    *)
Bug_resync(old, new, typed) == typed
resync(old, new, typed) == IF Spelt(new) # Spelt(old) THEN Spelt(new) ELSE typed

BoxHolds(typed, v) ==
    /\ value' = [value EXCEPT !.is = v]
    /\ text' = IF value.generic THEN resync(value.is, v, typed) ELSE typed
    /\ UNCHANGED form
Typed(t) ==
    /\ t # text
    /\ BoxHolds(t, IF t = "" THEN value.empty ELSE IF t \in DOMAIN Says THEN Says[t] ELSE value.is)
    /\ UNCHANGED clobbered
(* An undo, another field, another adapter with the same option: only the    *)
(* generic box hears of it.                                                  *)
Changed(v) ==
    /\ v # value.is
    /\ BoxHolds(text, v)
    /\ clobbered' = ~value.generic
Box == (\E t \in {"", "{"} \cup DOMAIN Says : Typed(t))
       \/ \E v \in {"x", "y", value.empty} : Changed(v)

----------------------------------------------------------------------------
(* The new-index wizard: a name and a table, then a file.                    *)

BlankWizard(tables) ==
    [open |-> FALSE, tables |-> tables, step |-> 0, name |-> "", table |-> IF tables THEN "t" ELSE "",
     dir |-> "", base |-> "", edited |-> FALSE, override |-> FALSE, file |-> "", made |-> <<>>]
effectiveBase == IF value.edited THEN value.base ELSE value.name
(* A file is the base it was named for, and whether the suffix is locked on. *)
effectiveFile == IF value.override THEN value.file
                 ELSE IF effectiveBase = "" THEN "" ELSE effectiveBase \o ".schema.yml"
detailsOk == value.name # "" /\ value.table # ""
reset == BlankWizard(value.tables)

OpenWizard(byButton) ==
    /\ ~value.open
    /\ Set([value EXCEPT !.open = TRUE, !.made = <<>>,
                         !.table = IF byButton /\ @ = "" /\ value.tables THEN "t" ELSE @])
Details ==
    /\ value.step = 0
    /\ \/ \E w \in Words : Set([value EXCEPT !.name = w])
       \/ \E w \in Words \cup {"t"} : Set([value EXCEPT !.table = w])
       \/ detailsOk /\ Set([value EXCEPT !.step = 1])
       \/ Set(reset)
create == effectiveFile # "" /\ Set([reset EXCEPT !.made = <<value.name, value.table, value.dir, effectiveFile>>])
File ==
    /\ value.step = 1
    /\ \/ \E w \in Words : Set([value EXCEPT !.dir = w])
       \/ ~value.override /\ \E w \in Words : Set([value EXCEPT !.base = w, !.edited = TRUE])
       \/ ~value.override /\ Set([value EXCEPT !.override = TRUE, !.file = effectiveFile])
       \/ value.override /\ \E w \in Words : Set([value EXCEPT !.file = w])
       \/ value.override /\ Set([value EXCEPT !.override = FALSE])
       \/ Set([value EXCEPT !.step = 0])
       \/ create
CatalogLoads == ~value.tables /\ Set([value EXCEPT !.tables = TRUE])
Wizard ==
    \/ \E byButton \in BOOLEAN : OpenWizard(byButton)
    \/ value.open /\ (Details \/ File)
    \/ CatalogLoads

----------------------------------------------------------------------------
FormsInit ==
    /\ form \in Editors
    /\ clobbered = FALSE
    /\ CASE form = "sinks" ->
              /\ value = <<[key |-> "sink1", val |-> Example(CHOOSE k \in DOMAIN SinkKinds : TRUE)]>>
              /\ text = ("sink1" :> "sink1")
         [] form = "box" ->
              /\ value \in {[generic |-> TRUE, empty |-> Unset, is |-> Unset],
                            [generic |-> TRUE, empty |-> "y", is |-> "y"],
                            [generic |-> FALSE, empty |-> Unset, is |-> "x"]}
              /\ text = Spelt(value.is)
         [] form = "wizard" -> value \in {BlankWizard(t) : t \in BOOLEAN} /\ text = ""
         [] form = "option" -> value = Secret(Unset, "") /\ text = ""
         [] form = "soft_delete" -> value = [kind |-> "none", name |-> ""] /\ text = ""
         [] form = "key" -> value = Direct /\ text = ""
         [] OTHER -> value = <<>> /\ text = ""

FormsNext ==
    \/ form = "sinks" /\ Sinks
    \/ form = "option" /\ OptionField
    \/ form = "filters" /\ Filters
    \/ form = "variants" /\ VariantsEditor
    \/ form = "options" /\ OptionsEditor
    \/ form = "order_by" /\ OrderByEditor
    \/ form = "soft_delete" /\ SoftDeleteEditor
    \/ form = "key" /\ AggregateKey
    \/ form = "box" /\ Box
    \/ form = "wizard" /\ Wizard

----------------------------------------------------------------------------
(* Properties *)

Listed == {"sinks", "filters", "variants", "options", "order_by"}

(* Types; a filter's operands fit its operator, sinks have distinct names    *)
(* and a draft each, "distinct" and junction filters are those of the        *)
(* junction, and the wizard only makes an index with a name, table and file. *)
FormsTypeOK ==
    /\ form \in Editors
    /\ form \in Listed => Len(value) <= MaxItems
    /\ form = "sinks" => /\ Cardinality(Keys(value)) = Len(value)
                         /\ DOMAIN text = Keys(value)
    /\ form = "filters" => \A f \in ToSet(value) : f.kind = "value_op" =>
           CASE opArity(f.op) = "list" -> f.args # <<>>
             [] opArity(f.op) = "range" -> Len(f.args) = 2
             [] OTHER -> Len(f.args) = 1
    /\ form = "key" => /\ value.distinct \/ value.filters # {} => value.through
                       /\ value.filters \subseteq {value.table}
    /\ form = "wizard" => /\ value.step = 1 => detailsOk
                          /\ \A k \in DOMAIN value.made \ {3} : value.made[k] # ""

(* Every edit of a list touches one entry: it changes, adds, removes or      *)
(* moves it and leaves the others as they are, in their order, unless a      *)
(* numbered or retyped key was taken (renameSink: "without clobbering        *)
(* another sink", ConfigPanel.tsx:75); the entry keeps its place unless its   *)
(* key is or was an array index; and a new operator keeps the first operand  *)
(* (Filters.tsx:61).                                                         *)
InPlace(old, new) == \E i \in DOMAIN old : \A j \in DOMAIN old \ {i} : new[j] = old[j]
IndexMoved(old, new) ==
    /\ form \in {"sinks", "options"}
    /\ \E j \in DOMAIN new :
          \/ RemoveAt(new, j) = old /\ IsIndex(new[j].key)
          \/ \E i \in DOMAIN old : /\ RemoveAt(new, j) = RemoveAt(old, i)
                                   /\ IsIndex(new[j].key) \/ IsIndex(old[i].key)
OneTouched(old, new) ==
    \/ new = old
    \/ Len(new) = Len(old) /\ InPlace(old, new)
    \/ \E i \in DOMAIN old : new = RemoveAt(old, i)
    \/ new # <<>> /\ Front(new) = old
    \/ \E i \in DOMAIN old : i + 1 \in DOMAIN old
                             /\ new = [old EXCEPT ![i] = old[i + 1], ![i + 1] = old[i]]
    \/ IndexMoved(old, new)
RestKept ==
    /\ form \in Listed /\ ~clobbered' => OneTouched(value, value')
    /\ form = "filters" /\ Len(value) = Len(value') =>
           \A i \in DOMAIN value :
               value[i].kind = "value_op" /\ value'[i].kind = "value_op"
               /\ opArity(value[i].op) # opArity(value'[i].op) /\ value'[i] # blank("value_op") =>
                   value'[i].args[1] = value[i].args[1]
FormKeepsTheRest == [][RestKept]_formsVars

(* Renaming a sink keeps the sinks in their order ("Rename a sink ... in     *)
(* place, preserving declaration order", ConfigPanel.tsx:74). Broken: a name *)
(* that is an array index goes to the front of the object.                   *)
RenamedInPlace == form = "sinks" /\ Keys(value) # Keys(value') /\ Len(value) = Len(value')
                  => InPlace(value, value')

(* Whatever the box shows, if it parses, is what the schema holds, through   *)
(* typing, undo and a change of field ("the model only updates on a parse",  *)
(* widgets.tsx:204). The plain JSON box hears of no change but its own.      *)
ShownIsHeld ==
    form = "box" /\ text # "{" /\ (value.generic \/ ~clobbered) =>
        value.is = IF text = "" THEN value.empty ELSE Says[text]
=============================================================================
