------------------------------ MODULE MCPanels ------------------------------
(* The parts of the designer's page that keep a state of their own and share *)
(* none: the canvas with its inspector, the save review, the navigation and  *)
(* the forms. A behaviour is about one of them.                              *)
EXTENDS Integers, Sequences, FiniteSets, TLC

CONSTANTS Catalog, ForeignKeys, Junctions, InitialTable, InitialFields, Kinds, Types, Renames,
          ByHand, MaxEdits,
          Responses, Redone, PathOrder, Queries, MaxRedos, MaxSteps,
          Indexes, LoadedIndexes, Landings, RecentCap, MaxEntries, MaxMoves,
          Editors, ArrayKeys, SinkTexts, Words, SinkKinds, OptionNames, MaxItems

VARIABLES panel, \* the part a behaviour is about
          table, fields, selection, collapsed, past, edits, picked, loose,
          plan, files, include, cursor, query, mode, expanded, redos, steps, written, cleared,
          rows, pastRows, browse, active, raw, entries, at, routed, astray, undone,
          recents, sidebar, wizard, moves,
          form, value, text, clobbered

Tree == INSTANCE SchemaTree
Canvas == INSTANCE SchemaEdit
Dialog == INSTANCE Review
Nav == INSTANCE Navigation
Form == INSTANCE Forms

canvasVars == <<table, fields, selection, collapsed, past, edits, picked, loose>>
reviewVars == <<plan, files, include, cursor, query, mode, expanded, redos, steps, written, cleared>>
navVars == <<rows, pastRows, browse, active, raw, entries, at, routed, astray, undone,
             recents, sidebar, wizard, moves>>
formsVars == <<form, value, text, clobbered>>
panelsVars == <<panel, canvasVars, reviewVars, navVars, formsVars>>

----------------------------------------------------------------------------
(* A part that a behaviour is not about. *)
NoCanvas == /\ table = "" /\ fields = <<>> /\ selection = Canvas!None /\ collapsed = {}
            /\ past = <<>> /\ edits = 0 /\ picked = <<>> /\ loose = FALSE
NoDialog == /\ plan = {} /\ files = <<>> /\ include = {} /\ cursor = 1 /\ query = {} /\ mode = "split"
            /\ expanded = {} /\ redos = 0 /\ steps = 0 /\ written = <<>> /\ cleared = {}
NoNav == /\ rows = <<>> /\ pastRows = <<>> /\ browse = FALSE /\ active = "config" /\ raw = FALSE
         /\ entries = <<Nav!Deployment>> /\ at = 1 /\ routed = FALSE /\ astray = FALSE
         /\ undone = FALSE /\ recents = <<>> /\ sidebar = FALSE /\ wizard = FALSE /\ moves = 0
NoForm == form = "" /\ value = <<>> /\ text = "" /\ clobbered = FALSE

Init ==
    \/ panel = "canvas" /\ Canvas!Init /\ NoDialog /\ NoNav /\ NoForm
    \/ panel = "review" /\ NoCanvas /\ Dialog!ReviewInit /\ NoNav /\ NoForm
    \/ panel = "navigation" /\ NoCanvas /\ NoDialog /\ Nav!NavInit /\ NoForm
    \/ panel = "form" /\ NoCanvas /\ NoDialog /\ NoNav /\ Form!FormsInit

OnCanvas == panel = "canvas" /\ Canvas!Next /\ UNCHANGED <<panel, reviewVars, navVars, formsVars>>
InReview == panel = "review" /\ Dialog!ReviewNext /\ UNCHANGED <<panel, canvasVars, navVars, formsVars>>
Navigate == panel = "navigation" /\ Nav!NavNext /\ UNCHANGED <<panel, canvasVars, reviewVars, formsVars>>
InForm == panel = "form" /\ Form!FormsNext /\ UNCHANGED <<panel, canvasVars, reviewVars, navVars>>
Next == OnCanvas \/ InReview \/ Navigate \/ InForm

Spec == Init /\ [][Next]_panelsVars

----------------------------------------------------------------------------
(* Small instances. A root table with a relation and its mirror, whose       *)
(* column is mistyped.                                                       *)
Tables ==
    [t |-> <<<<"a", "integer", TRUE>>, <<"b", "uuid", FALSE>>>>,
     r |-> <<<<"a", "date", FALSE>>>>]
Links == {[table |-> "t", column |-> "b", refs |-> "r", nullable |-> FALSE]}
Through == {[table |-> "x", left |-> "t", right |-> "r"]}
Names == {<<"b">>}
Loaded ==
    <<[Tree!ColumnField(<<"a", "integer", FALSE>>) EXCEPT !.uid = <<-1>>],
      [Tree!defaultField(<<"r">>, "belongs_to") EXCEPT
          !.uid = <<-2>>, !.table = "r", !.keyed = TRUE,
          !.fields = <<[Tree!ColumnField(<<"a", "long", FALSE>>) EXCEPT !.uid = <<-3>>]>>]>>

(* Pairs of files of up to four lines between them, after none or enough     *)
(* equal lines to fold; some that end with a line feed; and four files.      *)
Small == {<<<<1, 1, 1, 1, 1, 1>>, <<2>>>>, <<<<1, 1, 1, 1, 1, 1>>, <<3>>>>, <<<<4, 4>>>>}
Pad == [n \in 1..5 |-> <<<<5>>>>]
Texts == UNION {[1..n -> Small] : n \in 0..3}
One(old, new) == {[path |-> "config", dir |-> "", current |-> old, next |-> new]}
Pairs == {One(pre \o p[1], pre \o p[2]) : pre \in {<<>>, Pad},
             p \in {q \in Texts \X Texts : q[1] # q[2] /\ Len(q[1]) + Len(q[2]) <= 4}}
Tiny(p, d) == [path |-> p, dir |-> d, current |-> <<>>, next |-> <<<<<<4, 4>>>>>>]
Four == {Tiny("config", ""), Tiny("x1", "x"), Tiny("x2", "x"), Tiny("y1", "y")}
Three == {Tiny("config", ""), Tiny("x2", "x"), Tiny("y1", "y")}
LineFeed == {One(<<<<<<4, 4>>>>, <<>>>>, <<<<<<4, 4>>>>, <<<<5>>>>>>),
             One(<<<<<<4, 4>>>>>>, <<<<<<4, 4>>>>, <<<<5>>>>, <<>>>>),
             One(<<<<<<4, 4>>>>, <<>>>>, <<<<<<4, 4>>>>, <<>>, <<>>>>)}
AllResponses == Pairs \cup LineFeed \cup {Four}
Second == {Three, Four}
Order == <<"config", "x1", "x2", "y1">>
SomeQueries == {{"x1", "x2"}, {"x2", "y1"}, {}}

OnDisk == <<"a", "b">>
To(view, name, code) == [view |-> view, name |-> name, code |-> code]
Routes == {To("none", "", FALSE), To("deployment", "", FALSE), To("tables", "", FALSE),
           To("index", "b", TRUE), To("index", "z", FALSE)}

Indices == <<"2", "7">>
Adapters == ("disk" :> {"a"}) @@ ("net" :> {"b", "c"})

----------------------------------------------------------------------------
(* Properties: those of each part, stated and explained in its module.       *)

(* Types, and what every state of a part holds beside them: folded nodes     *)
(* exist, no file the user unticked is written, remembered picks are few, and *)
(* sinks have names of their own.                                            *)
PanelTypes ==
    CASE panel = "canvas" -> Canvas!TypeOK
      [] panel = "review" -> Dialog!ReviewTypeOK
      [] panel = "navigation" -> Nav!NavTypeOK
      [] OTHER -> Form!FormsTypeOK

(* The selection is the field the user acted on (Inspector.tsx:112).         *)
SelectionFollows == panel = "canvas" => Canvas!SelectionFollows
(* The preview is sent every field that is complete along its path and       *)
(* nothing else (prune.ts:68).                                               *)
PreviewIsWhatIsComplete == panel = "canvas" => Canvas!PreviewIsWhatIsComplete
(* The canvas shows every field once, in nodes that do not overlap           *)
(* (tree.ts:153, layout.ts:16).                                              *)
CanvasShowsSchema == panel = "canvas" => Canvas!GraphCoversSchema /\ Canvas!LayoutSeparates
(* The banner's count, the list of issues and "fix all" agree                *)
(* (issues.ts:27-113).                                                       *)
TypeWarningsAgree == panel = "canvas" => Canvas!TypeWarningsAgree

(* The review shows a shortest diff and hides no change of it, in every      *)
(* layout (diff.ts:64-268).                                                  *)
ReviewShowsTheDiff == panel = "review" => Dialog!DiffIsShortest /\ Dialog!ChangesStayVisible

(* The address names the view (router.ts:12).                                *)
UrlMirrorsView == panel = "navigation" => Nav!UrlMirrorsView
(* The main area is never blank (App.tsx:1098-1176).                         *)
MainIsNeverBlank == panel = "navigation" => Nav!MainIsNeverBlank
(* Back and Forward show their entry and keep the others (App.tsx:251-278).  *)
TravelKeepsHistory == [][panel = "navigation" => Nav!HistoryKept]_panelsVars

(* An edit of a list leaves its other entries as they are                    *)
(* (ConfigPanel.tsx:74, Filters.tsx:61).                                     *)
FormKeepsTheRest == [][panel = "form" => Form!RestKept]_panelsVars
(* A JSON box shows the value it holds (widgets.tsx:204).                    *)
ShownIsHeld == panel = "form" => Form!ShownIsHeld

(* What the source says of the review and the sinks, and the code breaks     *)
(* (App.tsx:1346, ConfigPanel.tsx:74).                                       *)
WrittenIsTicked == panel = "review" => Dialog!WrittenIsTicked
RenamedInPlace == [][panel = "form" => Form!RenamedInPlace]_panelsVars
=============================================================================
