------------------------------- MODULE Review -------------------------------
(* The save review (DiffModal in App.tsx, DiffView.tsx): a dialog over the   *)
(* changed files of a diff, where the user reads them and ticks those to     *)
(* write. Save pressed again under the open dialog replaces the files and    *)
(* keeps the rest of its state.                                              *)
EXTENDS LineDiff

CONSTANTS Responses,   \* the diffs the server can answer, each a set of
                       \* [path, dir, current, next] that changed
          Redone,      \* those it can answer after an undo or a redo under the dialog
          PathOrder,   \* every path: the config's first, the others sorted
          Queries,     \* filters the user types, each the set of paths it matches
          MaxRedos,    \* bound: undos and redos under the dialog
          MaxSteps     \* bound: clicks and keys in the dialog

VARIABLES plan,      \* what the document asks for now: the diff the server would answer
          files,     \* the changed files, in the order of the list
          include,   \* the ticked paths
          cursor,    \* the selected place in the list
          query,     \* the filter; the set of all paths when empty
          mode,      \* the layout of the diff
          expanded,  \* the unfolded gaps of the file on the right
          redos, steps,
          written,   \* the paths of the last write, and whether there is one
          cleared    \* history: the paths whose tick the user took away last

reviewVars == <<plan, files, include, cursor, query, mode, expanded, redos, steps, written, cleared>>

Everything == ToSet(PathOrder)
Modes == {"split", "unified", "old", "new"}
Listed(response) ==
    LET paths == SelectSeq(PathOrder, LAMBDA p : \E d \in response : d.path = p)
    IN [n \in DOMAIN paths |-> CHOOSE d \in response : d.path = paths[n]]

PathsOf(fs) == {fs[n].path : n \in DOMAIN fs}
Paths(response) == {d.path : d \in response}
Shown == {n \in DOMAIN files : files[n].path \in query}
ShownPaths == {files[n].path : n \in Shown}
ActiveOf(fs) == IF cursor \in DOMAIN fs THEN fs[cursor] ELSE fs[1]
Active == ActiveOf(files)
Step == steps < MaxSteps /\ steps' = steps + 1

----------------------------------------------------------------------------
(* The diff of the active file, block by block, as the layout shows it. *)

DiffRows == diffLines(Active.current, Active.next)
Changed(r) == r.type # "eq"
Blocks ==
    CASE mode = "split" -> LET pairs == buildPairs(DiffRows)
                           IN collapse(pairs, {n \in DOMAIN pairs : pairs[n].changed})
      [] mode = "unified" -> LET urows == unifyRows(DiffRows)
                             IN collapse(urows, {n \in DOMAIN urows : urows[n].change})
      [] OTHER -> collapse(DiffRows, {n \in DOMAIN DiffRows : Changed(DiffRows[n])})
Open(block) == block.kind = "rows" \/ block.id \in expanded
ItemsOf(blocks) == FoldLeft(LAMBDA items, b : items \o b.items, <<>>, blocks)
Folded(blocks) == ItemsOf(SelectSeq(blocks, LAMBDA b : ~Open(b)))

(* The lines of one side that a list of items holds, letter by letter. *)
Lines(items, side) ==
    LET type == IF side = "old" THEN "add" ELSE "del"
        held(item) ==
            CASE mode = "split" ->
                    LET cell == IF side = "old" THEN item.left ELSE item.right
                    IN IF cell = Nothing THEN <<>>
                       ELSE IF attachWordDiff(item)
                       THEN <<FlattenSeq(Texts(sideSegs(Merged(item.left.text, item.right.text), side)))>>
                       ELSE <<FlattenSeq(cell.text)>>
              [] mode = "unified" /\ item.merged # <<>> ->
                    <<FlattenSeq(Texts(sideSegs(item.merged, side)))>>
              [] mode = "unified" -> IF item.row.type = type THEN <<>> ELSE <<FlattenSeq(item.row.text)>>
              [] OTHER -> IF item.type # type /\ rowVisible(item.type, mode) THEN <<FlattenSeq(item.text)>> ELSE <<>>
    IN FlattenSeq([n \in DOMAIN items |-> held(items[n])])

----------------------------------------------------------------------------
SetMode(m) ==
    /\ Step /\ mode # m
    /\ mode' = m
    /\ UNCHANGED <<plan, files, include, cursor, query, expanded, redos, written, cleared>>

Expand(block) ==
    /\ Step
    /\ ~Open(block)
    /\ expanded' = expanded \cup {block.id}
    /\ UNCHANGED <<plan, files, include, cursor, query, mode, redos, written, cleared>>

SetInclude(next) ==
    /\ Step
    /\ include' = next
    /\ cleared' = (cleared \ next) \cup (include \ next)
    /\ UNCHANGED <<plan, files, cursor, query, mode, expanded, redos, written>>
Flip(path) == IF path \in include THEN include \ {path} ELSE include \cup {path}

toggle(n) == n \in Shown /\ SetInclude(Flip(files[n].path))
(* A folder's box clears the shown files of it when all are ticked. *)
toggleFolder(dir) ==
    LET paths == {files[n].path : n \in {n \in Shown : files[n].dir = dir}}
    IN /\ dir # "" /\ paths # {}
       /\ SetInclude(IF paths \subseteq include THEN include \ paths ELSE include \cup paths)
toggleAll ==
    SetInclude(IF ShownPaths # {} /\ ShownPaths \subseteq include
               THEN include \ ShownPaths ELSE include \cup ShownPaths)

(* The pane of another file starts with its gaps folded. *)
Select(n) ==
    /\ cursor' = n
    /\ expanded' = IF files[n].path = Active.path THEN expanded ELSE {}
    /\ UNCHANGED <<plan, files, include, query, mode, redos, written, cleared>>
Click(n) == Step /\ n \in Shown /\ Select(n)

(* Keys: the arrows move among the shown files, from the top when the        *)
(* selected one is not shown; Enter ticks the selected or else the first.    *)
ArrowDown ==
    LET below == IF cursor \in Shown THEN {n \in Shown : n > cursor} ELSE Shown
    IN Step /\ Shown # {} /\ Select(IF below = {} THEN Max(Shown) ELSE Min(below))
ArrowUp ==
    LET above == IF cursor \in Shown THEN {n \in Shown : n < cursor} ELSE {}
    IN Step /\ Shown # {} /\ Select(IF above = {} THEN Min(Shown) ELSE Max(above))
Enter == Shown # {} /\ toggle(IF cursor \in Shown THEN cursor ELSE Min(Shown))

(* The filter is there for more than three files; Esc clears it. *)
SetQuery(q) ==
    /\ Step /\ q # query
    /\ Len(files) > 3 \/ q = Everything
    /\ query' = q
    /\ UNCHANGED <<plan, files, include, cursor, mode, expanded, redos, written, cleared>>

(* Write: the operations are planned again from the document as it is now,   *)
(* and the listed files that are not ticked are skipped. The dialog closes   *)
(* when the server has written.                                              *)
Bug_ignoreShown == ShownPaths \ include    \* forgets what the filter hides
ignoreList == PathsOf(files) \ include
performSave(skipPaths) ==
    /\ written' = <<Paths(plan) \ skipPaths>>
    /\ UNCHANGED <<plan, files, include, cursor, query, mode, expanded, redos, steps, cleared>>
Confirm == include # {} /\ performSave(ignoreList)

(* The keys for undo and redo reach the document under the dialog, which     *)
(* lists the files of the last diff until Save is pressed again; then it has *)
(* new files, the same ticks and the same place.                             *)
Redo(response) ==
    /\ redos < MaxRedos
    /\ redos' = redos + 1
    /\ plan' = response
    /\ UNCHANGED <<files, include, cursor, query, mode, expanded, steps, written, cleared>>
Bug_RediffTicksAll ==
    /\ files' = Listed(plan)
    /\ include' = PathsOf(files')
    /\ expanded' = IF ActiveOf(files').path = Active.path THEN expanded ELSE {}
    /\ UNCHANGED <<plan, cursor, query, mode, redos, steps, written, cleared>>
Rediff ==
    /\ files' = Listed(plan)
    /\ expanded' = IF ActiveOf(files').path = Active.path THEN expanded ELSE {}
    /\ UNCHANGED <<plan, include, cursor, query, mode, redos, steps, written, cleared>>

----------------------------------------------------------------------------
ReviewInit ==
    /\ plan \in Responses
    /\ files = Listed(plan)
    /\ include = PathsOf(files)
    /\ cursor = 1
    /\ query = Everything
    /\ mode = "split"
    /\ expanded = {}
    /\ redos = 0
    /\ steps = 0
    /\ written = <<>>
    /\ cleared = {}

ReviewNext ==
    /\ written = <<>>
    /\ \/ \E m \in Modes : SetMode(m)
       \/ \E block \in ToSet(Blocks) : Expand(block)
       \/ \E n \in DOMAIN files : toggle(n) \/ Click(n)
       \/ \E dir \in {files[n].dir : n \in DOMAIN files} : toggleFolder(dir)
       \/ toggleAll
       \/ ArrowDown
       \/ ArrowUp
       \/ Enter
       \/ \E q \in Queries \cup {Everything} : SetQuery(q)
       \/ Confirm
       \/ \E response \in Redone : Redo(response)
       \/ Rediff

----------------------------------------------------------------------------
(* Properties *)

(* Types; and no listed file whose tick the user took away, whether the      *)
(* filter shows it or a later diff lists it again, is written ("the user can *)
(* uncheck any to save a subset", App.tsx:1346).                             *)
ClearedStays == written # <<>> => written[1] \cap cleared \cap PathsOf(files) = {}
ReviewTypeOK ==
    /\ include \subseteq Everything
    /\ cursor \in 1..Len(PathOrder)
    /\ mode \in Modes
    /\ files # <<>> /\ Len(files) = Cardinality(PathsOf(files))
    /\ ClearedStays

(* Only a file the user left ticked is written ("which files to actually     *)
(* write", App.tsx:1346). Broken: the plan is made again on the write, so a  *)
(* file that an undo or a redo under the dialog adds is written unlisted.    *)
WrittenIsTicked == written # <<>> => written[1] \subseteq include

(* The diff takes away and adds as few lines as possible ("fewest add/remove *)
(* rows", diff.ts:64), and numbers the lines of both files in order.         *)
Old == splitLines(Active.current)
New == splitLines(Active.next)
Subsequences(a) ==
    {FlattenSeq([i \in DOMAIN a |-> IF i \in s THEN <<a[i]>> ELSE <<>>]) : s \in SUBSET DOMAIN a}
DiffIsShortest ==
    LET rows == DiffRows
        old == SelectSeq(rows, LAMBDA r : r.type # "add")
        new == SelectSeq(rows, LAMBDA r : r.type # "del")
        common == Subsequences(Old) \cap Subsequences(New)
    IN /\ Len(old) = Len(Old) /\ Len(new) = Len(New)
       /\ \A s \in common : Len(s) <= Len(OfType(rows, "eq"))
       /\ \A n \in DOMAIN old : old[n].oldNo = n /\ old[n].text = Old[n]
       /\ \A n \in DOMAIN new : new[n].newNo = n /\ new[n].text = New[n]

(* In every layout the items of the blocks hold every line of a shown side   *)
(* in its order, and nothing that changed is folded away (DiffView.tsx:19).  *)
ChangesStayVisible ==
    LET blocks == Blocks
        folded == Folded(blocks)
    IN /\ \A side \in IF mode \in {"old", "new"} THEN {mode} ELSE {"old", "new"} :
             LET file == IF side = "old" THEN Old ELSE New
             IN Lines(ItemsOf(blocks), side) = [n \in DOMAIN file |-> FlattenSeq(file[n])]
       /\ \A n \in DOMAIN folded :
             CASE mode = "split" -> ~folded[n].changed
               [] mode = "unified" -> ~folded[n].change
               [] OTHER -> ~Changed(folded[n])
=============================================================================
