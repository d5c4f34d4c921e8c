----------------------------- MODULE SchemaEdit -----------------------------
(* The canvas and the inspector on one index (DocNodeView.tsx, Inspector.tsx,*)
(* Canvas.tsx, the keys of App.tsx): every operation that edits the schema   *)
(* or the selection, which names fields by their place in the tree.          *)
EXTENDS SchemaTree

CONSTANTS InitialTable, InitialFields, \* the index as loaded
          Kinds,      \* the kinds the add menus are used for
          Types,      \* the types a scalar is set to
          Renames,    \* the names fields are renamed to
          ByHand,     \* a column name typed by hand
          MaxEdits    \* bound: changes of the schema; what follows the last is not modelled

VARIABLES table,     \* the root table
          fields,    \* the fields of the root
          selection, \* what the inspector shows
          collapsed, \* the nodes that are folded, by path
          past,      \* the table and the fields before the last change, for undo
          edits,     \* changes so far
          picked,    \* history: the field the user acted on when it was selected
          loose      \* history: rows moved under the selection without regard to it

vars == <<table, fields, selection, collapsed, past, edits, picked, loose>>

None == [kind |-> "none", path |-> <<>>, index |-> 0, names |-> {}]
NodeAt(path) == [None EXCEPT !.kind = IF path = <<>> THEN "root" ELSE "node", !.path = path]
FieldAt(path, i) == [None EXCEPT !.kind = "field", !.path = path, !.index = i]
Rows(path, names) == [None EXCEPT !.kind = "columns", !.path = path, !.names = names]

Nodes(fs) == ToSet(Visit(fs, <<>>))
TableOf(path) == effectiveTable(table, fields, path)
At(path) == nodeFields(fields, path)
IsField == selection.kind = "field" /\ selection.index \in DOMAIN At(selection.path)
IsNode == selection.kind = "node" /\ HasField(fields, selection.path)

(* The field a selection points at; <<>> for none, the root or rows. *)
Uid(path, i) == At(path)[i].uid
Target(fs, sel) ==
    IF sel.kind = "field" /\ sel.index \in DOMAIN nodeFields(fs, sel.path)
    THEN nodeFields(fs, sel.path)[sel.index].uid
    ELSE IF sel.kind = "node" /\ HasField(fs, sel.path) THEN fieldAtPath(fs, sel.path).uid
    ELSE <<>>

----------------------------------------------------------------------------
(* "uid" is the field the user means, whatever the selection points at.      *)
select(sel, uid) ==
    /\ selection' = sel
    /\ picked' = uid
    /\ loose' = FALSE
Clear == select(None, <<>>)
Keep == UNCHANGED <<selection, picked, loose>>
(* Rows of a node go and the selection stays where it is: at another place    *)
(* than its field when one of them is before it, or around it.               *)
Place == IF selection.kind = "field" THEN Append(selection.path, selection.index) ELSE selection.path
Before(path, gone) ==
    /\ selection.kind \in {"field", "node"}
    /\ IsStrictPrefix(path, Place)
    /\ \E i \in gone : i <= Place[Len(path) + 1]
Stay(path, gone) ==
    /\ UNCHANGED <<selection, picked>>
    /\ loose' = (loose \/ Before(path, gone))

Document == [table |-> table, fields |-> fields]

(* apply, and the canvas' effect that forgets folded nodes which are gone. *)
Bug_applyKeepsFolds(fs) ==
    /\ edits < MaxEdits
    /\ edits' = edits + 1
    /\ fields' = fs
    /\ past' = Document
    /\ UNCHANGED <<table, collapsed>>
apply(fs) ==
    /\ edits < MaxEdits
    /\ edits' = edits + 1
    /\ fields' = fs
    /\ past' = Document
    /\ collapsed' = collapsed \cap Nodes(fs)
    /\ UNCHANGED table
applyAt(path, fs) == apply(withNodeFields(fields, path, fs))

----------------------------------------------------------------------------
(* The node on the canvas. *)

Included(path) == Present(At(path))
(* The last of the fields that read a column is the one its row shows. *)
RowOf(path, column) == Max({i \in DOMAIN At(path) : ReadsColumn(At(path)[i], column)})

includeColumn(path, c) ==
    /\ c[1] \notin Included(path)
    /\ applyAt(path, addField(At(path), ColumnField(c), edits))
    /\ select(FieldAt(path, Len(At(path)) + 1), <<edits>>)

excludeColumn(path, c) ==
    /\ c[1] \in Included(path)
    /\ applyAt(path, toggleOff(At(path), c[1]))
    /\ IF selection = FieldAt(path, RowOf(path, c[1])) THEN Clear
       ELSE Stay(path, {i \in DOMAIN At(path) : ReadsColumn(At(path)[i], c[1])})

(* The master checkbox: all in, or all out when all are in. *)
ToggleAll(path) ==
    LET columns == Catalog[TableOf(path)]
        allIncluded == ColumnNames(TableOf(path)) \subseteq Included(path)
    IN /\ TableOf(path) \in DOMAIN Catalog
       /\ IF allIncluded
          THEN /\ applyAt(path, clearColumns(At(path)))
               /\ Stay(path, {i \in DOMAIN At(path) : Plain(At(path)[i])})
          ELSE /\ applyAt(path, [i \in DOMAIN includeColumns(At(path), columns) |->
                     LET f == includeColumns(At(path), columns)[i]
                     IN IF i <= Len(At(path)) THEN f ELSE [f EXCEPT !.uid = <<edits, i>>]])
               /\ Keep

(* + join and + field: appended and selected. *)
AddSpecial(path, kind) ==
    /\ applyAt(path, addSpecial(At(path), kind, edits))
    /\ select(FieldAt(path, Len(At(path)) + 1), <<edits>>)

AddRelation(path, f) ==
    /\ f \in suggestRelations(TableOf(path))
    /\ applyAt(path, addField(At(path), f, edits))
    /\ Keep

ManualColumn(path) ==
    /\ TableOf(path) \notin DOMAIN Catalog
    /\ applyAt(path, addField(At(path), ColumnField(<<ByHand, "keyword", TRUE>>), edits))
    /\ Keep

(* The cross of a row that is no catalog column. *)
RemoveRow(path, i) ==
    /\ ~IsContainer(At(path)[i])
    /\ ~(Plain(At(path)[i]) /\ At(path)[i].column \in ColumnNames(TableOf(path)))
    /\ applyAt(path, removeAt(At(path), i))
    /\ Stay(path, {i})

removeNode(path) == applyAt(Front(path), removeAt(At(Front(path)), Last(path)))
RemoveNode(path) ==
    /\ path # <<>>
    /\ removeNode(path)
    /\ Clear

commitRename(path, name) ==
    /\ path # <<>>
    /\ fieldAtPath(fields, path).name # name
    /\ apply(setNodeField(fields, path, [fieldAtPath(fields, path) EXCEPT !.name = name]))
    /\ Keep

pickRootTable(name) ==
    /\ edits < MaxEdits
    /\ edits' = edits + 1
    /\ table # name
    /\ table' = name
    /\ past' = Document
    /\ UNCHANGED <<fields, collapsed>>
    /\ Keep

RowNames(path) ==
    {<<c>> : c \in ColumnNames(TableOf(path))}
    \cup {At(path)[i].name : i \in leavesOf(fields, path)}

(* A click selects a field or a column that is not in; with shift or control *)
(* it selects a set of rows.                                                 *)
selectRow(path) ==
    /\ edits < MaxEdits
    /\ UNCHANGED <<table, fields, collapsed, past, edits>>
    /\ \/ \E i \in leavesOf(fields, path) : select(FieldAt(path, i), Uid(path, i))
       \/ \E names \in SUBSET RowNames(path) : select(Rows(path, names), <<>>)
SelectNode(path) ==
    /\ edits < MaxEdits
    /\ UNCHANGED <<table, fields, collapsed, past, edits>>
    /\ select(NodeAt(path), IF path = <<>> THEN <<>> ELSE fieldAtPath(fields, path).uid)
Deselect ==
    /\ edits < MaxEdits
    /\ selection # None
    /\ UNCHANGED <<table, fields, collapsed, past, edits>>
    /\ Clear

toggleCollapsed(path) ==
    /\ edits < MaxEdits
    /\ collapsed' = IF path \in collapsed THEN collapsed \ {path} ELSE collapsed \cup {path}
    /\ UNCHANGED <<table, fields, selection, past, edits, picked, loose>>
(* One toggle folds all, or unfolds all when all are folded. *)
CollapseAll ==
    /\ edits < MaxEdits
    /\ collapsed' = IF Cardinality(collapsed) >= Cardinality(Nodes(fields)) THEN {} ELSE Nodes(fields)
    /\ UNCHANGED <<table, fields, selection, past, edits, picked, loose>>

----------------------------------------------------------------------------
(* The inspector. What each editor can turn a field into. *)

NameField(f) == {[f EXCEPT !.name = n] : n \in Renames}
RequiredDefault(f, from) ==
    {[f EXCEPT !.nullable = ~@]}
    \cup (IF f.dflt \/ (~f.nullable /\ Known(f, from) /\ ColumnOf(from, f.column)[3])
          THEN {[f EXCEPT !.dflt = ~@]} ELSE {})
ScalarBody(f, from) == {[f EXCEPT !.ty = ty] : ty \in Types} \cup RequiredDefault(f, from)
MapBody(f, from) ==
    {[f EXCEPT !.column = c] : c \in ColumnNames(from) \cup {""}} \cup RequiredDefault(f, from)
GeoBody(f, from) ==
    {[f EXCEPT !.column = c] : c \in ColumnNames(from) \cup {""}} \cup {[f EXCEPT !.nullable = ~@]}
AggregateBody(f) ==
    {[f EXCEPT !.table = t] : t \in DOMAIN Catalog}
    \cup {[f EXCEPT !.keyed = k] : k \in BOOLEAN}
    \cup (IF f.kind \in Reducers THEN {[f EXCEPT !.column = c] : c \in ColumnNames(f.table) \cup {""}}
                                 ELSE {})

FieldInspector(f, from) ==
    CASE f.kind = "column" -> NameField(f) \cup ScalarBody(f, from)
      [] f.kind \in {"map", "custom"} -> NameField(f) \cup MapBody(f, from)
      [] f.kind = "geo" -> NameField(f) \cup GeoBody(f, from)
      [] f.kind = "constant" -> NameField(f)
      [] f.kind \in Aggregates -> NameField(f) \cup AggregateBody(f)
      [] OTHER -> {}   \* a container selected as a field: its options alone

(* A new verb has blank keys; children stay as they are under a new table.   *)
NodeInspector(f) ==
    IF f.kind = "object" THEN NameField(f)
    ELSE NameField(f)
         \cup {[f EXCEPT !.kind = v, !.keyed = FALSE] : v \in Verbs \ {f.kind}}
         \cup {[f EXCEPT !.table = t] : t \in DOMAIN Catalog}
         \cup {[f EXCEPT !.keyed = k] : k \in BOOLEAN}
         \cup (IF f.kind \in {"belongs_to", "has_one"} THEN {[f EXCEPT !.nullable = ~@]} ELSE {})

EditSelected ==
    /\ \/ /\ IsField
          /\ LET f == At(selection.path)[selection.index]
             IN \E g \in FieldInspector(f, TableOf(selection.path)) \ {f} :
                    applyAt(selection.path, [At(selection.path) EXCEPT ![selection.index] = g])
       \/ /\ IsNode
          /\ LET f == fieldAtPath(fields, selection.path)
             IN \E g \in NodeInspector(f) \ {f} : apply(setNodeField(fields, selection.path, g))
    /\ Keep

(* The copy follows its original and is selected. *)
CopyOf(path, i) == Append(Uid(path, i), edits)
Bug_DuplicateLast ==    \* the place an appended copy would have
    /\ IsField
    /\ applyAt(selection.path, duplicateAt(At(selection.path), selection.index, edits))
    /\ select(FieldAt(selection.path, Len(At(selection.path)) + 1), CopyOf(selection.path, selection.index))
Duplicate ==
    \/ /\ IsField
       /\ applyAt(selection.path, duplicateAt(At(selection.path), selection.index, edits))
       /\ select(FieldAt(selection.path, selection.index + 1), CopyOf(selection.path, selection.index))
    \/ /\ IsNode
       /\ LET up == Front(selection.path)
              i == Last(selection.path)
          IN /\ applyAt(up, duplicateAt(At(up), i, edits))
             /\ select(NodeAt(Append(up, i + 1)), CopyOf(up, i))

(* Delete in the inspector, and the Delete key. *)
DeleteSelected ==
    /\ \/ IsField /\ applyAt(selection.path, removeAt(At(selection.path), selection.index))
       \/ IsNode /\ removeNode(selection.path)
    /\ Clear

(* The rows a node shows: a column's by the column, any other's by its name. *)
RowName(f) == IF Plain(f) THEN <<f.column>> ELSE f.name
(* Including at a path that is gone throws before anything changes. *)
BulkInclude ==
    LET from == TableOf(selection.path)
        wanted == SelectSeq(IF from \in DOMAIN Catalog THEN Catalog[from] ELSE <<>>,
                            LAMBDA c : <<c[1]>> \in selection.names
                                       /\ <<c[1]>> \notin {RowName(f) : f \in ToSet(At(selection.path))})
    IN /\ selection.kind = "columns" /\ selection.path \in Nodes(fields)
       /\ wanted # <<>>
       /\ applyAt(selection.path,
              At(selection.path) \o [i \in DOMAIN wanted |->
                                        [ColumnField(wanted[i]) EXCEPT !.uid = <<edits, i>>]])
       /\ Keep
BulkRemove ==
    /\ selection.kind = "columns"
    /\ \E f \in ToSet(At(selection.path)) : RowName(f) \in selection.names
    /\ applyAt(selection.path, removeFields(At(selection.path), selection.names))
    /\ Clear

FixAll ==
    /\ countTypeMismatches(fields, table) > 0
    /\ apply(fixAllTypes(fields, table))
    /\ Keep

(* One step of undo, of the whole document; the selection stays where it is. *)
Shape(fs) == {<<p, fieldAtPath(fs, p).uid>> : p \in AllPaths(fs)}
Undo ==
    /\ edits < MaxEdits
    /\ past # Document
    /\ edits' = edits + 1
    /\ table' = past.table
    /\ fields' = past.fields
    /\ past' = Document
    /\ collapsed' = collapsed \cap Nodes(past.fields)
    /\ UNCHANGED <<selection, picked>>
    /\ loose' = (loose \/ Shape(fields) # Shape(past.fields))

----------------------------------------------------------------------------
Init ==
    /\ table = InitialTable
    /\ fields = InitialFields
    /\ selection = None
    /\ collapsed = {}
    /\ past = Document
    /\ edits = 0
    /\ picked = <<>>
    /\ loose = FALSE

Next ==
    \/ \E path \in Nodes(fields) :
           \/ TableOf(path) \in DOMAIN Catalog
              /\ \E c \in ToSet(Catalog[TableOf(path)]) : includeColumn(path, c) \/ excludeColumn(path, c)
           \/ ToggleAll(path)
           \/ \E kind \in Kinds : AddSpecial(path, kind)
           \/ \E f \in suggestRelations(TableOf(path)) : AddRelation(path, f)
           \/ ManualColumn(path)
           \/ \E i \in DOMAIN At(path) : RemoveRow(path, i)
           \/ RemoveNode(path)
           \/ \E name \in Renames : commitRename(path, name)
           \/ selectRow(path)
           \/ SelectNode(path)
           \/ toggleCollapsed(path)
    \/ \E name \in DOMAIN Catalog : pickRootTable(name)
    \/ Deselect
    \/ CollapseAll
    \/ EditSelected
    \/ Duplicate
    \/ DeleteSelected
    \/ BulkInclude
    \/ BulkRemove
    \/ FixAll
    \/ Undo

Spec == Init /\ [][Next]_vars

----------------------------------------------------------------------------
(* Properties *)

(* Types; every field is one field, and only nodes on the canvas are folded. *)
TypeOK ==
    /\ selection.kind \in {"none", "root", "node", "field", "columns"}
    /\ collapsed \subseteq Nodes(fields)
    /\ Cardinality({f.uid : f \in AllFields(fields)}) = Cardinality(AllPaths(fields))
    /\ edits \in 0..MaxEdits

(* What is selected is the field the user acted on, the copy after a          *)
(* duplication (HeaderActions, Inspector.tsx:112) and the new one after an    *)
(* addition (DocNodeView.tsx:374), and it stays that field through edits,     *)
(* additions and the removal of rows behind it. The code does not move the    *)
(* selection when a row before it, or it itself, goes by another's button,    *)
(* or when an undo moves rows.                                               *)
SelectionFollows == loose \/ Target(fields, selection) = picked

(* The preview gets every field that is complete along its whole path and    *)
(* nothing else (prune.ts: the preview "shows everything that *is* valid").  *)
PreviewIsWhatIsComplete ==
    {f.uid : f \in AllFields(prunedForPreview(fields))} =
    {fieldAtPath(fields, p).uid :
        p \in {p \in AllPaths(fields) :
                 \A k \in 1..Len(p) : ~Incomplete(fieldAtPath(fields, SubSeq(p, 1, k)))}}

(* The graph shows the whole schema: every field is the leaf of one node or  *)
(* a node with one edge from its parent (projectGraph, tree.ts:153).         *)
GraphCoversSchema ==
    LET graph == projectGraph(table, fields)
        paths == {graph.nodes[k].path : k \in DOMAIN graph.nodes}
    IN /\ Cardinality(paths) = Len(graph.nodes)
       /\ {e[2] : e \in graph.edges} = paths \ {<<>>}
       /\ {e[1] : e \in graph.edges} \subseteq paths
       /\ \A k \in DOMAIN graph.nodes : \A i \in graph.nodes[k].leaves :
              Append(graph.nodes[k].path, i) \notin paths
       /\ AllPaths(fields) = (paths \ {<<>>}) \cup
              UNION {{Append(graph.nodes[k].path, i) : i \in graph.nodes[k].leaves} : k \in DOMAIN graph.nodes}

(* The tidy layout keeps nodes of one column apart ("tall nodes ... never    *)
(* overlap their siblings", layout.ts:2).                                    *)
LayoutSeparates ==
    LET nodes == projectGraph(table, fields).nodes
        height == [p \in Nodes(fields) |->
                      LET k == CHOOSE k \in DOMAIN nodes : nodes[k].path = p
                      IN estimateHeight(fields, nodes[k], suggestRelations(nodes[k].table))]
        y == autoLayout(nodes, height)
    IN \A p, q \in Nodes(fields) :
           p # q /\ Len(p) = Len(q) => y[p] + height[p] + Gap <= y[q] \/ y[q] + height[q] + Gap <= y[p]

(* The banner counts the fields the list warns of, and "fix all" leaves none *)
(* (issues.ts:72, 93).                                                       *)
TypeWarningsAgree ==
    LET fixed == fixAllTypes(fields, table)
    IN /\ countTypeMismatches(fields, table) =
              Cardinality({i \in requiredDefaultIssues(fields, table) : i[2] = "warning"})
       /\ countTypeMismatches(fixed, table) = 0
       /\ requiredDefaultIssues(fixed, table) =
              {i \in requiredDefaultIssues(fields, table) : i[2] = "error"}
=============================================================================
