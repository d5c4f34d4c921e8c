----------------------------- MODULE SchemaTree -----------------------------
(* An index's schema as the designer keeps it (model/*.ts, fields.ts): a     *)
(* tree of fields addressed by paths of indices, the edits of it, and what   *)
(* is computed from it: the canvas graph and its layout, the copy sent to    *)
(* the preview, the issues the catalog alone shows.                          *)
(*                                                                           *)
(* A field is one record for all kinds. "keyed" stands for the keys a join   *)
(* or an aggregate needs, "column" for the columns any kind reads; "" is     *)
(* blank. "uid" is history: which field it is, through renames and moves.    *)
(* A name is the sequence it is built from: <<"geo", "2">> is geo2.            *)
EXTENDS Integers, Sequences, FiniteSets, SequencesExt, FiniteSetsExt

CONSTANTS Catalog,      \* table name -> its columns, as <<name, type, nullable>>
          ForeignKeys,  \* [table, column, refs, nullable]
          Junctions     \* [table, left, right]: a table between two others

Verbs == {"belongs_to", "has_one", "has_many", "many_to_many"}
Containers == Verbs \cup {"object"}
Reducers == {"sum", "avg", "min", "max"}
Aggregates == Reducers \cup {"count", "ids"}
Typed == {"column", "map", "custom"}   \* fields whose source is one column
Gap == 28

IsContainer(f) == f.kind \in Containers
Plain(f) == f.kind = "column"

----------------------------------------------------------------------------
(* Paths. A path that runs past the tree has no fields. *)

RECURSIVE nodeFields(_, _)
nodeFields(fields, path) ==
    IF path = <<>> THEN fields
    ELSE IF Head(path) \in DOMAIN fields /\ IsContainer(fields[Head(path)])
    THEN nodeFields(fields[Head(path)].fields, Tail(path))
    ELSE <<>>

RECURSIVE withNodeFields(_, _, _)
withNodeFields(fields, path, next) ==
    IF path = <<>> THEN next
    ELSE [fields EXCEPT ![Head(path)].fields = withNodeFields(@, Tail(path), next)]

HasField(fields, path) == path # <<>> /\ Last(path) \in DOMAIN nodeFields(fields, Front(path))
fieldAtPath(fields, path) == nodeFields(fields, Front(path))[Last(path)]
setNodeField(fields, path, f) ==
    withNodeFields(fields, Front(path),
                   [nodeFields(fields, Front(path)) EXCEPT ![Last(path)] = f])

(* The table a node reads: the nearest join's. *)
RECURSIVE effectiveTable(_, _, _)
effectiveTable(table, fields, path) ==
    IF path = <<>> \/ Head(path) \notin DOMAIN fields THEN table
    ELSE LET f == fields[Head(path)]
         IN effectiveTable(IF f.kind \in Verbs THEN f.table ELSE table, f.fields, Tail(path))

RECURSIVE AllFields(_)
AllFields(fields) ==
    UNION {{fields[i]} \cup AllFields(fields[i].fields) : i \in DOMAIN fields}
RECURSIVE AllPaths(_)
AllPaths(fields) ==
    UNION {{<<i>>} \cup {<<i>> \o p : p \in AllPaths(fields[i].fields)} : i \in DOMAIN fields}

----------------------------------------------------------------------------
(* The canvas: a node for the root and each container, in the order of a     *)
(* depth-first visit; the other fields are the leaves of their node.         *)

RECURSIVE Visit(_, _)
Visit(fields, path) ==
    <<path>> \o FlattenSeq([i \in DOMAIN fields |->
                  IF IsContainer(fields[i]) THEN Visit(fields[i].fields, Append(path, i))
                                            ELSE <<>>])
Bug_groupsAreLeaves(fields, path) ==
    {i \in DOMAIN nodeFields(fields, path) : nodeFields(fields, path)[i].kind \notin Verbs}
leavesOf(fields, path) ==
    {i \in DOMAIN nodeFields(fields, path) : ~IsContainer(nodeFields(fields, path)[i])}

projectGraph(table, fields) ==
    [nodes |-> [k \in DOMAIN Visit(fields, <<>>) |->
                  LET path == Visit(fields, <<>>)[k]
                  IN [path |-> path,
                      kind |-> IF path = <<>> THEN "root" ELSE fieldAtPath(fields, path).kind,
                      table |-> effectiveTable(table, fields, path),
                      leaves |-> leavesOf(fields, path)]],
     edges |-> {<<Front(p), p>> : p \in ToSet(Visit(fields, <<>>)) \ {<<>>}}]

(* autoLayout: a subtree takes the height of its children with gaps, or its  *)
(* own when that is more; a node with children is centred on its band.       *)
Kids(nodes, path) ==
    SelectSeq([k \in DOMAIN nodes |-> nodes[k].path],
              LAMBDA p : p # <<>> /\ Front(p) = path)
RECURSIVE Band(_, _, _)
Band(nodes, path, height) ==
    LET kids == Kids(nodes, path)
        span == FoldLeft(LAMBDA sum, k : sum + Band(nodes, k, height) + Gap, 0 - Gap, kids)
    IN IF kids = <<>> \/ span < height[path] THEN height[path] ELSE span
RECURSIVE Top(_, _, _)
Top(nodes, path, height) ==
    IF path = <<>> THEN 0
    ELSE LET kids == Kids(nodes, Front(path))
             before == SelectSeq(kids, LAMBDA k : Last(k) < Last(path))
         IN FoldLeft(LAMBDA sum, k : sum + Band(nodes, k, height) + Gap,
                     Top(nodes, Front(path), height), before)

(* Packs the subtrees by the heights of their roots alone. *)
Bug_LayoutIgnoresSubtrees(nodes, height) ==
    [path \in DOMAIN height |->
        IF path = <<>> THEN 0
        ELSE FoldLeft(LAMBDA sum, k : sum + height[k] + Gap, 0,
                      SelectSeq(Kids(nodes, Front(path)), LAMBDA k : Last(k) < Last(path)))]

autoLayout(nodes, height) ==
    [path \in DOMAIN height |->
        IF Kids(nodes, path) = <<>> THEN Top(nodes, path, height)
        ELSE Top(nodes, path, height) + (Band(nodes, path, height) - height[path]) \div 2]

ColumnNames(table) ==
    IF table \in DOMAIN Catalog THEN {Catalog[table][i][1] : i \in DOMAIN Catalog[table]} ELSE {}
ColumnOf(table, column) ==
    CHOOSE c \in {Catalog[table][i] : i \in DOMAIN Catalog[table]} : c[1] = column

(* estimateHeight: a header, the rows up to a limit, a footer with or        *)
(* without the relations the table suggests.                                 *)
estimateHeight(fields, node, suggestions) ==
    LET leaves == {nodeFields(fields, node.path)[i] : i \in node.leaves}
        special == {f \in leaves : ~(Plain(f) /\ f.column \in ColumnNames(node.table))}
        rows == Cardinality(special) + (IF ColumnNames(node.table) # {}
                                        THEN Cardinality(ColumnNames(node.table))
                                        ELSE Cardinality(leaves))
    IN 64 + (IF rows * 36 + 12 > 280 THEN 280 ELSE rows * 36 + 12)
          + 76 + (IF suggestions = {} THEN 0 ELSE 34)

----------------------------------------------------------------------------
(* New fields *)

Blank(name, kind) ==
    [uid |-> <<>>, name |-> name, kind |-> kind, table |-> "", keyed |-> kind \notin Verbs \cup Aggregates,
     column |-> IF kind \in Typed THEN name[1] ELSE IF kind = "geo" THEN "lat" ELSE "",
     ty |-> "keyword", nullable |-> FALSE, dflt |-> FALSE, fields |-> <<>>]
defaultField(name, kind) == Blank(name, kind)

ColumnField(c) ==
    [Blank(<<c[1]>>, "column") EXCEPT !.ty = c[2], !.nullable = c[3]]

(* What the foreign keys at a table suggest: its targets, the tables that    *)
(* point at it, and those across a junction.                                 *)
suggestRelations(from) ==
    {[Blank(<<fk.refs>>, "belongs_to") EXCEPT !.table = fk.refs, !.keyed = TRUE,
                                              !.nullable = fk.nullable] :
        fk \in {fk \in ForeignKeys : fk.table = from}}
    \cup
    {[Blank(<<fk.table>>, "has_many") EXCEPT !.table = fk.table, !.keyed = TRUE] :
        fk \in {fk \in ForeignKeys : fk.refs = from}}
    \cup
    {[Blank(<<other>>, "many_to_many") EXCEPT !.table = other, !.keyed = TRUE] :
        other \in UNION {{j.left, j.right} \ {from} : j \in {j \in Junctions : from \in {j.left, j.right}}}}

NamesIn(fields) == {fields[i].name : i \in DOMAIN fields}
FirstFree(name(_), taken) ==
    name(Min({n \in 1..(Cardinality(taken) + 1) : name(n) \notin taken}))
uniqueName(taken, base) ==
    FirstFree(LAMBDA n : IF n = 1 THEN Append(base, "copy") ELSE base \o <<"copy", ToString(n)>>, taken)
specialName(taken, kind) ==
    FirstFree(LAMBDA n : IF n = 1 THEN <<IF kind = "object" THEN "group" ELSE kind>>
                         ELSE <<kind, ToString(n)>>, taken)

----------------------------------------------------------------------------
(* Edits, of the fields of one node *)

RECURSIVE Stamped(_, _)
Stamped(fields, stamp) ==
    [i \in DOMAIN fields |->
        [fields[i] EXCEPT !.uid = Append(@, stamp), !.fields = Stamped(@, stamp)]]

ReadsColumn(f, column) == Plain(f) /\ f.column = column
Present(fields) == {fields[i].column : i \in {i \in DOMAIN fields : Plain(fields[i])}}
toggleOff(fields, column) == SelectSeq(fields, LAMBDA f : ~ReadsColumn(f, column))
includeColumns(fields, columns) ==
    fields \o SelectSeq([i \in DOMAIN columns |-> ColumnField(columns[i])],
                        LAMBDA f : f.column \notin Present(fields))
clearColumns(fields) == SelectSeq(fields, LAMBDA f : ~Plain(f))
removeFields(fields, names) ==
    SelectSeq(fields, LAMBDA f : ~(Plain(f) /\ <<f.column>> \in names) /\ f.name \notin names)
removeAt(fields, i) == RemoveAt(fields, i)

duplicateAt(fields, i, stamp) ==
    InsertAt(fields, i + 1,
             [Stamped(<<fields[i]>>, stamp)[1] EXCEPT !.name = uniqueName(NamesIn(fields), @)])
Bug_addFieldFirst(fields, f, stamp) == <<[f EXCEPT !.uid = <<stamp>>]>> \o fields
addField(fields, f, stamp) == Append(fields, [f EXCEPT !.uid = <<stamp>>])
addSpecial(fields, kind, stamp) ==
    addField(fields, defaultField(specialName(NamesIn(fields), kind), kind), stamp)

----------------------------------------------------------------------------
(* Completeness, and the copy of the schema without incomplete parts *)

joinIncomplete(f) == f.kind \in Verbs /\ (f.table = "" \/ ~f.keyed)
aggregateIncomplete(f) ==
    f.kind \in Aggregates /\ (f.table = "" \/ ~f.keyed \/ (f.kind \in Reducers /\ f.column = ""))
Incomplete(f) ==
    \/ joinIncomplete(f)
    \/ aggregateIncomplete(f)
    \/ f.kind \in Typed \cup {"geo"} /\ f.column = ""

Bug_PruneTopOnly(fields) == SelectSeq(fields, LAMBDA f : ~Incomplete(f))

RECURSIVE prunedForPreview(_)
prunedForPreview(fields) ==
    LET kept == SelectSeq(fields, LAMBDA f : ~Incomplete(f))
    IN [i \in DOMAIN kept |-> [kept[i] EXCEPT !.fields = prunedForPreview(@)]]

----------------------------------------------------------------------------
(* Issues the catalog shows without a database *)

(* Free-form strings and types outside these families take anything.         *)
Strings == {"text", "keyword", "identifier", "enum"}
Numbers == {"short", "integer", "long", "float", "double", "decimal"}
compatibleSources(target) ==
    CASE target \in {"uuid", "enum"} -> Strings \cup {"uuid"}
      [] target \in Numbers -> Numbers
      [] target \in {"date", "timestamp"} -> {"date", "timestamp"}
      [] OTHER -> {target}
Guarded == {"uuid", "enum", "date", "timestamp", "boolean", "binary"} \cup Numbers
drasticTypeChange(source, chosen) ==
    source # chosen /\ chosen \in Guarded /\ source \notin compatibleSources(chosen)

Known(f, table) == f.kind \in Typed /\ f.column \in ColumnNames(table)
columnMismatch(f, table) ==
    Plain(f) /\ Known(f, table) /\ drasticTypeChange(ColumnOf(table, f.column)[2], f.ty)
NeedsDefault(f, table) ==
    Known(f, table) /\ ~f.nullable /\ ColumnOf(table, f.column)[3] /\ ~f.dflt

RECURSIVE requiredDefaultIssues(_, _)
requiredDefaultIssues(fields, table) ==
    UNION {LET f == fields[i]
           IN (IF NeedsDefault(f, table) THEN {<<f.uid, "error">>} ELSE {})
              \cup (IF columnMismatch(f, table) THEN {<<f.uid, "warning">>} ELSE {})
              \cup requiredDefaultIssues(f.fields, IF f.kind \in Verbs THEN f.table ELSE table)
           : i \in DOMAIN fields}

RECURSIVE countTypeMismatches(_, _)
countTypeMismatches(fields, table) ==
    FoldLeft(LAMBDA n, f : n + (IF columnMismatch(f, table) THEN 1 ELSE 0)
                           + countTypeMismatches(f.fields, IF f.kind \in Verbs THEN f.table ELSE table),
             0, fields)

RECURSIVE Bug_fixRootTable(_, _)
Bug_fixRootTable(fields, table) ==
    [i \in DOMAIN fields |->
        [fields[i] EXCEPT !.ty = IF columnMismatch(fields[i], table)
                                 THEN ColumnOf(table, fields[i].column)[2] ELSE @,
                          !.fields = Bug_fixRootTable(@, table)]]

RECURSIVE fixAllTypes(_, _)
fixAllTypes(fields, table) ==
    [i \in DOMAIN fields |->
        LET f == fields[i]
        IN [f EXCEPT !.ty = IF columnMismatch(f, table) THEN ColumnOf(table, f.column)[2] ELSE @,
                     !.fields = fixAllTypes(@, IF f.kind \in Verbs THEN f.table ELSE table)]]
=============================================================================
