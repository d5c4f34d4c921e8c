---------------------------- MODULE DesignStore ----------------------------
(* The schema designer's document (store/design.ts) and the edits of it: the *)
(* index rows of the deployment panel, new and duplicated indexes, edits of  *)
(* the open index, undo and redo.                                            *)
(*                                                                           *)
(* A document is the rows of the index table, one number for every other     *)
(* setting of flusso.toml, and the schemas by index name. A schema is its    *)
(* revision; "of" is history: the id of the row it was made for. The file    *)
(* <name>.schema.yml is written as the name itself.                          *)
EXTENDS Integers, Sequences, SequencesExt

CONSTANTS Names,         \* index names
          CustomPaths,   \* schema paths that no index name derives
          NewIndex,      \* the name the deployment panel gives a new row
          Config,        \* the deployment screen, as a value of "active"
          HistoryLimit,  \* undo steps kept
          MaxRows,       \* bound: rows of the index table
          MaxChanges     \* bound: changes of the document

ASSUME StoreAssumption ==
    /\ NewIndex \in Names
    /\ Config \notin Names
    /\ HistoryLimit \in Nat \ {0}
    /\ MaxRows \in Nat
    /\ MaxChanges \in Nat

VARIABLES doc,       \* the edited document
          active,    \* the open index, or Config
          past,      \* zundo's pastStates
          future,    \* zundo's futureStates
          changes,   \* changes made so far; numbers fresh ids and revisions
          tangled    \* history: what may have mixed up names and schemas

storeVars == <<doc, active, past, future, changes, tangled>>

Paths == Names \cup CustomPaths
Row == [id : Nat, name : Names, path : Paths]
Schema == [rev : Nat, of : Nat]
IsDoc(d) ==
    /\ d.index \in Seq(Row)
    /\ d.rest \in Nat
    /\ DOMAIN d.schemas \subseteq Names
    /\ \A n \in DOMAIN d.schemas : d.schemas[n] \in Schema

NamesOf(rows) == {rows[i].name : i \in DOMAIN rows}
DropKeys(f, S) == [k \in DOMAIN f \ S |-> f[k]]
PutKey(f, k, v) == [x \in DOMAIN f \cup {k} |-> IF x = k THEN v ELSE f[x]]
IdOf(rows, name) ==
    IF name \in NamesOf(rows) THEN rows[SelectInSeq(rows, LAMBDA r : r.name = name)].id
                              ELSE 0
HasDuplicates(rows) == \E i, j \in DOMAIN rows : i # j /\ rows[i].name = rows[j].name

(* A fresh id; rows start with ids below it. *)
newId == MaxRows + changes + 1

----------------------------------------------------------------------------
(* setConfig: renames are found by comparing the rows position by position,  *)
(* and schemas follow them one after the other, in the order of the rows.    *)

Positions(old, new) ==
    {i \in DOMAIN old \cap DOMAIN new : old[i].name # new[i].name}
IsRenamed(old, new, name) == \E i \in Positions(old, new) : old[i].name = name
RenameTo(old, new, name) ==
    new[CHOOSE i \in Positions(old, new) :
          /\ old[i].name = name
          /\ \A j \in Positions(old, new) : old[j].name = name => j <= i].name

(* Forgets that the schemas are kept by name. *)
Bug_RekeyKeepsOld(old, new, schemas) == schemas

Rekeyed(old, new, schemas) ==
    LET First(i) == /\ i \in Positions(old, new)
                    /\ \A j \in Positions(old, new) : old[j].name = old[i].name => i <= j
        upTo[i \in 0..Len(old)] ==
            IF i = 0 THEN schemas
            ELSE IF First(i) /\ old[i].name \in DOMAIN upTo[i - 1]
                 THEN DropKeys(PutKey(upTo[i - 1], RenameTo(old, new, old[i].name),
                                      upTo[i - 1][old[i].name]),
                               {old[i].name})
                 ELSE upTo[i - 1]
    IN upTo[Len(old)]

(* Renamed schemas move, those of removed rows go, a file that carries the   *)
(* default name follows its row's rename, and a new row gets its id.         *)
SetConfig(d, rows, rest) ==
    LET old == d.index
        removed == {n \in NamesOf(old) :
                       n \notin NamesOf(rows) /\ ~IsRenamed(old, rows, n)}
        Settle(i) ==
            LET r == [rows[i] EXCEPT !.id = IF @ = 0 THEN newId ELSE @]
            IN IF /\ i \in DOMAIN old
                  /\ IsRenamed(old, rows, old[i].name)
                  /\ RenameTo(old, rows, old[i].name) = r.name
                  /\ r.path = old[i].name
               THEN [r EXCEPT !.path = r.name]
               ELSE r
    IN [index |-> [i \in DOMAIN rows |-> Settle(i)],
        rest |-> rest,
        schemas |-> DropKeys(Rekeyed(old, rows, d.schemas), removed)]

----------------------------------------------------------------------------
(* Undo history (zundo over "doc" alone): a change records the document it   *)
(* replaces, forgets the oldest beyond the limit and clears the redo side.   *)

Bug_RecordKeepsAll(d) ==
    /\ changes < MaxChanges
    /\ doc' = d
    /\ past' = Append(past, doc)
    /\ future' = <<>>
    /\ changes' = changes + 1

Record(d) ==
    /\ changes < MaxChanges
    /\ doc' = d
    /\ past' = Append(IF Len(past) = HistoryLimit THEN Tail(past) ELSE past, doc)
    /\ future' = <<>>
    /\ changes' = changes + 1

Undo ==
    /\ past # <<>>
    /\ doc' = Last(past)
    /\ past' = Front(past)
    /\ future' = Append(future, doc)
    /\ UNCHANGED <<active, changes, tangled>>

Redo ==
    /\ future # <<>>
    /\ doc' = Last(future)
    /\ future' = Front(future)
    /\ past' = Append(past, doc)
    /\ UNCHANGED <<active, changes, tangled>>

(* What setConfig and createIndex let happen to names, kept as history. *)
Tangle(extra) ==
    tangled' = tangled \cup extra \cup (IF HasDuplicates(doc'.index) THEN {"clash"} ELSE {})

----------------------------------------------------------------------------
(* Edits. The deployment panel is on screen exactly when active is Config.   *)

(* apply: an edit of the open index, on the canvas or in code; in code also  *)
(* of an index that an undo has taken away.                                  *)
Apply ==
    /\ active # Config
    /\ Record([doc EXCEPT !.schemas =
                  PutKey(@, active, [rev |-> changes + 1,
                                     of |-> IF active \in DOMAIN doc.schemas
                                            THEN doc.schemas[active].of
                                            ELSE IdOf(doc.index, active)])])
    /\ tangled' = tangled \cup (IF active \in NamesOf(doc.index) THEN {} ELSE {"stray"})
    /\ UNCHANGED active

(* Renaming a row rewrites its name, and perhaps that of its file. *)
RenameRow(i, name) ==
    /\ active = Config
    /\ name # doc.index[i].name
    /\ Record(SetConfig(doc, [doc.index EXCEPT ![i].name = name], doc.rest))
    /\ Tangle({})
    /\ UNCHANGED active

MoveRow(i, path) ==
    /\ active = Config
    /\ path # doc.index[i].path
    /\ Record(SetConfig(doc, [doc.index EXCEPT ![i].path = path], doc.rest))
    /\ Tangle({})
    /\ UNCHANGED active

(* Any other field of the panel: a row's switches, source, stream, sinks. *)
SetRest ==
    /\ active = Config
    /\ Record(SetConfig(doc, doc.index, changes + 1))
    /\ Tangle({})
    /\ UNCHANGED active

AddRow ==
    /\ active = Config
    /\ Len(doc.index) < MaxRows
    /\ Record(SetConfig(doc, Append(doc.index, [id |-> 0, name |-> NewIndex, path |-> NewIndex]),
                        doc.rest))
    /\ Tangle({})
    /\ UNCHANGED active

RemoveRow(i) ==
    /\ active = Config
    /\ Record(SetConfig(doc, RemoveAt(doc.index, i), doc.rest))
    /\ Tangle(IF i < Len(doc.index) THEN {"shift"} ELSE {})
    /\ UNCHANGED active

(* The new-index wizard asks for a name and a path and checks neither. *)
CreateIndex(name, path) ==
    /\ Len(doc.index) < MaxRows
    /\ Record([doc EXCEPT
           !.index = Append(@, [id |-> newId, name |-> name, path |-> path]),
           !.schemas = PutKey(@, name, [rev |-> changes + 1, of |-> newId])])
    /\ active' = name
    /\ Tangle({})

(* dupIndex: the copy follows its source under a name no row has. *)
DupIndex(i, name) ==
    /\ active = Config
    /\ Len(doc.index) < MaxRows
    /\ name \notin NamesOf(doc.index)
    /\ LET src == doc.index[i] IN
         Record([doc EXCEPT
             !.index = InsertAt(@, i + 1, [id |-> newId, name |-> name, path |-> name]),
             !.schemas = IF src.name \in DOMAIN @
                         THEN PutKey(@, name, [@[src.name] EXCEPT !.of = newId])
                         ELSE @])
    /\ active' = name
    /\ Tangle({})

OpenIndex(name) ==
    /\ name \in NamesOf(doc.index)
    /\ active' = name
    /\ UNCHANGED <<doc, past, future, changes, tangled>>

OpenDeployment ==
    /\ active # Config
    /\ active' = Config
    /\ UNCHANGED <<doc, past, future, changes, tangled>>

(* revertChanges, given the saved document: an open index that it does not   *)
(* have is left for the first one, or the deployment screen.                 *)
RevertTo(d) ==
    /\ Record(d)
    /\ active' = IF active \in NamesOf(d.index) \cup {Config} THEN active
                 ELSE IF d.index # <<>> THEN d.index[1].name
                 ELSE Config
    /\ UNCHANGED tangled

(* loadProject: every row gets an id; an index that failed to load has no    *)
(* schema. The first index is opened, and there is no history. Nothing asks  *)
(* whether the names of the rows are distinct.                               *)
LoadProject(rows, loaded) ==
    /\ doc = [index |-> [i \in DOMAIN rows |->
                            [id |-> i, name |-> rows[i].name, path |-> rows[i].path]],
              rest |-> 0,
              schemas |-> [n \in loaded |->
                  [rev |-> 0, of |-> SelectInSeq(rows, LAMBDA r : r.name = n)]]]
    /\ active = IF rows = <<>> THEN Config ELSE rows[1].name
    /\ past = <<>>
    /\ future = <<>>
    /\ changes = 0
    /\ tangled = IF HasDuplicates(rows) THEN {"clash"} ELSE {}

Edit ==
    \/ Apply
    \/ \E i \in DOMAIN doc.index, n \in Names : RenameRow(i, n)
    \/ \E i \in DOMAIN doc.index, p \in Paths : MoveRow(i, p)
    \/ SetRest
    \/ AddRow
    \/ \E i \in DOMAIN doc.index : RemoveRow(i)
    \/ \E n \in Names : \E p \in {n} \cup CustomPaths : CreateIndex(n, p)
    \/ \E i \in DOMAIN doc.index, n \in Names : DupIndex(i, n)
    \/ \E n \in Names : OpenIndex(n)
    \/ OpenDeployment
=============================================================================
