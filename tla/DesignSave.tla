----------------------------- MODULE DesignSave -----------------------------
(* Saving in the designer: the file operations derived from the saved        *)
(* snapshot and the document (App.tsx), the server that resolves them        *)
(* against the disk and applies them (apps/design/src/api.rs), the review in *)
(* between, and the snapshot afterwards. The user can edit while a request   *)
(* is on its way, and undo and redo under the open review.                   *)
EXTENDS DesignStore

CONSTANTS InitialRows, \* the index table of the project as loaded
          Unreadable,  \* the indexes whose file did not load
          ConfigPath,  \* flusso.toml
          NoReview,    \* no review is open
          Idle,        \* no request is on its way
          MaxSaves,    \* bound: requests sent, not counting those that failed
          MaxFails     \* bound: requests that fail

ASSUME SaveAssumption ==
    /\ InitialRows \in Seq([name : Names, path : Paths])
    /\ Len(InitialRows) <= MaxRows
    /\ ConfigPath \notin Paths
    /\ MaxSaves \in Nat
    /\ MaxFails \in Nat

VARIABLES saved,    \* the document as last loaded or saved
          request,  \* the request on its way ("saving"), or Idle
          review,   \* the diffs under review, or NoReview
          disk,     \* flusso.toml and the schema files
          saves,    \* requests sent
          fails,    \* requests that failed
          doubts,   \* history: what may have set snapshot and disk apart
          torn      \* history: the documents that failed saves left, part or
                    \* all of them, on the disk

saveVars == <<saved, request, review, disk, saves, fails, doubts, torn>>
vars == <<storeVars, saveVars>>

----------------------------------------------------------------------------
(* Client: what to write. *)

ConfigOf(d) == [index |-> [i \in DOMAIN d.index |-> [name |-> d.index[i].name,
                                                     path |-> d.index[i].path]],
                rest |-> d.rest]
configDirty == doc.index # saved.index \/ doc.rest # saved.rest

(* Only what a schema says counts, not the row it was made for. *)
RevAt(d, name) == IF name \in DOMAIN d.schemas THEN d.schemas[name].rev ELSE -1
indexDirty(d, name) == RevAt(d, name) # RevAt(saved, name)

Was(id) == SelectInSeq(saved.index, LAMBDA r : r.id = id)
Upsert(r) == [kind |-> "upsert", path |-> r.path, from |-> r.path,
              rev |-> RevAt(doc, r.name), name |-> r.name]

(* A row without a schema is left alone, a new one is written, one whose     *)
(* path changed is moved, one whose schema changed is written, and the file  *)
(* of a row that is gone is deleted.                                         *)
buildOps ==
    LET OpsOf(r) ==
            IF r.name \notin DOMAIN doc.schemas THEN <<>>
            ELSE IF Was(r.id) = 0 THEN <<Upsert(r)>>
            ELSE IF saved.index[Was(r.id)].path # r.path
                 THEN <<[Upsert(r) EXCEPT !.kind = "move", !.from = saved.index[Was(r.id)].path]>>
            ELSE IF indexDirty(doc, r.name) THEN <<Upsert(r)>>
            ELSE <<>>
        Gone(r) ==
            IF \E i \in DOMAIN doc.index : doc.index[i].id = r.id THEN <<>>
            ELSE <<[kind |-> "delete", path |-> r.path, from |-> r.path, rev |-> -1,
                    name |-> r.name]>>
    IN FlattenSeq([i \in DOMAIN doc.index |-> OpsOf(doc.index[i])])
       \o FlattenSeq([i \in DOMAIN saved.index |-> Gone(saved.index[i])])

----------------------------------------------------------------------------
(* Server: the plan of a request against the disk, and its application.      *)

FileRev(p) == IF p \in DOMAIN disk.files THEN disk.files[p] ELSE -1

Resolve(o) ==
    LET entry == [op |-> "write", path |-> o.path, from |-> o.path, rev |-> o.rev,
                  changed |-> FileRev(o.path) # o.rev]
    IN CASE o.kind = "delete" ->
              IF o.path \in DOMAIN disk.files
              THEN <<[entry EXCEPT !.op = "delete", !.changed = TRUE]>> ELSE <<>>
         [] o.kind = "move" /\ o.from \in DOMAIN disk.files ->
              <<[entry EXCEPT !.op = "move", !.from = o.from, !.changed = TRUE]>>
         [] OTHER -> <<entry>>

plan(d, ops) ==
    <<[op |-> "write", path |-> ConfigPath, from |-> ConfigPath, rev |-> -1,
       changed |-> disk.config # ConfigOf(d)]>>
    \o FlattenSeq([i \in DOMAIN ops |-> Resolve(ops[i])])

(* Staged files are renamed into place in order; "done" of them made it.     *)
(* Deleted files and the sources of moves go afterwards.                     *)
Commit(steps, d, done, removing) ==
    LET written == {i \in 1..done : steps[i].op # "delete" /\ steps[i].path # ConfigPath}
        LastOn(p) == CHOOSE i \in written : steps[i].path = p /\
                         \A j \in written : steps[j].path = p => j <= i
        gone == IF removing
                THEN {steps[i].path : i \in {i \in DOMAIN steps : steps[i].op = "delete"}}
                     \cup {steps[i].from : i \in {i \in DOMAIN steps : steps[i].op = "move"}}
                ELSE {}
        onto == {steps[i].path : i \in written}
    IN [config |-> IF \E i \in 1..done : steps[i].path = ConfigPath
                   THEN ConfigOf(d) ELSE disk.config,
        files |-> [p \in (DOMAIN disk.files \cup onto) \ gone |->
                     IF p \in onto THEN steps[LastOn(p)].rev ELSE disk.files[p]]]

Steps(d, ops, skip) ==
    LET entries == plan(d, ops)
        Taken(e) == IF e.changed /\ e.path \notin skip THEN <<e>> ELSE <<>>
    IN FlattenSeq([i \in DOMAIN entries |-> Taken(entries[i])])

----------------------------------------------------------------------------
(* The save flow. *)

(* save: one request at a time; nothing asks whether the document is dirty. *)
SendDiff ==
    /\ request = Idle
    /\ saves < MaxSaves + fails
    /\ request' = [kind |-> "diff", doc |-> doc, ops |-> buildOps, configDirty |-> configDirty]
    /\ saves' = saves + 1
    /\ UNCHANGED <<storeVars, saved, review, disk, fails, doubts, torn>>

(* The diff of an unchanged flusso.toml is hidden; a review opens when       *)
(* anything is left.                                                         *)
DiffReply ==
    /\ request # Idle
    /\ request.kind = "diff"
    /\ LET result == plan(request.doc, request.ops)
           shown == [result EXCEPT ![1].changed = @ /\ request.configDirty]
       IN review' = IF \E i \in DOMAIN shown : shown[i].changed THEN shown ELSE review
    /\ request' = Idle
    /\ UNCHANGED <<storeVars, saved, disk, saves, fails, doubts, torn>>

Cancel ==
    /\ review # NoReview
    /\ review' = NoReview
    /\ UNCHANGED <<storeVars, saved, request, disk, saves, fails, doubts, torn>>

(* performSave: the operations are derived again, from the document of now.  *)
ChangedPaths == {review[i].path : i \in {i \in DOMAIN review : review[i].changed}}
Confirm(unchecked) ==
    /\ review # NoReview
    /\ request = Idle
    /\ saves < MaxSaves + fails
    /\ request' = [kind |-> "save", doc |-> doc, ops |-> buildOps, configDirty |-> configDirty,
                   review |-> review,
                   skip |-> unchecked \cup (IF configDirty THEN {} ELSE {ConfigPath})]
    /\ saves' = saves + 1
    /\ UNCHANGED <<storeVars, saved, review, disk, fails, doubts, torn>>

(* diffFor: the review's entry for an operation; 0 when there is none. *)
DiffFor(diffs, o) ==
    SelectInSeq(diffs, LAMBDA d : d.path = o.path /\ (d.op = "delete") = (o.kind = "delete"))
Reviewed(req, o) ==
    LET k == DiffFor(req.review, o) IN k # 0 /\ req.review[k].changed
Unchecked(req, o) == Reviewed(req, o) /\ o.path \in req.skip

ConfigSkipped(req) == req.configDirty /\ ConfigPath \in req.skip
Bug_OnlyConfigCounts(req) == ConfigSkipped(req)

AnySkipped(req) == ConfigSkipped(req) \/ \E o \in ToSet(req.ops) : Unchecked(req, o)

(* Takes over what was unchecked too. *)
Bug_SnapshotIsSent(req) == req.doc

(* The snapshot after a save: the document as sent, or, when entries were    *)
(* unchecked, the old snapshot with the applied operations folded in, one    *)
(* after the other; the deletions come last.                                 *)
Applied(req) == {o \in ToSet(req.ops) : Reviewed(req, o) /\ ~Unchecked(req, o)}
Snapshot(req) ==
    IF ~AnySkipped(req) THEN req.doc
    ELSE LET config == IF ConfigSkipped(req) THEN saved ELSE req.doc
             dropped == {o.name : o \in {o \in Applied(req) : o.kind = "delete"}}
             written == {o.name : o \in {o \in Applied(req) : o.kind # "delete"}}
             keys == ((DOMAIN saved.schemas \cup written) \ dropped) \cap NamesOf(config.index)
         IN [index |-> config.index, rest |-> config.rest,
             schemas |-> [n \in keys |-> IF n \in written THEN req.doc.schemas[n]
                                                          ELSE saved.schemas[n]]]

----------------------------------------------------------------------------
(* History: the ways in which a save can leave the disk unlike the snapshot. *)

Collides(d, ops) ==
    LET entries == plan(d, ops)
    IN \E i, j \in DOMAIN entries :
           /\ i # j
           /\ entries[i].op # "delete"
           /\ entries[i].path \in {entries[j].path, entries[j].from}
SharedFile(d) ==
    \E i, j \in DOMAIN d.index : i # j /\ d.index[i].path = d.index[j].path
(* A renamed row whose schema reads like the one saved under its new name. *)
Mistaken(d) ==
    \E r \in ToSet(d.index) :
        /\ Was(r.id) # 0
        /\ saved.index[Was(r.id)].name # r.name
        /\ r.name \in DOMAIN d.schemas
        /\ ~indexDirty(d, r.name)

(* The document changed under the review: an entry that was not in it is     *)
(* skipped with one that was, or written when others are skipped.            *)
Unreviewed(req) ==
    LET steps == Steps(req.doc, req.ops, req.skip)
    IN \E o \in ToSet(req.ops) :
           /\ ~Unchecked(req, o)
           /\ \/ o.path \in req.skip
              \/ /\ AnySkipped(req)
                 /\ ~Reviewed(req, o)
                 /\ \E i \in DOMAIN steps : steps[i].path = o.path

IsRow(rows, name, path) == \E i \in DOMAIN rows : rows[i].name = name /\ rows[i].path = path

(* flusso.toml is saved with a row whose file is not: a row under another    *)
(* name or path than it had, or one whose saved file goes with another row   *)
(* or whose name has been saved for another.                                 *)
Left(req) ==
    /\ AnySkipped(req)
    /\ ~ConfigSkipped(req)
    /\ \E r \in ToSet(req.doc.index) :
           /\ r.name \in DOMAIN Snapshot(req).schemas
           /\ \A o \in Applied(req) : ~(o.kind # "delete" /\ o.name = r.name /\ o.path = r.path)
           /\ \/ ~IsRow(saved.index, r.name, r.path)
              \/ \E o \in Applied(req) :
                     o.kind # "delete" /\ (o.name = r.name \/ o.from = r.path)

(* A file is saved for a row that goes by another name or path in the        *)
(* flusso.toml left on the disk.                                             *)
Displaced(req) ==
    /\ ConfigSkipped(req)
    /\ \E o \in Applied(req), s \in ToSet(saved.index) :
           /\ o.kind # "delete"
           /\ s.name = o.name \/ s.path \in {o.path, o.from}
           /\ ~(s.name = o.name /\ s.path = o.path)

(* What failed is saved again, all of it, and nothing else failed. *)
Retries(req) == torn = {req.doc} /\ ~AnySkipped(req)

SaveReply ==
    /\ request # Idle
    /\ request.kind = "save"
    /\ LET steps == Steps(request.doc, request.ops, request.skip)
       IN disk' = Commit(steps, request.doc, Len(steps), TRUE)
    /\ saved' = Snapshot(request)
    /\ review' = NoReview
    /\ request' = Idle
    /\ doubts' = doubts
         \cup (IF Collides(request.doc, request.ops) THEN {"collision"} ELSE {})
         \cup (IF Unreviewed(request) THEN {"unreviewed"} ELSE {})
         \cup (IF SharedFile(request.doc) THEN {"shared"} ELSE {})
         \cup (IF AnySkipped(request) THEN {"skipped"} ELSE {})
         \cup (IF Mistaken(request.doc) THEN {"mistaken"} ELSE {})
         \cup (IF Left(request) THEN {"left"} ELSE {})
         \cup (IF Displaced(request) THEN {"displaced"} ELSE {})
         \cup (IF torn = {} \/ Retries(request) THEN {} ELSE {"torn"})
    /\ torn' = {}
    /\ UNCHANGED <<storeVars, saves, fails>>

(* A request fails: on the way there, in the middle of the renames, or on    *)
(* the way back. The review stays open.                                      *)
RequestFails ==
    /\ request # Idle
    /\ fails < MaxFails
    /\ fails' = fails + 1
    /\ request' = Idle
    /\ \/ disk' = disk
       \/ /\ request.kind = "save"
          /\ LET steps == Steps(request.doc, request.ops, request.skip)
             IN \E done \in 1..Len(steps) :
                    disk' \in {Commit(steps, request.doc, done, FALSE),
                               Commit(steps, request.doc, Len(steps), TRUE)}
    /\ torn' = IF disk' = disk THEN torn ELSE torn \cup {request.doc}
    /\ UNCHANGED <<storeVars, saved, review, saves, doubts>>

Reset ==
    /\ RevertTo(saved)
    /\ UNCHANGED saveVars

Init ==
    /\ LoadProject(InitialRows, NamesOf(InitialRows) \ Unreadable)
    /\ saved = doc
    /\ request = Idle
    /\ review = NoReview
    /\ disk = [config |-> ConfigOf(doc),
               files |-> [p \in {InitialRows[i].path : i \in DOMAIN InitialRows} |-> 0]]
    /\ saves = 0
    /\ fails = 0
    /\ doubts = IF SharedFile(doc) THEN {"shared"} ELSE {}
    /\ torn = {}

Next ==
    \/ (Edit \/ Undo \/ Redo) /\ UNCHANGED saveVars
    \/ Reset
    \/ SendDiff
    \/ DiffReply
    \/ Cancel
    \/ review # NoReview /\ \E unchecked \in SUBSET ChangedPaths : Confirm(unchecked)
    \/ SaveReply
    \/ RequestFails

Spec == Init /\ [][Next]_vars

----------------------------------------------------------------------------
(* Properties *)

(* Types; and the undo history never outgrows its limit, whatever mixture of *)
(* changes, undos and redos produced it.                                     *)
TypeOK ==
    /\ \A d \in {doc, saved} \cup ToSet(past) \cup ToSet(future) : IsDoc(d)
    /\ active \in Names \cup {Config}
    /\ Len(past) + Len(future) <= HistoryLimit
    /\ DOMAIN disk.files \subseteq Paths
    /\ \A p \in DOMAIN disk.files : disk.files[p] \in Nat
    /\ \A d \in {doc, saved} : \A i, j \in DOMAIN d.index : d.index[i].id = d.index[j].id => i = j

OnDisk(d) ==
    /\ disk.config = ConfigOf(d)
    /\ \A i \in DOMAIN d.index :
           d.index[i].name \in DOMAIN d.schemas =>
               FileRev(d.index[i].path) = RevAt(d, d.index[i].name)

(* The saved snapshot, which "unsaved changes" is measured against and Reset *)
(* returns to, is what the disk holds (performSave, App.tsx:520-523), through *)
(* renames, moves, undo across a save, edits while a request is on its way,  *)
(* saves with entries unchecked, and a save that failed half way once it is  *)
(* made again, unless one of the other recorded causes applies.              *)
SnapshotIsOnDisk == doubts \subseteq {"skipped"} /\ torn = {} => OnDisk(saved)

(* The same when a file is removed in the save that writes another row's     *)
(* schema to its path (save_project, api.rs:530).                            *)
SaveKeepsWhatItWrote == doubts \subseteq {"collision"} /\ torn = {} => OnDisk(saved)

(* The same when flusso.toml is saved without a file that it renames or      *)
(* moves (performSave, App.tsx:520-523).                                     *)
SnapshotFollowsConfig ==
    doubts \subseteq {"skipped", "left"} /\ torn = {} => OnDisk(saved)

(* The same when a renamed or moved file is saved without flusso.toml        *)
(* (performSave, App.tsx:520-523).                                           *)
SnapshotFollowsFiles ==
    doubts \subseteq {"skipped", "displaced"} /\ torn = {} => OnDisk(saved)

(* A save that fails changes nothing, or everything (save_project,           *)
(* api.rs:525).                                                              *)
SavesAreAtomic ==
    [][request # Idle /\ request' = Idle /\ saved' = saved /\ request.kind = "save" =>
          LET steps == Steps(request.doc, request.ops, request.skip)
          IN disk' \in {disk, Commit(steps, request.doc, Len(steps), TRUE)}]_vars

SchemasOfRows ==
    \A i \in DOMAIN doc.index :
        LET r == doc.index[i]
        IN r.name \in DOMAIN doc.schemas => doc.schemas[r.name].of = r.id

(* An index keeps its own schema through renames, duplication, undo and      *)
(* revert (setConfig), as long as names stay distinct, rows are removed from *)
(* the end and no save leaves a part out.                                    *)
RenamesCarrySchemas == tangled = {} /\ "skipped" \notin doubts => SchemasOfRows

(* The same when a row is removed anywhere in the table. *)
RowsKeepTheirSchemas ==
    tangled \subseteq {"shift"} /\ "skipped" \notin doubts => SchemasOfRows

(* The next save writes the same file, or deletes it. *)
OfferedAgain(o) ==
    \E q \in ToSet(buildOps') : q.path = o.path /\ (q.kind = "delete") = (o.kind = "delete")

(* What was unchecked in a save is offered again by the next one             *)
(* (performSave, App.tsx:537-541): everything when flusso.toml was unchecked *)
(* with it, and a schema edit even when flusso.toml was saved.               *)
UncheckedEditsStayDirty ==
    [][SaveReply /\ doc = request.doc /\ ~HasDuplicates(doc.index) =>
          \A o \in ToSet(request.ops) :
              /\ Unchecked(request, o)
              /\ \/ ConfigSkipped(request)
                 \/ o.kind = "upsert" /\ indexDirty(request.doc, o.name)
              => OfferedAgain(o)]_vars

(* The same of every entry, a moved or deleted file under a saved            *)
(* flusso.toml too.                                                          *)
UncheckedOpsStayDirty ==
    [][SaveReply /\ doc = request.doc /\ ~HasDuplicates(doc.index) =>
          \A o \in ToSet(request.ops) : Unchecked(request, o) => OfferedAgain(o)]_vars
=============================================================================
