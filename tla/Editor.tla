--------------------------------- MODULE Editor ---------------------------------
(***************************************************************************)
(* parsers/vscode_state.py, file_snapshot.py, instructions.py and          *)
(* memory.py: the editor's own store, the copies of files that editors and *)
(* agents keep, and the documents that agents obey or write to themselves. *)
(* A reader may look at a file that was collected beside the one it reads. *)
(***************************************************************************)
EXTENDS Stores, TLC

(**************************** vscode_state.py *****************************)

ItemTable == "ItemTable"

(* _is_the_vendors_table *)
ItemColumns(table) == {"key", "value"} \subseteq table.columns

(* _uri, uri_as_path: the first of the keys that says something; a path on *)
(* another machine is a path still.                                        *)
UriOf(document) ==
    LET keys == SelectSeq(<<"folder", "workspace", "configuration">>, LAMBDA k : Said(Get(document, k)))
    IN  IF keys = <<>> THEN Null ELSE document[keys[1]]

(* _folder_beside: of a store of one workspace, the folder in the file     *)
(* beside it; a global store belongs to no folder.                         *)
FolderBeside(file) ==
    IF ~file.perWorkspace \/ file.beside \in {Null, Torn} THEN Null ELSE UriOf(file.beside)

In(folder) == [NoStamp EXCEPT !.cwd = folder]

(* _workspace_document: the file that names the folder, read for itself. *)
WorkspaceDocument(document) ==
    <<Ev(<<"file", 0>>, "self", 0, "config.snapshot", document,
         In(IF document = Torn THEN Null ELSE UriOf(document)), Null)>>

(* parse, _inventory: what the store holds, whose it is, or that nothing   *)
(* beside it could say so.                                                 *)
StateStart(file) ==
    IF Sidecar(file) \/ ~file.opens THEN FileRecord(file)
    ELSE <<Ev(<<"schema", 0>>, "self", 0, "config.snapshot",
              {file.tables[i].name : i \in DOMAIN file.tables}, In(FolderBeside(file)),
              [unresolved |-> file.perWorkspace /\ FolderBeside(file) = Null])>>

StateItems(file) ==
    LET Tell(table) ==
            [i \in DOMAIN RowsOf(table) |->
                With(With(RowsOf(table)[i], "folder", FolderBeside(file)),
                     "vendors", table.name = ItemTable /\ ItemColumns(table))]
        tables == TablesOf(file)
    IN  Flattened([i \in DOMAIN tables |-> Tell(tables[i])])

(* Slip: the rows of the vendor's own table are not given the folder. *)
TakeItemNowhere(item, carried) ==
    [carried |-> carried,
     events |-> IF item.vendors THEN <<Ev(item.at, "self", 0, "config.snapshot", item.row, NoStamp, Null)>>
                ELSE <<Unparsed(item.at, "self", 0, item.row, In(item.folder))>>]

(* _items, rows_as_events: a row of the vendor's table is a setting, also  *)
(* the one that says that reading stopped; a column that names a folder    *)
(* goes before the folder that is known.                                   *)
TakeItem(item, carried) ==
    LET other == IF item.stopped THEN Stopped(item) ELSE RowAsEvent(item)
        known == [other EXCEPT ![1].stamp.cwd = Or(@, item.folder)]
    IN  [carried |-> carried,
         events |-> IF item.vendors
                    THEN <<Ev(item.at, IF item.stopped THEN "stopped" ELSE "self", 0, "config.snapshot",
                              item.row, In(item.folder), Null)>>
                    ELSE known]

(**************************** file_snapshot.py ****************************)

EntriesFile == "entries.json"

(* _entries: the rows of an index that are rows. *)
EntriesIn(index) == SelectSeq(Listed(Get(index, "entries")), LAMBDA e : e # Odd)

(* _history_index *)
HistoryIndex(index) ==
    IF index = Torn THEN <<Unparsed(<<"$", 0>>, "self", 0, Null, NoStamp)>>
    ELSE <<Ev(<<"$", 0>>, "self", 0, "file.snapshot",
              [of |-> Get(index, "resource"), versions |-> EntriesIn(index)], NoStamp, Null)>>

(* _from_index: the row of this copy in the index beside it.  An index     *)
(* that could not be read counts as one that is not there.                 *)
RowInIndex(name, index) ==
    LET rows == SelectSeq(EntriesIn(index), LAMBDA e : e.id = name)
    IN  IF index \in {Null, Torn} THEN [found |-> FALSE, why |-> "no index"]
        ELSE IF rows = <<>> THEN [found |-> FALSE, why |-> "not listed"]
        ELSE [found |-> TRUE, why |-> "", of |-> Get(index, "resource"), when |-> rows[1].when]

(* _history_copy *)
HistoryCopy(file, index) ==
    <<Ev(<<"file", 0>>, "self", 0, "file.snapshot", file, NoStamp, RowInIndex(file.name, index))>>

LocalHistory(file, index) ==
    IF file.name = EntriesFile THEN HistoryIndex(index) ELSE HistoryCopy(file, index)

(* parse, _session_of: a copy of the other products, with the session that *)
(* its directory is named for.                                             *)
SnapshotCopy(file) ==
    LET session == IF Len(file.under) >= 1 THEN Or(file.under[1], Null) ELSE Null
    IN  <<Ev(<<"file", 0>>, "self", 0, "file.snapshot", file, [NoStamp EXCEPT !.session = session], Null)>>

(*********************** instructions.py, memory.py ***********************)

(* A path and a working copy are lists of segments. *)
Inside(path, root) == Len(root) > 0 /\ Len(path) >= Len(root) /\ SubSeq(path, 1, Len(root)) = root

(* scope_of: whose instruction it was; the order of the answers matters. *)
ScopeOf(file, roots) ==
    IF file.managed THEN "managed" ELSE IF file.local THEN "local"
    ELSE IF \E i \in DOMAIN roots : Inside(file.path, roots[i]) THEN "project"
    ELSE IF roots = <<>> THEN "unknown" ELSE "user"

(* _project_of: the first of the working copies that holds the file. *)
ProjectOf(path, roots) ==
    LET holding == SelectSeq(roots, LAMBDA r : Inside(path, r) /\ path # r)
    IN  IF holding = <<>> THEN Null ELSE holding[1]

(* read_document: one event per document, of which a binary one tells its  *)
(* size and its hash and neither a scope nor a project.                    *)
ReadDocument(file, roots, kind) ==
    IF file.text = Odd THEN <<Ev(<<"file", 0>>, "self", 0, kind, Odd, NoStamp, Null)>>
    ELSE <<Ev(<<"file", 0>>, "self", 0, kind, file.text, In(ProjectOf(file.path, roots)), ScopeOf(file, roots))>>

Instruction(file, roots) == ReadDocument(file, roots, "instruction.source")

Memory(file, roots) == ReadDocument(file, roots, "memory.write")
=================================================================================
