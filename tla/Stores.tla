-------------------------------- MODULE Stores --------------------------------
(***************************************************************************)
(* parsers/sqlite_store.py and parsers/sqlite_generic.py: reading a SQLite *)
(* store row by row, and what becomes of a row that nobody maps.  A store  *)
(* is the list of its tables in the order of their names; a table has      *)
(* rows, maybe rowids, and a number of rows after which reading fails.     *)
(***************************************************************************)
EXTENDS Readers

CONSTANT MaxRows   \* how many rows of a table are read (MAX_ROWS)

(* The locator of what concerns the file as a whole. *)
File == <<"file", 0>>

(* Slip: the rows of a table without a rowid are not told apart. *)
RowLocatorAlike(table, i) ==
    <<table.name, IF table.rowid THEN table.rows[i].rowid ELSE 1>>

RowLocator(table, i) ==
    <<table.name, IF table.rowid THEN table.rows[i].rowid ELSE i>>

(* Slip: a table that was not read to its end does not say so. *)
RowsOfQuietly(table) ==
    [i \in 1..Lesser(Len(table.rows), Lesser(table.fails, MaxRows)) |->
        [table |-> table.name, at |-> RowLocator(table, i), row |-> table.rows[i], stopped |-> FALSE]]

(* rows_of: the rows up to the limit, or to where reading fails, and then  *)
(* one more element that says so.                                          *)
RowsOf(table) ==
    LET read == Lesser(Len(table.rows), Lesser(table.fails, MaxRows))
        stop == [table |-> table.name, at |-> <<table.name, 0>>, row |-> Null, stopped |-> TRUE]
    IN  [i \in 1..read |-> [table |-> table.name, at |-> RowLocator(table, i),
                            row |-> table.rows[i], stopped |-> FALSE]]
        \o When(read < Len(table.rows), <<stop>>)

RowsOfAll(tables) == Flattened([i \in DOMAIN tables |-> RowsOf(tables[i])])

(* The tables of these names in this order, and then the others. *)
InOrder(tables, names) ==
    LET Named(name) == Those(tables, LAMBDA t : t.name = name)
        rest == Those(tables, LAMBDA t : t.name \notin Members(names))
    IN  Flattened([i \in DOMAIN names |-> RowsOfAll(Named(names[i]))]) \o RowsOfAll(rest)

(* The record that says that a table was not read to its end. *)
Stopped(item) == <<Unparsed(item.at, "stopped", 0, item.row, NoStamp)>>

(* sidecar: the log, the index or the journal of a store is one record, of *)
(* which the text alone differs.                                           *)
Sidecar(file) == file.suffix \in {"-wal", "-shm", "-journal"}

(* open_store, tables: a store that is a sidecar, or that cannot be        *)
(* opened, has no table.                                                   *)
TablesOf(file) ==
    IF Sidecar(file) \/ ~file.opens THEN <<>> ELSE file.tables

(* sidecar, describe: the one record of such a file. *)
FileRecord(file) ==
    IF Sidecar(file) \/ ~file.opens
    THEN <<Unparsed(File, "self", 0, [suffix |-> file.suffix], NoStamp)>> ELSE <<>>

SessionColumns == {"session_id", "conversation_id", "thread_id"}
ProjectColumns == {"cwd", "workspace", "project_path"}

(* _literal: the first column of these names that says something. *)
Literal(row, columns) ==
    LET said == {c \in columns \cap DOMAIN row : Said(row[c])}
    IN  IF said = {} THEN Null ELSE row[CHOOSE c \in said : TRUE]

(* rows_as_events: a row that nobody maps. *)
RowAsEvent(item) ==
    <<Unparsed(item.at, "self", 0, item.row,
               [session |-> Literal(item.row, SessionColumns),
                cwd |-> Literal(item.row, ProjectColumns), branch |-> Null])>>

(* SqliteGenericParser.parse: the inventory, then every row of every       *)
(* table; of an index that the agent built the inventory alone.            *)
Inventory(file) ==
    LET tables == TablesOf(file)
    IN  <<Unparsed(<<"schema", 0>>, "self", 0, {tables[i].name : i \in DOMAIN tables}, NoStamp)>>

GenericItems(file) == IF file.index THEN <<>> ELSE RowsOfAll(TablesOf(file))

GenericStart(file) ==
    IF Sidecar(file) \/ ~file.opens THEN FileRecord(file) ELSE Inventory(file)

TakeGeneric(item, carried) ==
    [carried |-> carried, events |-> IF item.stopped THEN Stopped(item) ELSE RowAsEvent(item)]
===============================================================================
