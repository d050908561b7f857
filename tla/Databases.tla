------------------------------- MODULE Databases -------------------------------
(***************************************************************************)
(* The parsers that read a store record by record, each over the stores of *)
(* its agent.  A SQLite store is put together from rows out of             *)
(* Cells[format], each for the table that it names, and of a shape:        *)
(* whether it is a log beside a store, whether it opens, whether its       *)
(* tables have rowids, how far a table can be read, which columns its      *)
(* tables declare, and what was collected beside it.  An LMDB store is     *)
(* what its writer left after the transactions out of Cells[format], some  *)
(* of which were interrupted.                                              *)
(***************************************************************************)
EXTENDS Readers, SequencesExt

CONSTANTS
    Cells,          \* of every format, the rows that a store of it may have
    Names,          \* of every format, the names of its tables in their order
    Shapes,         \* of every format, the shapes of its stores
    Lengths,        \* of every format, how many rows or transactions a store may have
    Pages,          \* the pages of an LMDB store
    Order(_),       \* where a key of it is among the others
    MaxRows, MaxRecords, MaxRecovered, KeyLength

VARIABLES
    format, shape, doc, \* what is read: doc is a list of numbers of cells
    file,               \* the store that these make
    items,              \* what there is to take of it once it is open
    at,                 \* the item that is next, 0 before the store is open
    carried,            \* what the reader carries from row to row
    events              \* the events so far

vars == <<format, shape, doc, file, items, at, carried, events>>

Sql == INSTANCE Stores
Goo == INSTANCE Goose
Ope == INSTANCE Opencode
Ama == INSTANCE AmazonQ
Her == INSTANCE Hermes
Zed == INSTANCE Zed
Thr == INSTANCE Codex WITH MaxExpanded <- 0    \* a rollout is no store
Edi == INSTANCE Editor
Lmd == INSTANCE Lmdb

PageFormats == {"lmdb", "prompts"}

(* The tables whose rows belong to a session, and the tables in which a    *)
(* session of theirs is looked for, with the column of its directory.      *)
Headers ==
    [goose |-> [messages |-> <<"sessions">>, thread_messages |-> <<"sessions", "threads">>],
     opencode |-> [session_input |-> <<"session">>, session_message |-> <<"session">>],
     hermes |-> [messages |-> <<"sessions">>]]

Directory == [goose |-> "working_dir", opencode |-> "directory", hermes |-> "cwd"]

(* What a reader takes for granted of a document that a row holds: that    *)
(* its lists are lists, and that a mapping has a key once.                 *)
Fits(f, table, row) ==
    CASE f = "goose" -> AList(Get(row, "content"))
      [] f = "opencode" -> AList(Get(Get(row, "data"), "content"))
      [] f = "hermes" -> Get(row, "tool_calls") # Torn => AList(Get(row, "tool_calls"))
      [] f = "amazonq" /\ table = "conversations" -> Ama!DocumentFits(Get(row, "value"))
      [] f = "zed" /\ table = "threads" -> Zed!DocumentFits(Get(row, "data"))
      [] OTHER -> TRUE

ASSUME Marks == Null \notin {Odd, "earlier", "removed"} /\ Torn \notin {Null, Odd}

(* A row, with the number that its table gives it. *)
Numbered(cell, n) == With(cell.row, "rowid", 2 * n)

(* The tables of a store have names of their own. *)
ASSUME StoresAssumption ==
    \A f \in DOMAIN Cells \ PageFormats :
        /\ Names[f] \in Seq(Range(Names[f])) /\ IsInjective(Names[f])
        /\ \A i \in DOMAIN Cells[f] :
              LET cell == Cells[f][i]
              IN  /\ cell.row \notin {Null, Odd} /\ Fits(f, cell.table, cell.row)
                  /\ \A n \in 1..Lengths[f] : Numbered(cell, n) \notin {Null, Odd}

(* The identifier of a session is the key of its table. *)
ASSUME KeysAssumption ==
    \A f \in DOMAIN Headers \cap DOMAIN Cells : \A i, j \in DOMAIN Cells[f] :
        LET one == Cells[f][i]
            two == Cells[f][j]
            named == \E of \in DOMAIN Headers[f] : one.table \in Range(Headers[f][of])
        IN  i # j /\ one.table = two.table /\ named => ~Said(Get(one.row, "id")) \/ Get(one.row, "id") # Get(two.row, "id")

ASSUME Bounds ==
    /\ {MaxRows, MaxRecords, MaxRecovered} \subseteq Nat /\ \A f \in DOMAIN Cells : Lengths[f] \in Nat
    /\ \A f \in DOMAIN Cells \ PageFormats : \A i \in DOMAIN Shapes[f] : Shapes[f][i].fails \in Nat

(* The number of a row is not its place in the table. *)
TableOf(name) ==
    LET places == Those([i \in DOMAIN doc |-> i], LAMBDA i : Cells[format][doc[i]].table = name)
    IN  [name |-> name, rowid |-> shape.rowids, fails |-> shape.fails, columns |-> shape.columns,
         rows |-> [n \in DOMAIN places |-> Numbered(Cells[format][doc[places[n]]], places[n])]]

Store ==
    [suffix |-> shape.suffix, opens |-> shape.opens, index |-> shape.index,
     perWorkspace |-> shape.perWorkspace, beside |-> shape.beside,
     tables |-> [n \in DOMAIN Names[format] |-> TableOf(Names[format][n])]]

-------------------------------------------------------------------------------
(* What LMDB does.  A transaction changes one record of one database, the  *)
(* main one, which is unnamed, or another that this one has the root of.   *)
(* It writes the changed tree and the main one to pages that neither the   *)
(* last commit nor the one before needs, and then the meta page that is    *)
(* not current.  It ends with that commit, or is cut before or within it.  *)

Nodes(records) ==
    LET keys == Sorted(DOMAIN records, Order)
    IN  [i \in DOMAIN keys |-> [key |-> keys[i], is |-> "value", value |-> records[keys[i]]]]

Leaf(nodes) == [is |-> "leaf", nodes |-> nodes, children |-> <<>>]
NoRecords == [key \in {} |-> Null]
NamesInOrder == <<"bodies.v1", "bodies.v2", "metadata.v1", "metadata.v2">>
Named == Lmd!METADATA \cup Lmd!BODIES
Meta(txn, root) == [txn |-> txn, root |-> root, free |-> 0]

(* A change is of one of the databases; keys have an order; a meta page    *)
(* that was written to its end is not torn; and beside the pages of two    *)
(* commits, five each, there is room for two more.                         *)
ASSUME ChangesAssumption ==
    \A f \in PageFormats \cap DOMAIN Cells :
        /\ \A i, j \in DOMAIN Cells[f] :
              LET one == Cells[f][i]
                  two == Cells[f][j]
              IN  /\ one.of \in Named \cup {Lmd!Unnamed} /\ one.ends \in {"commit", "before", "within"}
                  /\ Order(one.key) \in Nat /\ (Order(one.key) = Order(two.key) => one.key = two.key)
        /\ \A n \in 0..Lengths[f], root \in Pages \cup {0} : Meta(n, root) \notin {Torn, Odd}

ASSUME PagesAssumption == Pages \subseteq Nat \ {0} /\ IsFiniteSet(Pages) /\ Cardinality(Pages) >= 12

Created ==
    [metas |-> <<Meta(0, 0), Meta(0, 0)>>,
     pages |-> [page \in {} |-> Leaf(<<>>)],
     state |-> [txn |-> 0, content |-> [of \in Named \cup {Lmd!Unnamed} |-> NoRecords],
                roots |-> [of \in Named |-> 0], used |-> {}, before |-> {}]]

Changed(records, change) ==
    IF change.value = Null THEN [key \in DOMAIN records \ {change.key} |-> records[key]]
    ELSE With(records, change.key, change.value)

Lowest(pages) == CHOOSE p \in pages : \A q \in pages : p <= q

Transaction(store, change) ==
    LET old == store.state
        unused == Pages \ (old.used \cup old.before)
        fresh == <<Lowest(unused), Lowest(unused \ {Lowest(unused)})>>
        content == [old.content EXCEPT ![change.of] = Changed(@, change)]
        roots == [of \in Named |->
                    IF of # change.of THEN old.roots[of] ELSE IF content[of] = NoRecords THEN 0 ELSE fresh[2]]
        held == Those(NamesInOrder, LAMBDA of : roots[of] # 0)
        main == Nodes(content[Lmd!Unnamed])
                \o [i \in DOMAIN held |-> [key |-> held[i], is |-> "database", root |-> roots[held[i]]]]
        copied == IF change.of \notin Named THEN store.pages
                  ELSE With(store.pages, fresh[2], Leaf(Nodes(content[change.of])))
        meta == Meta(old.txn + 1, IF main = <<>> THEN 0 ELSE fresh[1])
        slot == (meta.txn % 2) + 1
        written == With(copied, fresh[1], Leaf(main))
    IN  CASE change.ends = "commit" ->
                [metas |-> [store.metas EXCEPT ![slot] = meta], pages |-> written,
                 state |-> [txn |-> meta.txn, content |-> content, roots |-> roots,
                            used |-> {meta.root} \cup {roots[of] : of \in Named}, before |-> old.used]]
          [] change.ends = "before" -> [store EXCEPT !.pages = written]
          [] change.ends = "within" -> [store EXCEPT !.pages = written, !.metas[slot] = Torn]

PageFile ==
    LET after[n \in 0..Len(doc)] ==
            IF n = 0 THEN Created ELSE Transaction(after[n - 1], Cells[format][doc[n]])
    IN  after[Len(doc)]

(* The keys of prompts: those that are in a database of prompts. *)
Prompts == {c \in {Cells[format][doc[i]] : i \in DOMAIN doc} : c.of \in Named}
Places == [key \in {c.key : c \in Prompts} |-> Order(key)]

-------------------------------------------------------------------------------
Items ==
    CASE format = "goose" -> Goo!Items(file)
      [] format = "opencode" -> Ope!Items(file)
      [] format = "amazonq" -> Ama!Items(file)
      [] format = "hermes" -> Her!Items(file)
      [] format = "zed" -> Zed!Items(file)
      [] format = "sidebar" -> Zed!SidebarItems(file)
      [] format = "threads" -> Thr!StateItems(file)
      [] format = "editor" -> Edi!StateItems(file)
      [] format = "lmdb" -> Lmd!Items(file)
      [] format = "prompts" -> <<>>
      [] OTHER -> Sql!GenericItems(file)

StartOf ==
    CASE format = "goose" -> Goo!Start
      [] format = "opencode" -> Ope!Start
      [] format = "hermes" -> Her!Start
      [] OTHER -> Null

Preface ==
    CASE format = "editor" -> Edi!StateStart(file)
      [] format = "generic" -> Sql!GenericStart(file)
      [] format = "prompts" /\ Lmd!Opens(file) ->
            Lmd!LivePrompts(file, Places) \o Lmd!RecoveredPrompts(file, Places)
      [] format \in PageFormats /\ (format = "lmdb" \/ ~Lmd!Opens(file)) -> Lmd!StoreNote
      [] OTHER -> Sql!FileRecord(file)

Injective(d) == \A i, j \in DOMAIN d : i < j => d[i] # d[j]

Init ==
    /\ format \in DOMAIN Cells
    /\ \E i \in DOMAIN Shapes[format] : shape = Shapes[format][i]
    /\ \E n \in 0..Lengths[format] : doc \in [1..n -> DOMAIN Cells[format]]
    /\ format \notin PageFormats => Injective(doc)
    /\ file = IF format \in PageFormats THEN PageFile ELSE Store
    /\ items = <<>> /\ at = 0 /\ carried = Null /\ events = <<>>

Open ==
    /\ at = 0
    /\ at' = 1 /\ items' = Items /\ carried' = StartOf /\ events' = Preface
    /\ UNCHANGED <<format, shape, doc, file>>

Item == items[at]

Read(result) ==
    /\ at \in DOMAIN items
    /\ at' = at + 1 /\ carried' = result.carried /\ events' = events \o result.events
    /\ UNCHANGED <<format, shape, doc, file, items>>

ReadGoose == format = "goose" /\ Read(Goo!Take(Item, carried))
ReadOpencode == format = "opencode" /\ Read(Ope!Take(Item, carried))
ReadAmazonQ == format = "amazonq" /\ Read(Ama!Take(Item, carried))
ReadHermes == format = "hermes" /\ Read(Her!Take(Item, carried))
ReadZed == format = "zed" /\ Read(Zed!Take(Item, carried))
ReadSidebar == format = "sidebar" /\ Read(Zed!TakeSidebar(Item, carried))
ReadThreads == format = "threads" /\ Read(Thr!TakeState(file, Item, carried))
ReadEditor == format = "editor" /\ Read(Edi!TakeItem(Item, carried))
ReadGeneric == format = "generic" /\ Read(Sql!TakeGeneric(Item, carried))
ReadPages == format = "lmdb" /\ Read(Lmd!TakeRecord(at, Item, carried))

Next ==
    \/ Open \/ ReadPages
    \/ ReadGoose \/ ReadOpencode \/ ReadAmazonQ \/ ReadHermes \/ ReadZed \/ ReadSidebar
    \/ ReadThreads \/ ReadEditor \/ ReadGeneric

Spec == Init /\ [][Next]_vars

(******************************* properties *******************************)

(* No two events of a store that is read row by row have one identity,     *)
(* with rowids and without them: a row is told apart by its table and its  *)
(* number, and what one row holds by its place in it (sqlite_store.py,     *)
(* rows_of).  Records of LMDB are kept by their pages, which may be shared *)
(* (prompt_library.py, _live and _recovered).                              *)
RowIdentitiesDistinct ==
    format \notin PageFormats => \A i, j \in DOMAIN events : i < j => EventId(events[i]) # EventId(events[j])

RowsRead(name) ==
    UNION {{table.rows[i] : i \in {j \in DOMAIN table.rows : j <= table.fails /\ j <= MaxRows}} :
               table \in {t \in Range(file.tables) : t.name = name}}

(* The directory of a session: the first of these tables that has a row of *)
(* it tells, if any does.                                                  *)
HomeOf(id, tables) ==
    LET Rows(n) == {row \in RowsRead(tables[n]) : Get(row, "id") = id}
        having == {n \in DOMAIN tables : Rows(n) # {}}
        first == CHOOSE n \in having : \A m \in having : n <= m
    IN  IF ~Said(id) \/ having = {} THEN Null
        ELSE Or(Get(CHOOSE row \in Rows(first) : TRUE, Directory[format]), Null)

(* An event of a message has the directory of the session that it names,   *)
(* wherever in the store the row of that session is, and none if the store *)
(* has no such row or it could not be read (goose.py, opencode.py,         *)
(* hermes.py).                                                             *)
InheritsItsSession ==
    format \in DOMAIN Headers =>
        \A i \in DOMAIN events :
            LET e == events[i]
                table == e.loc[1][1]
            IN  table \in DOMAIN Headers[format] /\ e.kind # "unparsed.record" =>
                    Or(e.stamp.cwd, Null) = HomeOf(e.stamp.session, Headers[format][table])

(* A reply of Hermes without words, thoughts and calls is in no event. *)
Wordless(row) ==
    /\ Get(row, "role") = "assistant"
    /\ \A key \in {"content", "items", "reasoning"} : ~Said(Get(row, key))
    /\ Get(row, "tool_calls") # Torn /\ ~Filled(Get(row, "tool_calls"))

Silent(table, i) == format = "hermes" /\ table.name = "messages" /\ Wordless(table.rows[i])

(* When the store has been read, every row of it has an event at its place *)
(* or its table has a record that says that not all of it was read; an     *)
(* index that the agent built is listed alone (sqlite_store.py, rows_of).  *)
ReadOrSaid ==
    format \notin PageFormats /\ at = Len(items) + 1 /\ Sql!TablesOf(file) # <<>> /\ ~shape.index =>
        \A n \in DOMAIN file.tables :
            LET table == file.tables[n]
                told(place) == \E k \in DOMAIN events : events[k].loc[1] = place
            IN  \A i \in DOMAIN table.rows :
                    Silent(table, i) \/ told(Sql!RowLocator(table, i)) \/ told(<<table.name, 0>>)

(* A row of an editor's store of one workspace is stamped with the folder  *)
(* that the file beside it names, unless a row that is no setting names    *)
(* another one; that no folder could be told is said of the store          *)
(* (vscode_state.py).                                                      *)
FolderOfTheWorkspace ==
    format = "editor" /\ at > 0 /\ Sql!TablesOf(file) # <<>> =>
        LET folder == Edi!FolderBeside(file)
        IN  /\ shape.perWorkspace /\ folder = Null => events[1].says.unresolved
            /\ \A i \in 2..Len(events) :
                  events[i].stamp.cwd =
                    IF events[i].kind = "config.snapshot" \/ events[i].raw = Null THEN folder
                    ELSE Or(Sql!Literal(events[i].raw, Sql!ProjectColumns), folder)

(* Every event has the directory that its own store tells for it.          *)
StampedByItsStore == InheritsItsSession /\ FolderOfTheWorkspace

(* The commit that a store is in, as records.  *)
Committed ==
    LET content == file.state.content
    IN  UNION {{<<of, key, content[of][key]>> : key \in DOMAIN content[of]} : of \in DOMAIN content}

(* What a reader takes no more of than this is read to its end. *)
IsReadWholly == Cardinality(Committed) <= MaxRecords

(* A store that is opened is read as of its last commit, wherever the      *)
(* transaction after it was cut: every record of it once, and no other is  *)
(* told as one that is in the store (lmdb.py, read).                       *)
LiveIsCommitted ==
    format \in PageFormats /\ Lmd!Opens(file) /\ IsReadWholly =>
        LET live == Lmd!LiveRecords(file, MaxRecords)
        IN  /\ {<<live[i].of, live[i].key, live[i].value>> : i \in DOMAIN live} = Committed
            /\ Len(live) = Cardinality(Committed)

(* What is told as recovered is on no page of the store, was written by    *)
(* one of its transactions, and a prompt is told as removed exactly when   *)
(* the store has none under its key (lmdb.py, stale; prompt_library.py,    *)
(* _recovered).                                                            *)
RecoveredIsNotLive ==
    format \in PageFormats /\ Lmd!Opens(file) /\ IsReadWholly =>
        /\ \A i \in DOMAIN Lmd!StaleRecords(file, MaxRecords) :
              LET r == Lmd!StaleRecords(file, MaxRecords)[i]
              IN  /\ r.page \notin file.state.used
                  /\ \E j \in DOMAIN doc : Cells[format][doc[j]].key = r.key /\ Cells[format][doc[j]].value = r.value
        /\ format = "prompts" =>
           \A i \in DOMAIN events : events[i].says \in {"earlier", "removed"} =>
              (events[i].says = "earlier" <=> \E c \in Committed : c[2] = events[i].loc[3])
================================================================================
