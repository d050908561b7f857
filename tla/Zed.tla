----------------------------------- MODULE Zed -----------------------------------
(***************************************************************************)
(* parsers/zed.py and zed_sidebar.py: the threads of Zed.  A thread is one *)
(* row; its messages are variants with the field "tag", and "body" is what *)
(* a variant holds.  The sidebar keeps one row per thread of any agent.    *)
(***************************************************************************)
EXTENDS Stores, TLC

Mapped == <<"threads">>

(* What is taken for granted of the document of a thread. *)
DocumentFits(document) ==
    document \notin {Null, Odd, Torn} =>
        LET messages == Get(document, "messages")
        IN  /\ AList(messages)
            /\ \A i \in DOMAIN Listed(messages) : Get(messages[i], "tag") = "Agent" =>
                  LET results == Get(messages[i].body, "tool_results")
                  IN  /\ AList(Get(messages[i].body, "content")) /\ AList(results)
                      /\ \A m, n \in DOMAIN Listed(results) : m # n => results[m].of # results[n].of

Items(file) == InOrder(TablesOf(file), Mapped)

(* folders: the paths were sorted when they were stored, and the order has *)
(* the place of each before that.  An order that is not one of these paths *)
(* is not applied.                                                         *)
Folders(paths, order) ==
    IF Len(order) = Len(paths) /\ Members(order) = 0..(Len(paths) - 1)
    THEN [i \in DOMAIN paths |-> paths[CHOOSE j \in DOMAIN order : order[j] = i - 1]]
    ELSE paths

(* _user: one prompt, however many pieces it is stored in. *)
User(at, i, body, stamp) == <<Ev(at, "message", <<i>>, "user.prompt", body, stamp, Null)>>

KindOf ==
    [Text |-> "assistant.text", Thinking |-> "assistant.thinking",
     RedactedThinking |-> "assistant.thinking", ToolUse |-> "tool.call"]

(* _agent: the pieces, and the results by the call that each is of.        *)
Agent(at, i, body, stamp) ==
    LET Piece(piece, j) ==
            LET tag == Get(piece, "tag")
                kind == IF tag \in DOMAIN KindOf THEN KindOf[tag] ELSE "unparsed.record"
            IN  <<Ev(at, "content", <<i, j>>, kind, piece, stamp, Call(Null, Get(piece, "id")))>>
        Result(result, j) ==
            <<Ev(at, "result", <<i, result.of>>, "tool.result", result, stamp, Call(Null, result.of))>>
    IN  Each(Listed(Get(body, "content")), Piece) \o Each(Listed(Get(body, "tool_results")), Result)

(* _message: of a variant, the body alone is kept. *)
Message(at, i, message, stamp) ==
    LET one(kind, raw) == <<Ev(at, "message", <<i>>, kind, raw, stamp, Null)>>
        tag == Get(message, "tag")
    IN  CASE tag = "Resume" -> one("config.snapshot", message)
          [] tag = "User" -> User(at, i, message.body, stamp)
          [] tag = "Agent" -> Agent(at, i, message.body, stamp)
          [] tag = "Compaction" -> one("session.end", message.body)
          [] OTHER -> one("unparsed.record", message)

(* _thread: the header is the row, with its document but not the messages; *)
(* of a document that could not be read nothing is in it.                  *)
Thread(item) ==
    LET row == item.row
        opened == Folders(Listed(Get(row, "paths")), Listed(Get(row, "order")))
        stamp == [session |-> Or(Get(row, "id"), Null),
                  cwd |-> IF opened = <<>> THEN Null ELSE opened[1], branch |-> Null]
        document == Get(row, "data")
        readable == document \notin {Null, Odd, Torn}
        header == [key \in DOMAIN row \ (IF readable THEN {} ELSE {"data"}) |->
                        IF key = "data" THEN [k \in DOMAIN document \ {"messages"} |-> document[k]] ELSE row[key]]
        Show(message, i) == Message(item.at, i, message, stamp)
    IN  <<Ev(item.at, "self", 0, "session.start", header, stamp, Null)>>
        \o When(readable, Each(Listed(Get(document, "messages")), Show))

Take(item, carried) ==
    [carried |-> carried,
     events |-> IF item.stopped THEN Stopped(item)
                ELSE IF item.table = "threads" THEN Thread(item) ELSE RowAsEvent(item)]

Sidebar == "sidebar_threads"

(* _is_the_vendors_table: every column that the vendor's table has. *)
VendorsTable(table) == {"session_id", "title", "updated_at"} \subseteq table.columns

(* _when: the first of the times of a row that is one. *)
SidebarTime(row) ==
    LET times == SelectSeq(<<"created_at", "interacted_at", "updated_at">>, LAMBDA c : Said(Get(row, c)))
    IN  IF times = <<>> THEN Null ELSE times[1]

SidebarItems(file) ==
    LET Tell(table) == [i \in DOMAIN RowsOf(table) |->
                           With(RowsOf(table)[i], "vendors", table.name = Sidebar /\ VendorsTable(table))]
        tables == TablesOf(file)
        first == Those(tables, LAMBDA t : t.name = Sidebar /\ VendorsTable(t))
        rest == Those(tables, LAMBDA t : ~(t.name = Sidebar /\ VendorsTable(t)))
    IN  Flattened([i \in DOMAIN (first \o rest) |-> Tell((first \o rest)[i])])

(* _threads, _thread: of a thread the row alone, and the time that it has. *)
TakeSidebar(item, carried) ==
    LET opened == Folders(Listed(Get(item.row, "paths")), Listed(Get(item.row, "order")))
        stamp == [session |-> Or(Get(item.row, "session_id"), Null),
                  cwd |-> IF opened = <<>> THEN Null ELSE opened[1], branch |-> Null]
    IN  [carried |-> carried,
         events |-> IF item.stopped THEN Stopped(item)
                    ELSE IF ~item.vendors THEN RowAsEvent(item)
                    ELSE <<Ev(item.at, "self", 0, "session.start", item.row, stamp, SidebarTime(item.row))>>]
==================================================================================
