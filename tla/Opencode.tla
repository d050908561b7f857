-------------------------------- MODULE Opencode --------------------------------
(***************************************************************************)
(* parsers/opencode.py: the store of opencode.  The sessions are read      *)
(* first, and a row after them inherits the directory of its session.      *)
(***************************************************************************)
EXTENDS Stores

(* _text: "" for what is absent; the text of a column that names something. *)
Stamp(id, headers) ==
    [session |-> Or(id, Null),
     cwd |-> IF id \in DOMAIN headers THEN headers[id] ELSE Null, branch |-> Null]

(* _facet; "args" are the arguments that are there and not empty. *)
Facet(tool) ==
    CASE tool.name \in {"bash", "shell"} /\ "command" \in tool.args -> "command.exec"
      [] tool.name \in {"read", "glob", "grep", "list"} /\ "path" \in tool.args -> "file.read"
      [] tool.name \in {"write", "edit", "patch", "multiedit"} /\ "path" \in tool.args -> "file.write"
      [] tool.name \in {"webfetch", "websearch", "fetch"} /\ tool.args \cap {"url", "query"} # {} ->
            "network.request"
      [] OTHER -> Null

(* _tool: the call, what it did and, once there is one, the result, whose  *)
(* record is the state of the call.                                        *)
Tool(at, i, block, stamp) ==
    LET says == Call(block.name, block.id)
        one(kind) == <<Ev(at, "content", i, kind, block, stamp, says)>>
    IN  one("tool.call")
        \o When(Facet(block) # Null, one(Facet(block)))
        \o When(block.state \in {"completed", "error"},
                <<Ev(at, "result", i, "tool.result", block.state, stamp, says)>>)

(* A block of an answer; a text that is empty is no text.  *)
Block(at, i, block, stamp) ==
    LET type == Get(block, "type")
        one(kind) == <<Ev(at, "content", i, kind, block, stamp, Null)>>
    IN  CASE type = "text" /\ Said(Get(block, "text")) -> one("assistant.text")
          [] type = "reasoning" /\ Said(Get(block, "text")) -> one("assistant.thinking")
          [] type = "tool" -> Tool(at, i, block, stamp)
          [] OTHER -> one("unparsed.record")

(* _assistant: entries that are no mapping are left out before the others  *)
(* are counted, and an answer of nothing is still an answer.               *)
Assistant(at, data, stamp) ==
    LET blocks == Those(Listed(Get(data, "content")), Given)
        Show(block, i) == Block(at, i, block, stamp)
    IN  IF blocks = <<>> THEN <<Ev(at, "self", 0, "assistant.text", data, stamp, Null)>>
        ELSE Each(blocks, Show)

KindOf ==
    LET named == [user |-> "user.prompt", system |-> "instruction.source", synthetic |-> "instruction.source",
                  shell |-> "command.exec", compaction |-> "session.end"]
        switches == {"agent-switched", "model-switched"}
    IN  [type \in DOMAIN named \cup switches |-> IF type \in switches THEN "config.snapshot" ELSE named[type]]

(* _message_events: the type is the row's, or else that of its document. *)
MessageEvents(at, data, type, stamp) ==
    CASE type = "assistant" -> Assistant(at, data, stamp)
      [] type \in DOMAIN KindOf -> <<Ev(at, "self", 0, KindOf[type], data, stamp, Null)>>
      [] OTHER -> <<Unparsed(at, "self", 0, data, stamp)>>

(* _messages *)
Message(item, headers) ==
    LET data == Get(item.row, "data")
        stamp == Stamp(Get(item.row, "session_id"), headers)
    IN  IF ~Given(data) THEN <<Unparsed(item.at, "self", 0, item.row, stamp)>>
        ELSE MessageEvents(item.at, data, Or(Get(item.row, "type"), Get(data, "type")), stamp)

(* _inputs *)
Input(item, headers) ==
    <<Ev(item.at, "self", 0, "user.prompt", item.row, Stamp(Get(item.row, "session_id"), headers), Null)>>

(* _sessions *)
Session(item, headers) ==
    LET id == Get(item.row, "id")
        known == IF Said(id) THEN With(headers, id, Get(item.row, "directory")) ELSE headers
        stamp == [session |-> Or(id, Null), cwd |-> Get(item.row, "directory"), branch |-> Null]
    IN  [carried |-> known,
         events |-> <<Ev(item.at, "self", 0, "session.start", item.row, stamp, Null)>>
                    \o When(Get(item.row, "archived") = "yes",
                            <<Ev(item.at, "archived", 0, "session.end", item.row, stamp, Null)>>)]

Start == [id \in {} |-> Null]

(* parse: sessions, prompts, turns, and then the tables that nobody maps. *)
Mapped == <<"session", "session_input", "session_message">>

Items(file) == InOrder(TablesOf(file), Mapped)

Take(item, headers) ==
    LET Answer(events) == [carried |-> headers, events |-> events]
    IN  IF item.stopped THEN Answer(Stopped(item))
        ELSE CASE item.table = "session" -> Session(item, headers)
               [] item.table = "session_input" -> Answer(Input(item, headers))
               [] item.table = "session_message" -> Answer(Message(item, headers))
               [] OTHER -> Answer(RowAsEvent(item))
=================================================================================
