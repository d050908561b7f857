--------------------------------- MODULE Goose ---------------------------------
(***************************************************************************)
(* parsers/goose.py: the sessions of Goose, in a store and in the files    *)
(* that it kept before.  A message inherits the session, the directory and *)
(* the servers of its session's row, which is read before any message.     *)
(***************************************************************************)
EXTENDS Stores

(* _header: servers are the extensions in force that are MCP servers. *)
Conversation(id, dir, servers) == [session |-> id, cwd |-> dir, servers |-> servers]

Stamp(header) == [session |-> Or(header.session, Null), cwd |-> Or(header.cwd, Null), branch |-> Null]

(* _facet; "args" are the arguments that are there and not empty, "remote" *)
(* says that an image is asked for by an http address.                     *)
Facet(call) ==
    CASE call.tool = "shell" /\ "command" \in call.args -> "command.exec"
      [] call.tool \in {"write", "edit"} /\ "path" \in call.args -> "file.write"
      [] call.tool = "tree" /\ "path" \in call.args -> "file.read"
      [] call.tool = "read_image" /\ "source" \in call.args ->
            IF "remote" \in call.args THEN "network.request" ELSE "file.read"
      [] OTHER -> Null

(* _tool_request: the call, the claim that it went to a server, and what   *)
(* it did, all at one place and told apart by their kinds.                 *)
ToolRequest(at, i, block, header) ==
    LET one(kind) == <<Ev(at, "content", i, kind, block, Stamp(header), Call(block.tool, block.id))>>
    IN  one("tool.call")
        \o When(Said(block.extension) /\ block.extension \in header.servers, one("mcp.call"))
        \o When(Facet(block) # Null, one(Facet(block)))

(* _tool_response: of which tool, the request with this id alone says. *)
ToolResponse(at, i, block, header) ==
    <<Ev(at, "content", i, "tool.result", block, Stamp(header), Call(Null, block.id))>>

(* _action_required: only the two that are about a tool are a decision. *)
ActionRequired(block) ==
    IF Get(block, "action") \in {"toolConfirmation", "toolConfirmationResponse"}
    THEN "permission.decision" ELSE "unparsed.record"

(* _text_block: a user's text that the harness added is no prompt. *)
TextBlock(role, message) ==
    CASE role = "assistant" -> "assistant.text"
      [] role # "assistant" /\ Get(message, "turnContext") = "yes" -> "instruction.source"
      [] OTHER -> "user.prompt"

(* _block_events *)
Block(at, i, block, message, header) ==
    LET type == Get(block, "type")
        one(kind) == <<Ev(at, "content", i, kind, block, Stamp(header), Null)>>
    IN  CASE type = "text" -> one(TextBlock(message.role, message))
          [] type \in {"thinking", "redactedThinking"} -> one("assistant.thinking")
          [] type \in {"image", "document"} ->
                one(IF message.role = "assistant" THEN "assistant.text" ELSE "user.prompt")
          [] type = "toolRequest" -> ToolRequest(at, i, block, header)
          [] type = "toolResponse" -> ToolResponse(at, i, block, header)
          [] type = "toolConfirmationRequest" -> one("permission.decision")
          [] type = "actionRequired" -> one(ActionRequired(block))
          [] OTHER -> one("unparsed.record")

(* _message_events: a role or a content that the product does not read is  *)
(* one unparsed record.                                                    *)
MessageEvents(at, message, header) ==
    LET content == Get(message, "content")
        Show(block, i) == Block(at, i, block, message, header)
    IN  IF Get(message, "role") \notin {"user", "assistant"} \/ ~Filled(content)
        THEN <<Unparsed(at, "self", 0, message, Stamp(header))>>
        ELSE Each(content, Show)

(* _session_events *)
SessionEvents(at, row, header) ==
    <<Ev(at, "self", 0, "session.start", row, Stamp(header), Null)>>
    \o When(Get(row, "recipe") = "yes", <<Ev(at, "recipe", 0, "instruction.source", row, Stamp(header), Null)>>)
    \o When(Get(row, "archived") = "yes", <<Ev(at, "archived", 0, "session.end", row, Stamp(header), Null)>>)

Nobody == [id \in {} |-> Null]

(* _sessions, _threads: a row that names itself is a header for the rest. *)
Named(headers, id, header) == IF Said(id) THEN With(headers, id, header) ELSE headers

SessionRow(item, c) ==
    LET header == Conversation(Get(item.row, "id"), Get(item.row, "working_dir"),
                               IF Given(Get(item.row, "servers")) THEN item.row.servers ELSE {})
    IN  [carried |-> [c EXCEPT !.sessions = Named(@, header.session, header)],
         events |-> SessionEvents(item.at, item.row, header)]

ThreadRow(item, c) ==
    LET header == Conversation(Get(item.row, "id"), Get(item.row, "working_dir"), {})
    IN  [carried |-> [c EXCEPT !.threads = Named(@, header.session, header)],
         events |-> <<Ev(item.at, "self", 0, "session.start", item.row, Stamp(header), Null)>>
                    \o When(Get(item.row, "archived") = "yes",
                            <<Ev(item.at, "archived", 0, "session.end", item.row, Stamp(header), Null)>>)]

(* {**threads, **sessions} *)
SessionsFirst(c) ==
    [id \in DOMAIN c.sessions \cup DOMAIN c.threads |->
        IF id \in DOMAIN c.sessions THEN c.sessions[id] ELSE c.threads[id]]

(* _rows_as_messages: the header of the session, or else of the thread.    *)
(* Content that is no list at all is kept as the row.                      *)
MessageRow(item, headers, id) ==
    LET header == IF id \in DOMAIN headers THEN headers[id] ELSE Conversation(id, Null, {})
    IN  IF Given(Get(item.row, "content")) THEN MessageEvents(item.at, item.row, header)
        ELSE <<Unparsed(item.at, "self", 0, item.row, Stamp(header))>>

Start == [sessions |-> Nobody, threads |-> Nobody]

(* Slip: messages are read as the tables come, in the order of names. *)
ItemsByName(file) == RowsOfAll(TablesOf(file))

(* _database: sessions, threads, the messages of both, and then the tables *)
(* that nobody maps.                                                       *)
Mapped == <<"sessions", "threads", "messages", "thread_messages">>

Items(file) == InOrder(TablesOf(file), Mapped)

Take(item, c) ==
    LET Answer(events) == [carried |-> c, events |-> events]
        session == Get(item.row, "session_id")
    IN  IF item.stopped THEN Answer(Stopped(item))
        ELSE CASE item.table = "sessions" -> SessionRow(item, c)
               [] item.table = "threads" -> ThreadRow(item, c)
               [] item.table = "messages" -> Answer(MessageRow(item, c.sessions, session))
               [] item.table = "thread_messages" ->
                    Answer(MessageRow(item, SessionsFirst(c), Or(session, Get(item.row, "thread_id"))))
               [] OTHER -> Answer(RowAsEvent(item))

-------------------------------------------------------------------------------
(* The files of one session each: a first line that is no message is the   *)
(* header, and the name of the file is the session.                        *)

LegacyStart(stem) == [first |-> TRUE, header |-> Conversation(stem, Null, {})]

LooksLikeMessage(rec) == {"role", "content"} \subseteq DOMAIN rec

(* _legacy_header *)
LegacyHeader(at, rec, c) ==
    LET header == Conversation(c.header.session, Get(rec, "working_dir"),
                               IF Given(Get(rec, "servers")) THEN rec.servers ELSE {})
    IN  [carried |-> [first |-> FALSE, header |-> header],
         events |-> <<Ev(at, "self", 0, "session.start", rec, Stamp(header), Null)>>]

(* _legacy_file *)
TakeLegacy(at, line, c) ==
    CASE line = Blank -> [carried |-> c, events |-> <<>>]
      [] line = Torn -> [carried |-> [c EXCEPT !.first = FALSE],
                         events |-> <<Unparsed(at, "self", 0, line, Stamp(c.header))>>]
      [] OTHER -> IF c.first /\ ~LooksLikeMessage(line) THEN LegacyHeader(at, line, c)
                  ELSE [carried |-> [c EXCEPT !.first = FALSE],
                        events |-> MessageEvents(at, line, c.header)]
===============================================================================
