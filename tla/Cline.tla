---------------------------------- MODULE Cline ----------------------------------
(***************************************************************************)
(* parsers/cline.py: the task directory of Cline, Roo Code and Kilo Code.  *)
(* A file is told by its name; the session of all of them is the name of   *)
(* the directory, for no file says it.  Then parsers/cline_cli.py: the     *)
(* session directory of Cline's command line: the messages of a session,   *)
(* its manifest, and the log of its hooks.                                 *)
(***************************************************************************)
EXTENDS Readers, TLC

(* _task_id: the last directory of the path, unless it is the one that all *)
(* tasks are in.                                                           *)
TaskId(directory) == IF directory \in {"tasks", ""} THEN Null ELSE directory

Of(file) == [NoStamp EXCEPT !.session = TaskId(file.directory)]

Mcp == {"use_mcp_tool", "access_mcp_resource"}
FileWrite ==
    {"write_to_file", "replace_in_file", "apply_diff", "insert_content", "search_and_replace", "new_rule"}

(* _effect; "args" are the arguments that are there and not empty. *)
Effect(call) ==
    CASE call.name = "execute_command" /\ "command" \in call.args -> "command.exec"
      [] call.name = "read_file" /\ "path" \in call.args -> "file.read"
      [] call.name \in FileWrite /\ "path" \in call.args -> "file.write"
      [] call.name \in {"browser_action", "web_fetch", "fetch_instructions"} /\ "url" \in call.args ->
            "network.request"
      [] OTHER -> Null

(* _tool_use *)
ToolUse(at, i, call, message, stamp) ==
    LET says == Call(call.name, call.id)
    IN  <<Ev(at, "tool", i, IF call.name \in Mcp THEN "mcp.call" ELSE "tool.call", message, stamp, says)>>
        \o When(Effect(call) # Null, <<Ev(at, "effect", i, Effect(call), message, stamp, says)>>)

(* _blocks: a text is one block of text. *)
Blocks(message) ==
    LET content == Get(message, "content")
    IN  IF content = Odd THEN <<[type |-> "text", text |-> "said"]>> ELSE Listed(content)

OfType(blocks, types) == Those(blocks, LAMBDA b : Get(b, "type") \in types)

(* _text_blocks *)
HasText(blocks) == \E i \in DOMAIN blocks : Get(blocks[i], "type") = "text" /\ Said(Get(blocks[i], "text"))

(* _api_history: in a user's entry are results, a prompt, or both. *)
User(at, message, stamp) ==
    LET results == OfType(Blocks(message), {"tool_result"})
        Result(b, i) == <<Ev(at, "result", i, "tool.result", message, stamp, Call(Null, b.tool_use_id))>>
    IN  Each(results, Result)
        \o When(HasText(Blocks(message)) \/ results = <<>>,
                <<Ev(at, "self", 0, "user.prompt", message, stamp, Null)>>)

Assistant(at, message, stamp) ==
    LET thoughts == OfType(Blocks(message), {"thinking", "redacted_thinking"})
        calls == OfType(Blocks(message), {"tool_use"})
        Use(call, i) == ToolUse(at, i, call, message, stamp)
    IN  When(\E i \in DOMAIN thoughts : Said(Get(thoughts[i], "thinking")),
             <<Ev(at, "thinking", 0, "assistant.thinking", message, stamp, Null)>>)
        \o When(HasText(Blocks(message)) \/ calls = <<>>,
                <<Ev(at, "self", 0, "assistant.text", message, stamp, Null)>>)
        \o Each(calls, Use)

(* An entry of the history; one that is no mapping is unparsed. *)
Message(at, message, stamp) ==
    CASE Get(message, "role") = "user" -> User(at, message, stamp)
      [] Get(message, "role") = "assistant" -> Assistant(at, message, stamp)
      [] OTHER -> <<Unparsed(at, "self", 0, message, stamp)>>

(* _ui_messages: an entry of the agent's own log, which asks or says. *)
Said0 == [user_feedback |-> "user.prompt", user_feedback_diff |-> "user.prompt",
          reasoning |-> "assistant.thinking"]

Notice(at, entry, stamp) ==
    LET say == Get(entry, "say")
        one(kind, says) == <<Ev(at, "self", 0, kind, entry, stamp, says)>>
    IN  CASE Get(entry, "type") = "ask" -> one("permission.decision", "asked")
          [] Get(entry, "type") = "say" -> one(IF say \in DOMAIN Said0 THEN Said0[say] ELSE "assistant.text", Null)
          [] OTHER -> one("unparsed.record", Null)

Lists == {"api_conversation_history.json", "ui_messages.json"}

(* _document: the entries of a document that is the list it should be. *)
Entries(file) == IF file.name \in Lists THEN Listed(file.value) ELSE <<>>

Take(file, at, entry) ==
    IF file.name = "ui_messages.json" THEN Notice(at, entry, Of(file)) ELSE Message(at, entry, Of(file))

(* _metadata, _context_history, _index and what is left of parse: the one  *)
(* event of a file that is no list, and of a list that could not be read.  *)
Kind ==
    ("task_metadata.json" :> "config.snapshot") @@ ("context_history.json" :> "session.end")
    @@ [name \in {"_index.json", "history_item.json", "settings.json"} |-> "config.snapshot"]

Readable(file) ==
    CASE file.name \in Lists \cup {"task_metadata.json"} -> Given(file.value)
      [] OTHER -> file.value # Torn

Document(file) ==
    LET stamp == IF Kind[file.name] = "config.snapshot" /\ file.name # "task_metadata.json"
                 THEN [Of(file) EXCEPT !.cwd = Or(Get(file.value, "workspace"), Get(file.value, "cwd"))]
                 ELSE Of(file)
    IN  IF file.name \in Lists /\ Readable(file) /\ file.value # Torn THEN <<>>
        ELSE IF file.name \in DOMAIN Kind /\ Readable(file) /\ file.value # Torn
        THEN <<Ev(0, "document", 0, Kind[file.name], file.value, stamp, Null)>>
        ELSE <<Unparsed(0, "document", 0, file.value, Of(file))>>

(******************* the session directory: cline_cli.py ******************)

OfSession(session) == [NoStamp EXCEPT !.session = session]

(* _facets, _effects: what a call of one of the vendor's own tools did, as *)
(* the kinds of the events for it, one for each file it names.             *)
FileKind(operation) == IF operation = "read" THEN "file.read" ELSE "file.write"

Effects(call) ==
    CASE call.name = "run_commands" /\ Filled(call.targets) -> <<"command.exec">>
      [] call.name = "fetch_web_content" /\ Filled(call.targets) -> <<"network.request">>
      [] call.name = "read_files" -> [i \in DOMAIN call.targets |-> FileKind("read")]
      [] call.name \in {"editor", "apply_patch"} -> [i \in DOMAIN call.targets |-> FileKind("write")]
      [] OTHER -> <<>>

(* What a call is about, of a tool that takes several. *)
Aims(call) == call.name \in {"read_files", "editor", "apply_patch"} => call.targets \in Seq(Members(call.targets))

(* The events of the effects: their place says the kind and not which.     *)
EffectEvents(at, n, raw, call, stamp) ==
    LET kinds == Effects(call)
    IN  [i \in DOMAIN kinds |-> Ev(at, "#" \o kinds[i], n, kinds[i], raw, stamp, Call(call.name, Null))]

(* _tool_use *)
SessionToolUse(at, i, block, stamp) ==
    <<Ev(at, "content", i, "tool.call", block, stamp, Call(block.name, block.id))>>
    \o EffectEvents(at, i, block, block, stamp)

(* _block; a block of another type, or none, is kept whole. *)
Block(at, i, block, message, stamp) ==
    LET type == Get(block, "type")
        assistant == Get(message, "role") = "assistant"
        one(kind, says) == <<Ev(at, "content", i, kind, block, stamp, says)>>
    IN  CASE type = "text" -> one(IF assistant THEN "assistant.text" ELSE "user.prompt", Null)
          [] type = "thinking" -> one("assistant.thinking", Null)
          [] type = "tool_use" -> SessionToolUse(at, i, block, stamp)
          [] type = "tool_result" -> one("tool.result", Call(Null, block.tool_use_id))
          [] OTHER -> one("unparsed.record", Null)

(* _message *)
TakeMessage(at, message, c) ==
    LET content == Get(message, "content")
        Show(block, i) == Block(at, i, block, message, OfSession(c.session))
    IN  [carried |-> c,
         events |-> IF ~Filled(content) THEN <<Unparsed(at, "self", 0, message, OfSession(c.session))>>
                    ELSE Each(content, Show)]

(* _messages: the session is the one the file names, or else its name; the *)
(* rest of the document and the system prompt are events of their own.     *)
Session(file) == Or(Get(file.value, "sessionId"), file.stem)

Start(file) == [session |-> Session(file)]

Unread(stamp) == <<Unparsed(0, "document", 0, Null, stamp)>>

Preface(file) ==
    IF ~Given(file.value) THEN Unread(OfSession(file.stem))
    ELSE LET value == file.value
             rest == [key \in DOMAIN value \ {"messages"} |-> value[key]]
         IN  <<Ev(0, "header", 0, "config.snapshot", rest, OfSession(Session(file)), Null)>>
             \o When(Said(Get(value, "system_prompt")),
                     <<Ev(0, "system_prompt", 0, "instruction.source", value.system_prompt,
                          OfSession(Session(file)), Null)>>)

(* _manifest *)
ManifestEvents(file) ==
    LET value == file.value
        stamp == [session |-> Or(Get(value, "session_id"), file.stem),
                  cwd |-> Or(Get(value, "cwd"), Get(value, "workspace_root")), branch |-> Null]
        ended == Said(Get(value, "ended_at")) \/ Get(value, "status") \in {"completed", "failed", "cancelled"}
    IN  IF ~Given(value) THEN Unread(OfSession(file.stem))
        ELSE <<Ev(0, "started_at", 0, "session.start", value, stamp, Null)>>
             \o When(Said(Get(value, "prompt")), <<Ev(0, "prompt", 0, "user.prompt", value.prompt, stamp, Null)>>)
             \o When(ended, <<Ev(0, "ended_at", 0, "session.end", value, stamp, Null)>>)

-------------------------------------------------------------------------------
(* The log of the hooks. *)

Hooks ==
    [agent_start |-> "session.start", agent_resume |-> "session.start",
     prompt_submit |-> "user.prompt", tool_call |-> "tool.call", tool_result |-> "tool.result",
     agent_end |-> "session.end", agent_abort |-> "session.end", agent_error |-> "session.end",
     session_shutdown |-> "session.end"]

(* _hook: the task, the root session or the session names it. *)
HookStamp(rec) ==
    [session |-> Or(Get(rec, "taskId"), Or(Get(rec, "rootSessionId"), Or(Get(rec, "sessionId"), Null))),
     cwd |-> IF Filled(Get(rec, "workspaceRoots")) THEN rec.workspaceRoots[1] ELSE Null,
     branch |-> Null]

Hook(at, rec, c) ==
    LET name == Get(rec, "hookName")
        one(kind, says) == <<Ev(at, "self", 0, kind, rec, HookStamp(rec), says)>>
    IN  [carried |-> c,
         events |-> IF name \notin DOMAIN Hooks THEN one("unparsed.record", Null)
                    ELSE IF name = "tool_call"
                    THEN one("tool.call", Call(rec.call.name, rec.call.id))
                         \o EffectEvents(at, 0, rec, rec.call, HookStamp(rec))
                    ELSE one(Hooks[name], Null)]

TakeHook(at, line, c) == ReadLine(at, line, c, NoStamp, Hook)
==================================================================================
