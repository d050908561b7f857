------------------------------------ MODULE Pi ------------------------------------
(***************************************************************************)
(* parsers/pi.py: the session files of Pi.  A record "session" names the   *)
(* session and the directory of all records after it.                      *)
(***************************************************************************)
EXTENDS Readers

Start == [session |-> Null, cwd |-> Null, model |-> Null]

Stamp(s) == [session |-> s.session, cwd |-> s.cwd, branch |-> Null]
SessionOnly(s) == [NoStamp EXCEPT !.session = s.session]

(* _effect; "args" are the arguments that are there and not empty. *)
Effect(call) ==
    CASE call.name \in {"bash", "shell", "run"} /\ call.args \cap {"command", "cmd"} # {} -> "command.exec"
      [] call.name \in {"read", "read_file"} /\ "path" \in call.args -> "file.read"
      [] call.name \in {"write", "write_file", "edit", "apply_patch"} /\ "path" \in call.args -> "file.write"
      [] call.name \in {"fetch", "web_fetch", "web_search"}
            /\ call.args \cap {"url", "uri", "query", "prompt"} # {} -> "network.request"
      [] OTHER -> Null

(* _tool_call *)
ToolCall(at, i, call, rec, stamp) ==
    LET says == Call(call.name, call.id)
    IN  <<Ev(at, "tool", i, IF Said(Get(call, "namespace")) THEN "mcp.call" ELSE "tool.call", rec, stamp, says)>>
        \o When(Effect(call) # Null, <<Ev(at, "effect", i, Effect(call), rec, stamp, says)>>)

(* _blocks: a text is one block of text. *)
Blocks(content) ==
    IF content = Odd THEN <<[type |-> "text", text |-> "said"]>> ELSE Listed(content)

Has(blocks, type, key) ==
    \E i \in DOMAIN blocks : Get(blocks[i], "type") = type /\ Said(Get(blocks[i], key))

(* The answer of the model; blocks of an unknown type are counted apart.   *)
Assistant(at, rec, message, s) ==
    LET blocks == Blocks(Get(message, "content"))
        calls == Those(blocks, LAMBDA b : Get(b, "type") = "toolCall")
        unknown == Those(blocks, LAMBDA b : Get(b, "type") \notin {"text", "thinking", "toolCall"})
        Use(call, i) == ToolCall(at, i, call, rec, Stamp(s))
        Other(block, i) == <<Unparsed(at, "block", i, block, SessionOnly(s))>>
    IN  When(Has(blocks, "thinking", "thinking"),
             <<Ev(at, "thinking", 0, "assistant.thinking", rec, Stamp(s), Null)>>)
        \o When(Has(blocks, "text", "text") \/ calls = <<>>,
                <<Ev(at, "self", 0, "assistant.text", rec, Stamp(s), Or(Get(message, "model"), s.model))>>)
        \o Each(calls, Use)
        \o Each(unknown, Other)

(* _message *)
Message(at, rec, s) ==
    LET message == Get(rec, "message")
        one(kind, says) == <<Ev(at, "self", 0, kind, rec, Stamp(s), says)>>
        role == Get(message, "role")
    IN  CASE role = "user" -> one("user.prompt", Null)
          [] role = "assistant" -> Assistant(at, rec, message, s)
          [] role = "toolResult" -> one("tool.result", Call(Get(message, "toolName"), Get(message, "toolCallId")))
          [] role = "system" -> one("config.snapshot", Null)
          [] OTHER -> <<Unparsed(at, "self", 0, rec, SessionOnly(s))>>

Changes == {"thinking_level_change", "label", "session_info", "custom", "custom_message"}

(* A session takes the place of the one before with all that it had. *)
Began(rec, s) == [s EXCEPT !.session = Get(rec, "id"), !.cwd = Get(rec, "cwd")]

(* PiParser.parse *)
Record(at, rec, s) ==
    LET type == Get(rec, "type")
        began == Began(rec, s)
        changed == [s EXCEPT !.model = Get(rec, "modelId")]
        one(kind, t) == <<Ev(at, "self", 0, kind, rec, Stamp(t), Null)>>
        Answer(t, events) == [carried |-> t, events |-> events]
    IN  CASE type = "session" -> Answer(began, one("session.start", began))
          [] type = "message" -> Answer(s, Message(at, rec, s))
          [] type = "model_change" -> Answer(changed, one("config.snapshot", changed))
          [] type \in {"compaction", "branch_summary"} -> Answer(s, one("session.end", s))
          [] type \in Changes -> Answer(s, one("config.snapshot", s))
          [] OTHER -> Answer(s, <<Unparsed(at, "self", 0, rec, SessionOnly(s))>>)

(* A torn line is told with the session in force. *)
Take(at, line, s) == ReadLine(at, line, s, SessionOnly(s), Record)
===================================================================================
