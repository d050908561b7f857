-------------------------------- MODULE Gemini --------------------------------
(***************************************************************************)
(* parsers/gemini.py: sessions of Gemini CLI, whose header names the       *)
(* session that the records after it belong to.  A part of a message has   *)
(* the field "is": text, thought, call, response or other.  The readers of *)
(* its prompt log and of Qwen Code, a fork, are below.                     *)
(***************************************************************************)
EXTENDS Readers

Command == {"run_shell_command", "run_terminal_command", "shell"}
FileRead == {"read_file", "read_many_files"}
FileWrite == {"write_file", "replace", "edit", "smart_edit"}
Network == {"web_fetch", "google_web_search", "web_search"}
PathKeys == {"absolute_path", "file_path", "path", "filename", "paths", "files", "file_paths"}

(* _effect: what a named tool did, or nothing; "args" are the arguments    *)
(* that are there and not empty.                                           *)
Effect(call) ==
    CASE call.name \in Command /\ "command" \in call.args -> "command.exec"
      [] call.name \in FileRead /\ call.args \cap PathKeys # {} -> "file.read"
      [] call.name \in FileWrite /\ call.args \cap PathKeys # {} -> "file.write"
      [] call.name \in Network /\ call.args \cap {"url", "query", "prompt"} # {} -> "network.request"
      [] call.name = "save_memory" /\ call.args \cap {"fact", "memory"} # {} -> "memory.write"
      [] OTHER -> Null

EffectOf == [part |-> "effect-part", tool |-> "effect-tool"]
ResultOf == [part |-> "result-part", tool |-> "result-tool"]

(* _tool_call: what was tried, what was touched and what came back. *)
ToolCall(at, rec, part, n, call, result, stamp) ==
    LET says == Call(call.name, call.id)
    IN  <<Ev(at, part, n, "tool.call", rec, stamp, says)>>
        \o When(Effect(call) # Null,
                <<Ev(at, EffectOf[part], n, Effect(call), rec, stamp, says)>>)
        \o When(result # Null,
                <<Ev(at, ResultOf[part], n, "tool.result", rec, stamp, says)>>)

(* _parts *)
Parts(content, is) == Those(Listed(content), LAMBDA p : p.is = is)
Says(content, is) == \E i \in DOMAIN Parts(content, is) : Said(Parts(content, is)[i].text)

Start == [session |-> Null]

Stamp(carried) == [NoStamp EXCEPT !.session = carried.session]

(* _gemini_message.  A thought keeps itself as its record; the parts that  *)
(* are nothing known are named by the text alone.                          *)
Turn(at, rec, stamp) ==
    LET content == Get(rec, "content")
        thoughts == Listed(Get(rec, "thoughts"))
        answered == Says(content, "text")
        calls == Parts(content, "call")
        Thought(t, i) == <<Ev(at, "thought", i, "assistant.thinking", t, stamp, Null)>>
        Part(p, i) == ToolCall(at, rec, "part", i, p.call, Null, stamp)
        Tool(c, i) == ToolCall(at, rec, "tool", i, c, Get(c, "result"), stamp)
        reasoned == Says(content, "thought")
    IN  Each(thoughts, Thought)
        \o When(reasoned, <<Ev(at, "thinking", 0, "assistant.thinking", rec, stamp, Null)>>)
        \o When(answered \/ (calls = <<>> /\ thoughts = <<>> /\ ~reasoned),
                <<Ev(at, "self", 0, "assistant.text", rec, stamp, Null)>>)
        \o Each(calls, Part)
        \o Each(Listed(Get(rec, "toolCalls")), Tool)

Message(at, rec, stamp) ==
    CASE Get(rec, "type") = "user" -> <<Ev(at, "self", 0, "user.prompt", rec, stamp, Null)>>
      [] Get(rec, "type") = "gemini" -> Turn(at, rec, stamp)
      [] OTHER -> <<Unparsed(at, "self", 0, rec, stamp)>>

(* _gemini_header *)
Header(at, rec) ==
    LET carried == [session |-> rec.sessionId]
    IN  [carried |-> carried,
         events |-> <<Ev(at, "self", 0, "session.start", rec, Stamp(carried), Null)>>]

(* _gemini: the tests in the order of the writer's own. *)
Record(at, rec, carried) ==
    LET one(kind) == <<Ev(at, "self", 0, kind, rec, Stamp(carried), Null)>>
        Answer(events) == [carried |-> carried, events |-> events]
    IN  IF Given(Get(rec, "$rewindTo")) THEN Answer(one("session.end"))
        ELSE IF Given(Get(rec, "id")) THEN Answer(Message(at, rec, Stamp(carried)))
        ELSE IF Given(Get(rec, "$set")) THEN Answer(one("config.snapshot"))
        ELSE IF Given(Get(rec, "sessionId")) /\ Given(Get(rec, "projectHash")) THEN Header(at, rec)
        ELSE Answer(<<Unparsed(at, "self", 0, rec, Stamp(carried))>>)

Take(at, line, carried) == ReadLine(at, line, carried, NoStamp, Record)

(* _prompt_log: one list of prompts that is written anew for each of them, *)
(* so a cut of the file loses all.                                         *)
Prompts(file) == IF file.value \in {Torn, Odd} THEN <<>> ELSE file.value

PromptPreface(file) ==
    When(file.value \in {Torn, Odd}, <<Unparsed(0, "document", 0, file.value, NoStamp)>>)

TakePrompt(at, entry) ==
    IF entry = Odd THEN <<Unparsed(at, "self", 0, entry, NoStamp)>>
    ELSE <<Ev(at, "self", 0, "prompt.history", entry, [NoStamp EXCEPT !.session = Get(entry, "sessionId")], Null)>>

-------------------------------------------------------------------------------
(* _qwen: transcripts of Qwen Code, whose every record names its own       *)
(* session, directory and branch.                                          *)

QwenStamp(rec) ==
    [session |-> Get(rec, "sessionId"), cwd |-> Get(rec, "cwd"), branch |-> Get(rec, "gitBranch")]

QwenParts(rec) == Get(Get(rec, "message"), "parts")

Assistant(at, rec) ==
    LET content == QwenParts(rec)
        calls == Parts(content, "call")
        Tool(p, i) == ToolCall(at, rec, "tool", i, p.call, Get(rec, "toolCallResult"), QwenStamp(rec))
    IN  When(Says(content, "thought"),
             <<Ev(at, "thinking", 0, "assistant.thinking", rec, QwenStamp(rec), Null)>>)
        \o When(Says(content, "text") \/ calls = <<>>,
                <<Ev(at, "self", 0, "assistant.text", rec, QwenStamp(rec), Null)>>)
        \o Each(calls, Tool)

(* A record of a result with no response in it is still one result. *)
Results(at, rec) ==
    LET responses == Parts(QwenParts(rec), "response")
        Result(p, i) == <<Ev(at, "result", i, "tool.result", rec, QwenStamp(rec),
                             Call(p.response.name, p.response.id))>>
    IN  IF responses = <<>>
        THEN <<Ev(at, "result", 0, "tool.result", rec, QwenStamp(rec), Call(Null, Null))>>
        ELSE Each(responses, Result)

QwenRecord(at, rec, carried) ==
    LET one(kind) == <<Ev(at, "self", 0, kind, rec, QwenStamp(rec), Null)>>
        type == Get(rec, "type")
    IN  [carried |-> carried,
         events |->
            IF Get(rec, "subtype") = "chat_compression" THEN one("session.end")
            ELSE CASE type = "user" -> one("user.prompt")
                   [] type = "assistant" -> Assistant(at, rec)
                   [] type = "tool_result" -> Results(at, rec)
                   [] type = "system" -> one("config.snapshot")
                   [] OTHER -> <<Unparsed(at, "self", 0, rec,
                                          [NoStamp EXCEPT !.session = Get(rec, "sessionId")])>>]

TakeQwen(at, line, carried) == ReadLine(at, line, carried, NoStamp, QwenRecord)
===============================================================================
