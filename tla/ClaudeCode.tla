------------------------------ MODULE ClaudeCode ------------------------------
(***************************************************************************)
(* parsers/claude_code.py: transcripts, whose every record names its own   *)
(* session, directory and branch and whose answers are split into blocks,  *)
(* and the prompt history.                                                 *)
(***************************************************************************)
EXTENDS Readers

Stamp(rec) ==
    [session |-> Get(rec, "sessionId"), cwd |-> Get(rec, "cwd"), branch |-> Get(rec, "gitBranch")]

(* What is said of a block that could not be read names the session alone. *)
BlockStamp(rec) == [NoStamp EXCEPT !.session = Get(rec, "sessionId")]

FileRead == {"Read", "NotebookRead", "Glob", "Grep"}
FileWrite == {"Write", "Edit", "MultiEdit", "NotebookEdit"}
Command == {"Bash", "BashOutput", "KillShell"}
Network == {"WebFetch", "WebSearch"}

(* _effect; "args" are the arguments that are there and not empty. *)
Effect(call) ==
    CASE call.name \in Command /\ "command" \in call.args -> "command.exec"
      [] call.name \in FileWrite /\ call.args \cap {"file_path", "path", "notebook_path"} # {} -> "file.write"
      [] call.name \in FileRead /\ call.args \cap {"file_path", "path", "pattern"} # {} -> "file.read"
      [] call.name \in Network /\ call.args \cap {"url", "query"} # {} -> "network.request"
      [] OTHER -> Null

(* Slip: an effect is put at the place of its call's line. *)
ToolUseAtLine(at, rec, block, i) ==
    LET says == Call(block.name, block.id)
    IN  <<Ev(at, "tool", i, IF block.mcp THEN "mcp.call" ELSE "tool.call", rec, Stamp(rec), says)>>
        \o When(Effect(block) # Null, <<Ev(at, "effect", 0, Effect(block), rec, Stamp(rec), says)>>)

(* _tool_use: the call, and what it did. *)
ToolUse(at, rec, block, i) ==
    LET says == Call(block.name, block.id)
    IN  <<Ev(at, "tool", i, IF block.mcp THEN "mcp.call" ELSE "tool.call", rec, Stamp(rec), says)>>
        \o When(Effect(block) # Null, <<Ev(at, "effect", i, Effect(block), rec, Stamp(rec), says)>>)

Block(at, rec, block, i) ==
    LET type == Get(block, "type")
    IN  CASE type = "thinking" -> <<Ev(at, "think", i, "assistant.thinking", rec, Stamp(rec), Null)>>
          [] type = "text" -> <<Ev(at, "text", i, "assistant.text", rec, Stamp(rec), Null)>>
          [] type = "tool_use" -> ToolUse(at, rec, block, i)
          [] OTHER -> <<Unparsed(at, "block", i, block, BlockStamp(rec))>>

(* Slip: an answer of no block leaves nothing. *)
AssistantSilent(at, rec, message) ==
    LET content == Get(message, "content")
        blocks == IF content \in {Null, Odd} THEN <<[type |-> "text"]>> ELSE content
        Show(block, i) == Block(at, rec, block, i)
    IN  When(Get(message, "stop_reason") = "refusal",
             <<Ev(at, "refusal", 0, "safety.refusal", rec, Stamp(rec), Null)>>)
        \o Each(blocks, Show)

(* _assistant: content that is a text is one block of text. *)
Assistant(at, rec, message) ==
    LET content == Get(message, "content")
        blocks == IF content \in {Null, Odd} THEN <<[type |-> "text"]>> ELSE content
        refused == Get(message, "stop_reason") = "refusal"
        Show(block, i) == Block(at, rec, block, i)
    IN  When(refused, <<Ev(at, "refusal", 0, "safety.refusal", rec, Stamp(rec), Null)>>)
        \o Each(blocks, Show)
        \o When(blocks = <<>> /\ ~refused, <<Unparsed(at, "self", 0, rec, BlockStamp(rec))>>)

(* A user's record: results of tools, and else what the user typed. *)
User(at, rec, message) ==
    LET results == Those(Listed(Get(message, "content")), LAMBDA b : Get(b, "type") = "tool_result")
        Result(b, i) == <<Ev(at, "result", i, "tool.result", rec, Stamp(rec), Call(Null, b.tool_use_id))>>
    IN  IF results # <<>> THEN Each(results, Result)
        ELSE <<Ev(at, "self", 0, "user.prompt", rec, Stamp(rec), Null)>>

(* _record *)
Record(at, rec, carried) ==
    LET type == Get(rec, "type")
        one(kind) == <<Ev(at, "self", 0, kind, rec, Stamp(rec), Null)>>
    IN  [carried |-> carried,
         events |->
            CASE type = "user" -> User(at, rec, Get(rec, "message"))
              [] type = "assistant" -> Assistant(at, rec, Get(rec, "message"))
              [] type = "permission-mode" -> one("permission.change")
              [] type \in {"summary", "compact", "compact_boundary"} -> one("session.end")
              [] OTHER -> <<Unparsed(at, "self", 0, rec, Stamp(rec))>>]

Take(at, line, carried) == ReadLine(at, line, carried, NoStamp, Record)

(* _history *)
Prompt(at, rec, carried) ==
    [carried |-> carried,
     events |-> <<Ev(at, "self", 0, "prompt.history", rec, [NoStamp EXCEPT !.cwd = Get(rec, "project")], Null)>>]

TakeHistory(at, line, carried) == ReadLine(at, line, carried, NoStamp, Prompt)
===============================================================================
