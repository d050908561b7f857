----------------------------- MODULE MCTranscripts -----------------------------
(***************************************************************************)
(* Small files of every format: the records that a reader tells apart, so  *)
(* that any two or three of them can follow each other in a file.          *)
(***************************************************************************)
EXTENDS Transcripts

Text(text) == [type |-> "text", text |-> text]
Bash(id) == [type |-> "tool_use", name |-> "Bash", id |-> id, mcp |-> FALSE, args |-> {"command"}, targets |-> <<"ls">>]
Answer(id) == [type |-> "tool_result", tool_use_id |-> id]
Odd0 == [type |-> "novelty"]

MCClaude ==
    <<Blank, Torn,
      [type |-> "user", sessionId |-> "s1", cwd |-> "/a", message |-> [content |-> Odd]],
      [type |-> "user", sessionId |-> "s1", cwd |-> "/b", message |-> [content |-> <<Answer("c1"), Answer("c2")>>]],
      [type |-> "assistant", sessionId |-> "s2", message |-> [content |-> <<Text("a"), Bash("c1"), Bash("c2"), Odd0>>]],
      [type |-> "assistant", sessionId |-> "s1", message |-> [content |-> <<>>, stop_reason |-> "refusal"]],
      [type |-> "assistant", sessionId |-> "s1", message |-> [content |-> <<>>]],
      [type |-> "permission-mode", sessionId |-> "s1"], [type |-> "novelty", sessionId |-> "s1"]>>

MCClaudeHistory == <<Blank, Torn, [display |-> "hi", project |-> "/a"]>>

Part(is) == [is |-> is, text |-> "a", call |-> [name |-> "shell", id |-> "c1", args |-> {"command"}],
             response |-> [name |-> "shell", id |-> "c1"]]
Edit0 == [name |-> "edit", id |-> "c2", args |-> {"path"}, result |-> "done"]

MCGemini ==
    <<Blank, Torn, [sessionId |-> "s1", projectHash |-> "h"], [sessionId |-> "s2", projectHash |-> "h"],
      [id |-> "m", type |-> "user", content |-> Odd],
      [id |-> "m", type |-> "gemini", content |-> <<Part("call"), Part("thought"), Part("call")>>,
       toolCalls |-> <<Edit0, Edit0>>],
      [id |-> "m", type |-> "gemini", content |-> <<Part("text"), Part("other")>>, thoughts |-> <<"a", "b">>],
      ("$set" :> "x") @@ ("sessionId" :> "s3"), [novelty |-> "x"]>>

MCQwen ==
    <<Blank, Torn, [type |-> "user", sessionId |-> "s1", cwd |-> "/a"],
      [type |-> "assistant", sessionId |-> "s1", gitBranch |-> "b",
       message |-> [parts |-> <<Part("thought"), Part("call"), Part("call")>>]],
      [type |-> "tool_result", sessionId |-> "s2", message |-> [parts |-> <<Part("response"), Part("response")>>]],
      [type |-> "tool_result", sessionId |-> "s2"], [type |-> "system", sessionId |-> "s1"],
      [type |-> "system", subtype |-> "chat_compression"], [type |-> "novelty"]>>

Item0(item) == [type |-> "response_item", payload |-> item]

MCCodex ==
    <<Torn, [type |-> "session_meta", payload |-> [id |-> "s1", cwd |-> "/a", git |-> [branch |-> "b"]]],
      [type |-> "session_meta", payload |-> [id |-> "s2"]],
      [type |-> "turn_context", payload |-> [cwd |-> "/b", model |-> "m"]],
      [type |-> "turn_context", payload |-> [model |-> "n"]],
      Item0([type |-> "message", role |-> "user"]),
      Item0([type |-> "function_call", call_id |-> "c1", name |-> "shell", arguments |-> [command |-> "ls"]]),
      Item0([type |-> "function_call_output", call_id |-> "c1"]), [type |-> "event_msg"]>>

MCCopilot ==
    <<Blank, Torn, [type |-> "session.start", data |-> [sessionId |-> "s1", cwd |-> "/a"]],
      [type |-> "session.model_change", data |-> [newModel |-> "m"]],
      [type |-> "user.message", data |-> [workingDirectory |-> "/b"]],
      [type |-> "tool.execution_start",
       data |-> [toolName |-> "bash", toolCallId |-> "c1", arguments |-> [command |-> "ls"]]],
      [type |-> "tool.execution_complete", data |-> [toolCallId |-> "c1", sessionId |-> "s2"]],
      [type |-> "subagent.failed"], [type |-> "novelty", data |-> Odd]>>

MCPi ==
    <<Blank, Torn, [type |-> "session", id |-> "s1", cwd |-> "/a"], [type |-> "session", id |-> "s2"],
      [type |-> "message", message |-> [role |-> "user", content |-> Odd]],
      [type |-> "message", message |-> [role |-> "assistant",
        content |-> <<[type |-> "toolCall", name |-> "bash", id |-> "c1", args |-> {"command"}],
                      [type |-> "toolCall", name |-> "read", id |-> "c2", args |-> {"path"}], Odd0, Odd0>>]],
      [type |-> "message", message |-> [role |-> "toolResult", toolCallId |-> "c1"]],
      [type |-> "model_change", modelId |-> "m"], [type |-> "novelty"]>>

Request(id) == [type |-> "toolRequest", tool |-> "shell", id |-> id, extension |-> "x", args |-> {"command"}]

MCGoose ==
    <<Blank, Torn, [working_dir |-> "/a", servers |-> {"x"}], [working_dir |-> "/b"],
      [role |-> "user", content |-> <<Text("a"), [type |-> "toolResponse", id |-> "c1"]>>, turnContext |-> "yes"],
      [role |-> "assistant", content |-> <<Request("c1"), Request("c2"), Odd0>>],
      [role |-> "tool", content |-> <<Text("a")>>], [role |-> "user", content |-> <<>>]>>

Named0(type, name, id, args) == [type |-> type, name |-> name, id |-> id, args |-> args]

MCCline ==
    <<Odd, [role |-> "user", content |-> <<Text("a"), Answer("c1"), Answer("c2")>>, type |-> "say", say |-> "user_feedback"],
      [role |-> "assistant", type |-> "ask",
       content |-> <<Named0("tool_use", "execute_command", "c1", {"command"}),
                     Named0("tool_use", "read_file", "c2", {"path"})>>],
      [role |-> "assistant", content |-> <<[type |-> "thinking", thinking |-> "a"]>>, type |-> "say", say |-> "text"],
      [role |-> "novelty", type |-> "novelty"]>>

MCClineFiles ==
    <<[directory |-> "t1", name |-> "api_conversation_history.json"], [directory |-> "tasks", name |-> "ui_messages.json"],
      [directory |-> "t1", name |-> "settings.json", value |-> [workspace |-> "/a"]]>>

Targets(id, name, targets) == [type |-> "tool_use", id |-> id, name |-> name, targets |-> targets]

MCMessages ==
    <<[role |-> "user", content |-> <<Text("a"), Answer("c1")>>],
      [role |-> "assistant", content |-> <<Targets("c1", "run_commands", <<"ls">>), Targets("c2", "editor", <<"f">>), Odd0>>],
      [role |-> "assistant", content |-> <<Targets("c3", "read_files", <<"f", "g">>)>>],
      [role |-> "user", content |-> <<>>]>>

Hook0(name, targets) ==
    [hookName |-> "tool_call", taskId |-> "s1", call |-> [name |-> name, id |-> "c1", targets |-> targets]]

MCHooks ==
    <<Blank, Torn, [hookName |-> "agent_start", rootSessionId |-> "s1", workspaceRoots |-> <<"/a">>],
      Hook0("run_commands", <<"ls">>), Hook0("read_files", <<"f", "g">>),
      [hookName |-> "agent_end", sessionId |-> "s2"], [hookName |-> "novelty"]>>

State0(id) == [name |-> "run", id |-> id]

MCContinue ==
    <<Odd, [message |-> [role |-> "user"], contextItems |-> <<[type |-> "file"], [type |-> "url"], [type |-> "file"]>>],
      [message |-> [role |-> "assistant"], toolCallStates |-> <<State0("c1"), Odd, State0("c2")>>,
       appliedRules |-> <<[name |-> "r"], [name |-> "q"]>>],
      [message |-> [role |-> "tool", toolCallId |-> "c1"]], [sessionId |-> "s2", message |-> [role |-> "novelty"]]>>

MCContinueFiles ==
    <<[index |-> TRUE, stem |-> "sessions", value |-> Null],
      [index |-> FALSE, stem |-> "s1", value |-> [sessionId |-> "s9", workspaceDirectory |-> "/a"]]>>

Line0(is, more, when) == [is |-> is, more |-> more, when |-> when]

MCShell == <<Blank, Line0("cmd", FALSE, "t1"), Line0("cmd", TRUE, "t2"), Line0("cmd", FALSE, Null)>>
MCBash == <<Blank, Line0("stamp", FALSE, "t1"), Line0("stamp", FALSE, "t2"), Line0("cmd", FALSE, Null)>>
MCFish == <<Blank, Line0("cmd", FALSE, Null), Line0("when", FALSE, "t1"), Line0("paths", FALSE, Null),
            Line0("path", FALSE, Null), Line0("added", FALSE, Null), Line0("other", FALSE, Null)>>
MCPrompts == <<Blank, Line0("content", FALSE, Null), Line0("stamp", FALSE, "t1"), Line0("stamp", FALSE, "t2"),
               Line0("other", FALSE, Null)>>
MCPromptLines == <<Blank, Line0("version", FALSE, Null), Line0("content", FALSE, Null)>>
MCAider == <<Blank, Line0("banner", FALSE, Null), Line0("prompt", FALSE, Null), Line0("notice", FALSE, Null),
             Line0("text", FALSE, Null)>>
MCScript == <<Blank, Line0("function", FALSE, Null), Line0("close", FALSE, Null), Line0("declaration", FALSE, Null),
              Line0("text", FALSE, Null)>>

Scalar(n) == [is |-> "scalar", of |-> n]
Mapping(session, entries) == [is |-> "mapping", sessionId |-> session, entries |-> entries]
Under0(key, list, things) == [key |-> key, of |-> list, things |-> things]

MCDocument ==
    <<Torn, Scalar(1), [is |-> "list", of |-> <<>>], [is |-> "list", of |-> <<Scalar(1), Mapping("s1", <<>>)>>],
      [is |-> "list", of |-> <<Scalar(1), Scalar(1), Scalar(1)>>],
      Mapping("s1", <<Under0("a", <<Mapping("s2", <<>>), Mapping(Null, <<>>)>>, TRUE), Under0("b", <<Scalar(1)>>, FALSE)>>)>>

MCRegistry == <<Odd, [name |-> ""], [name |-> "(default)"], [name |-> "a"]>>

Write0(ref) == [ref |-> ref, new |-> "o1"]
OurRef == <<"refs", "cline", "checkpoints", "s1", "r1">>

MCGitLog == <<Blank, Torn, Write0(OurRef), Write0(<<"refs", "heads", "main">>)>>
MCGitFiles == <<[path |-> <<"logs">> \o OurRef], [path |-> <<"packed-refs">>], [path |-> <<"pathspec">>]>>
MCGitIndex == <<Torn, [path |-> <<"a">>, strip |-> 0, stage |-> 0], [path |-> <<"b">>, strip |-> 1, stage |-> 0]>>

Copied(name, index) == [name |-> name, index |-> index]
History(entries) == [resource |-> "/a/f", entries |-> entries]
Written(path, managed, text) ==
    [path |-> path, managed |-> managed, local |-> FALSE, text |-> text,
     roots |-> <<<<"h", "a">>, <<"h", "a", "b">>>>]

Object0(kind, body, how, back, base) == [kind |-> kind, body |-> body, how |-> how, back |-> back, base |-> base]

MCPack ==
    <<Torn, Object0("blob", <<1>>, "whole", 0, <<>>), Object0("commit", <<1>>, "whole", 0, <<>>),
      Object0("blob", <<1, 2>>, "offset", 1, <<>>), Object0("blob", <<1, 2, 3>>, "reference", 0, <<1, 2>>),
      Object0("blob", <<1, 3>>, "reference", 0, <<1>>)>>

Fragment(kind, batch, body, whole) == [kind |-> kind, batch |-> batch, body |-> body, whole |-> whole]
Put0(batch, n, is) == [is |-> is, of |-> <<batch, n>>]

MCLevelLog ==
    <<Fragment("full", 1, <<Put0(1, 1, "put"), Put0(1, 2, "delete")>>, TRUE),
      Fragment("full", 2, <<Put0(2, 1, "put"), Put0(2, 2, "short")>>, FALSE),
      Fragment("first", 3, <<Put0(3, 1, "put")>>, TRUE), Fragment("first", 4, <<Put0(4, 1, "put")>>, TRUE),
      Fragment("middle", 4, <<Put0(4, 2, "put")>>, TRUE), Fragment("last", 4, <<Put0(4, 3, "put")>>, TRUE),
      Fragment("last", 3, <<Put0(3, 2, "odd"), Put0(3, 3, "put")>>, TRUE), Fragment("last", 3, <<Put0(3, 2, "short")>>, FALSE),
      Fragment("last", 3, <<Put0(3, 2, "short")>>, TRUE), Fragment("unknown", 5, <<>>, TRUE),
      Fragment("first", 6, <<>>, TRUE), Fragment("last", 6, <<Put0(6, 1, "put")>>, TRUE)>>

Block0(entries, expands) == [entries |-> entries, expands |-> expands]
MCTable == <<Block0(<<"a", "b">>, TRUE), Block0(<<"c">>, TRUE), Block0(<<>>, FALSE)>>

MCElements ==
    ("codex_history" :> <<Blank, Torn, [session_id |-> "s1"], [ts |-> "t1"]>>)
    @@ ("gemini_prompts" :> <<Odd, [sessionId |-> "s1"], [message |-> "a"]>>)
    @@ ("claude" :> MCClaude) @@ ("claude_history" :> MCClaudeHistory) @@ ("gemini" :> MCGemini) @@ ("qwen" :> MCQwen)
    @@ ("codex" :> MCCodex) @@ ("copilot" :> MCCopilot) @@ ("pi" :> MCPi) @@ ("goose" :> MCGoose)
    @@ ("cline" :> MCCline) @@ ("cline_messages" :> MCMessages) @@ ("cline_hooks" :> MCHooks)
    @@ ("continue" :> MCContinue) @@ ("shell" :> MCShell) @@ ("recall" :> MCShell) @@ ("bash" :> MCBash)
    @@ ("fish" :> MCFish) @@ ("prompts" :> MCPrompts) @@ ("prompt_lines" :> MCPromptLines) @@ ("aider" :> MCAider)
    @@ ("jsonl" :> MCClaude) @@ ("document" :> MCDocument) @@ ("cascade" :> <<Torn, MCDocument[6]>>)
    @@ ("log" :> MCPromptLines) @@ ("patterns" :> MCPromptLines) @@ ("script" :> MCScript) @@ ("registry" :> MCRegistry)
    @@ ("git_log" :> MCGitLog) @@ ("git_index" :> MCGitIndex) @@ ("git_reference" :> <<Blank, Torn, [id |-> "o1"], [symbolic |-> "r"]>>)
    @@ ("git_file" :> <<>>) @@ ("prose" :> <<>>) @@ ("instruction" :> <<>>) @@ ("memory" :> <<>>) @@ ("copy" :> <<>>)
    @@ ("git_object" :> <<>>) @@ ("git_pack" :> MCPack) @@ ("leveldb_log" :> MCLevelLog) @@ ("leveldb_table" :> MCTable)
    @@ ("leveldb_own_log" :> MCPromptLines) @@ ("local_history" :> <<>>) @@ ("manifest" :> <<>>)
    @@ ("workspace" :> <<>>) @@ ("leveldb_file" :> <<>>)

MCFiles ==
    [f \in DOMAIN MCElements |->
        CASE f = "codex" -> <<[compressed |-> FALSE], [compressed |-> TRUE, cut |-> FALSE], [compressed |-> TRUE, cut |-> TRUE]>>
          [] f = "copilot" -> <<[directory |-> "s9"], [directory |-> ""]>>
          [] f = "goose" -> <<[stem |-> "s9"]>>
          [] f = "cline" -> MCClineFiles
          [] f = "cline_messages" -> <<[value |-> [sessionId |-> "s1", system_prompt |-> "a"], stem |-> "s9"]>>
          [] f = "continue" -> MCContinueFiles
          [] f = "manifest" -> <<[stem |-> "s9", value |-> Odd],
                                 [stem |-> "s9", value |-> [prompt |-> "a", workspace_root |-> "/a", status |-> "failed"]]>>
          [] f = "document" -> <<[configuration |-> TRUE], [configuration |-> FALSE]>>
          [] f = "git_log" -> MCGitFiles
          [] f = "git_index" -> <<[version |-> 2], [version |-> 4]>>
          [] f = "git_reference" -> <<[path |-> OurRef], [path |-> <<"refs", "hermes", "h">>]>>
          [] f = "git_file" -> <<[path |-> <<"hooks", "pre-commit">>, content |-> [sample |-> FALSE]],
                                 [path |-> <<"HEAD">>, content |-> [sample |-> FALSE]]>>
          [] f = "git_object" ->
                <<[object |-> Torn], [object |-> [kind |-> "tree", body |-> <<Odd>>]], [object |-> [kind |-> "blob", body |-> <<1>>]]>>
          [] f = "git_pack" -> <<[long |-> FALSE], [long |-> TRUE]>>
          [] f = "gemini_prompts" -> <<Null, Torn>>
          [] f = "workspace" -> <<Torn, [folder |-> "/a"], [workspace |-> "/a/f"]>>
          [] f = "leveldb_file" -> <<[is |-> "manifest"], [is |-> "lock"]>>
          [] f = "prose" -> <<Torn, [text |-> "a"]>>
          [] f \in {"instruction", "memory"} ->
                <<Written(<<"h", "a", "b", "f">>, FALSE, "a"), Written(<<"etc", "f">>, TRUE, "a"), Written(<<"h", "f">>, FALSE, Odd),
                  Written(<<"h", "f">>, FALSE, "a"), [Written(<<"h", "f">>, FALSE, "a") EXCEPT !.roots = <<>>]>>
          [] f = "copy" -> <<[under |-> <<>>], [under |-> <<"s1">>]>>
          [] f = "local_history" ->
                <<Copied("entries.json", Torn), Copied("entries.json", History(<<>>)), Copied("x", Null), Copied("x", Torn),
                  Copied("x", History(<<Odd, [id |-> "y", when |-> "t1"]>>)),
                  Copied("x", History(<<[id |-> "x", when |-> "t1"], [id |-> "x", when |-> "t2"]>>))>>
          [] OTHER -> <<Null>>]

MCLengths ==
    [f \in DOMAIN MCElements |->
        CASE MCElements[f] = <<>> -> 0
          [] f \in {"bash", "prompts", "aider", "script", "shell", "recall", "git_pack", "leveldb_log"} -> 4
          [] f \in {"fish"} -> 4
          [] f \in {"claude", "gemini", "qwen", "jsonl", "copilot", "cline_hooks", "document"} -> 2
          [] OTHER -> 3]
================================================================================
