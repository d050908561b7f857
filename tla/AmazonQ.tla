--------------------------------- MODULE AmazonQ ---------------------------------
(***************************************************************************)
(* parsers/amazonq.py: the state database of Amazon Q Developer CLI.  A    *)
(* conversation is one row, whose document holds the history: what the     *)
(* model is still sent and what it is no longer sent.  What is said of a   *)
(* message is whether it was sent and whether it is outside that range.    *)
(***************************************************************************)
EXTENDS Stores

Mapped == <<"conversations", "history", "state", "auth_kv">>

(* What is taken for granted of the document of a conversation. *)
DocumentFits(state) ==
    LET history == Get(state, "history")
        wrote == Get(state, "file_line_tracker")
        ResultsFit(message) == AList(Get(Get(message, "content"), "tool_use_results"))
    IN  /\ AList(history) /\ ResultsFit(Get(state, "next_message"))
        /\ \A i \in DOMAIN Listed(history) :
              /\ ResultsFit(Get(history[i], "user"))
              /\ AList(Get(Get(Get(history[i], "assistant"), "body"), "tool_uses"))
        /\ AList(wrote) /\ \A i, j \in DOMAIN Listed(wrote) : i # j => wrote[i] # wrote[j]

(* parse *)
Items(file) == InOrder(TablesOf(file), Mapped)

(* _range, clamped to the history; a message is outside of [start, end).   *)
Range0(range, length) ==
    IF Given(range) THEN [start |-> IF range.start < 0 THEN 0 ELSE range.start,
                          end |-> Lesser(length, range.end)]
    ELSE [start |-> 0, end |-> length]

Outside(range, i) == ~(range.start <= i /\ i < range.end)

(* _facets, from the name that the tool has before the agent renames it. *)
Facets(use) ==
    CASE use.name \in {"execute_bash", "execute_cmd"} /\ "command" \in use.args -> <<"command.exec">>
      [] use.name = "fs_write" /\ "path" \in use.args -> <<"file.write">>
      [] use.name = "fs_read" /\ "path" \in use.args -> <<"file.read">>
      [] use.name = "use_aws" /\ use.args \cap {"service_name", "operation_name"} # {} ->
            <<"network.request">>
      [] OTHER -> <<>>

(* _tool_use *)
ToolUse(at, n, use, stamp) ==
    LET says == Call(use.name, use.id)
        Facet(kind, j) == <<Ev(at, "facet", Append(n, j), kind, use, stamp, says)>>
    IN  <<Ev(at, "tool", n, "tool.call", use, stamp, says)>> \o Each(Facets(use), Facet)

(* The part that the results of such a message are in. *)
ResultsOf == [user |-> "user_result", next |-> "next_message_result"]

(* _user_message: a prompt, the results of the agent's calls, or both.  A  *)
(* content that is one variant more than those is neither.                 *)
UserMessage(at, part, n, message, stamp, sent, outside) ==
    LET content == Get(message, "content")
        tag == Get(content, "tag")
        prompted == tag = "Prompt" \/ (tag = "CancelledToolUses" /\ Said(Get(content, "prompt")))
        says == [sent |-> sent, outside |-> outside]
        Result(r, j) ==
            When(Given(r), <<Ev(at, ResultsOf[part], Append(n, j), "tool.result", r, stamp,
                           Call(Null, r.tool_use_id))>>)
    IN  When(prompted, <<Ev(at, part, n, "user.prompt", message, stamp, says)>>)
        \o Each(Listed(Get(content, "tool_use_results")), Result)
        \o When(content = Odd, <<Unparsed(at, part, n, message, stamp)>>)

(* _assistant_message: of a variant, the body alone is kept. *)
AssistantMessage(at, i, message, stamp, outside) ==
    LET body == Get(message, "body")
        Use(u, j) == When(Given(u), ToolUse(at, <<i, j>>, u, stamp))
    IN  IF body = Odd THEN <<Unparsed(at, "assistant", <<i>>, message, stamp)>>
        ELSE <<Ev(at, "assistant", <<i>>, "assistant.text", body, stamp,
                  [sent |-> TRUE, outside |-> outside])>>
             \o Each(Listed(Get(body, "tool_uses")), Use)

(* An entry of the history. *)
Entry(at, i, entry, stamp, range) ==
    LET user == Get(entry, "user")
        assistant == Get(entry, "assistant")
        outside == Outside(range, i)
    IN  When(Given(user), UserMessage(at, "user", <<i>>, user, stamp, TRUE, outside))
        \o When(Given(assistant), AssistantMessage(at, i, assistant, stamp, outside))
        \o When(~Given(user) /\ ~Given(assistant), <<Unparsed(at, "entry", <<i>>, entry, stamp)>>)

(* _conversation: the header is the document without its history; then the *)
(* summary, the message still queued, the history, the files the agent     *)
(* wrote and the conversation put aside.                                   *)
Conversation(at, state, cwd) ==
    LET stamp == [session |-> Or(Get(state, "conversation_id"), Null), cwd |-> cwd, branch |-> Null]
        history == Those(Listed(Get(state, "history")), Given)
        range == Range0(Get(state, "valid_history_range"), Len(history))
        header == [key \in DOMAIN state \ {"history"} |-> state[key]]
        queued == Get(state, "next_message")
        Show(entry, i) == Entry(at, i, entry, stamp, range)
        Wrote(path, i) == <<Ev(at, "tracker", path, "file.write", path, stamp, Null)>>
    IN  <<Ev(at, "self", 0, "session.start", header, stamp, range)>>
        \o When(Said(Get(state, "summary")), <<Ev(at, "summary", 0, "session.end", state.summary, stamp, Null)>>)
        \o When(Given(queued), UserMessage(at, "next", <<>>, queued, stamp, FALSE, FALSE))
        \o Each(history, Show)
        \o Each(Listed(Get(state, "file_line_tracker")), Wrote)
        \o When(Given(Get(state, "tangent")), <<Unparsed(at, "tangent", 0, state.tangent, stamp)>>)

(* _conversations: the key of a row is the directory. *)
ConversationRow(item) ==
    LET cwd == Or(Get(item.row, "key"), Null)
        state == Get(item.row, "value")
    IN  IF ~Given(state) THEN <<Unparsed(item.at, "self", 0, item.row, [NoStamp EXCEPT !.cwd = cwd])>>
        ELSE Conversation(item.at, state, cwd)

(* _shell_history *)
ShellCommand(item) ==
    LET stamp == [session |-> Or(Get(item.row, "session_id"), Null),
                  cwd |-> Or(Get(item.row, "cwd"), Null), branch |-> Null]
    IN  <<Ev(item.at, "self", 0, "command.exec", item.row, stamp, Null)>>

(* _settings: what is said of a credential is that it is one. *)
Setting(item) ==
    <<Ev(item.at, "self", 0, "config.snapshot", item.row, NoStamp, [credential |-> item.table = "auth_kv"])>>

Take(item, carried) ==
    [carried |-> carried,
     events |-> IF item.stopped THEN Stopped(item)
                ELSE CASE item.table = "conversations" -> ConversationRow(item)
                       [] item.table = "history" -> ShellCommand(item)
                       [] item.table \in {"state", "auth_kv"} -> Setting(item)
                       [] OTHER -> RowAsEvent(item)]
==================================================================================
