------------------------------ MODULE MCDatabases ------------------------------
(***************************************************************************)
(* Small stores of every agent: sessions before and after what belongs to  *)
(* them, rows that nobody maps, documents that are torn or of an odd type. *)
(***************************************************************************)
EXTENDS Databases

Cell(table, row) == [table |-> table, row |-> row]
Text(text) == [type |-> "text", text |-> text]

Request == [type |-> "toolRequest", tool |-> "shell", id |-> "c1", extension |-> "x", args |-> {"command"}]

MCGoose ==
    <<Cell("sessions", [id |-> "s1", working_dir |-> "/a", servers |-> {"x"}, archived |-> "yes"]),
      Cell("sessions", [id |-> "s2", recipe |-> "yes"]),
      Cell("threads", [id |-> "t1", working_dir |-> "/b"]), Cell("threads", [id |-> "s1", working_dir |-> "/b"]),
      Cell("messages", [session_id |-> "s1", role |-> "assistant", content |-> <<Request, Request, Text("a")>>]),
      Cell("messages", [session_id |-> "s2", role |-> "user", content |-> <<Text("a")>>]),
      Cell("messages", [session_id |-> "t1", role |-> "user", content |-> Odd]),
      Cell("thread_messages", [thread_id |-> "s1", role |-> "user", content |-> <<Text("a")>>]),
      Cell("thread_messages", [thread_id |-> "t1", role |-> "user", content |-> <<Text("a")>>]),
      Cell("novelty", [cwd |-> "/c"])>>

Tool(name, state) == [type |-> "tool", name |-> name, id |-> "c1", state |-> state, args |-> {"command", "path"}]

MCOpencode ==
    <<Cell("session", [id |-> "s1", directory |-> "/a", archived |-> "yes"]),
      Cell("session", [id |-> "s2"]),
      Cell("session_input", [session_id |-> "s1", text |-> "a"]),
      Cell("session_message", [session_id |-> "s1", type |-> "assistant",
            data |-> [content |-> <<Text("a"), Odd, Tool("bash", "completed"), Tool("read", "running"), Text("")>>]]),
      Cell("session_message", [session_id |-> "s2", data |-> [type |-> "shell"]]),
      Cell("session_message", [session_id |-> "s3", data |-> Odd]),
      Cell("project", [cwd |-> "/c"])>>

Use(name) == [name |-> name, id |-> "c1", args |-> {"command", "path"}]
Prompted == [content |-> [tag |-> "Prompt"]]
Results == [content |-> [tag |-> "CancelledToolUses", prompt |-> "a",
                         tool_use_results |-> <<[tool_use_id |-> "c1"], Odd, [tool_use_id |-> "c2"]>>]]

MCAmazonQ ==
    <<Cell("conversations", [key |-> "/a", value |->
            [conversation_id |-> "s1", summary |-> "a", next_message |-> Prompted, tangent |-> [of |-> "a"],
             valid_history_range |-> [start |-> 1, end |-> 2], file_line_tracker |-> <<"f", "g">>,
             history |-> <<[user |-> Prompted, assistant |-> [body |-> [tool_uses |-> <<Use("execute_bash"), Use("fs_write")>>]]],
                           [user |-> Results, assistant |-> [body |-> Odd]], [novelty |-> "a"]>>]]),
      Cell("conversations", [key |-> "/b", value |-> Odd]),
      Cell("history", [cwd |-> "/a", session_id |-> "s2", command |-> "ls"]),
      Cell("state", [key |-> "k"]), Cell("auth_kv", [key |-> "k"]), Cell("novelty", [cwd |-> "/c"])>>

MCHermes ==
    <<Cell("sessions", [id |-> "s1", cwd |-> "/a", git_branch |-> "b", system_prompt |-> "a", ended_at |-> "t1"]),
      Cell("sessions", [id |-> "s2"]),
      Cell("messages", [session_id |-> "s1", role |-> "assistant", content |-> "a", reasoning |-> "a",
                        tool_calls |-> <<[name |-> "run"], [name |-> "run"]>>, active |-> "0"]),
      Cell("messages", [session_id |-> "s2", role |-> "assistant", items |-> "a", tool_calls |-> Torn]),
      Cell("messages", [session_id |-> "s1", role |-> "assistant"]),
      Cell("messages", [session_id |-> "s3", role |-> "tool", active |-> "1"]),
      Cell("messages", [session_id |-> "s1", role |-> "novelty"]),
      Cell("novelty", [session_id |-> "s1"])>>

Agent == [tag |-> "Agent", body |-> [content |-> <<[tag |-> "Text"], [tag |-> "ToolUse", id |-> "c1"], Odd>>,
                                     tool_results |-> <<[of |-> "c1"], [of |-> "c2"]>>]]

MCZed ==
    <<Cell("threads", [id |-> "s1", paths |-> <<"/a", "/b">>, order |-> <<1, 0>>,
            data |-> [messages |-> <<[tag |-> "User", body |-> <<"a">>], Agent, [tag |-> "Compaction", body |-> "a"],
                                     [tag |-> "Resume"], Odd>>]]),
      Cell("threads", [id |-> "s2", paths |-> <<"/a">>, order |-> <<7>>, data |-> Odd]),
      Cell("threads", [id |-> "s3", data |-> Torn]), Cell("novelty", [cwd |-> "/c"])>>

MCSidebar ==
    <<Cell("sidebar_threads", [session_id |-> "s1", paths |-> <<"/a">>, order |-> <<0>>, updated_at |-> "t1"]),
      Cell("sidebar_threads", [session_id |-> "s2"]), Cell("novelty", [cwd |-> "/c"])>>

MCThreads ==
    <<Cell("thread_items", [thread_id |-> "s1", turn_id |-> "u1", item_type |-> "userMessage",
                            item_json |-> [type |-> "agentMessage"]]),
      Cell("thread_items", [thread_id |-> "s1", item_type |-> "reasoning", item_json |-> Odd]),
      Cell("thread_realtime_items", [thread_id |-> "s2", item_json |-> [type |-> "subAgentActivity", kind |-> "started"]]),
      Cell("thread_turns", [thread_id |-> "s1", status |-> "done"]), Cell("novelty", [thread_id |-> "s3"])>>

MCEditor ==
    <<Cell("ItemTable", [key |-> "a"]), Cell("ItemTable", [key |-> "b"]),
      Cell("novelty", [cwd |-> "/c"]), Cell("novelty", [cwd |-> ""])>>

MCGeneric == <<Cell("a", [cwd |-> "/c"]), Cell("a", [session_id |-> "s1"]), Cell("b", [novelty |-> "x"])>>

Change(of, key, value, ends) == [of |-> of, key |-> key, value |-> value, ends |-> ends]
KeyA == <<"a">>
KeyB == <<"a", "b">>

MCLmdb ==
    LET Main(key, value, ends) == Change(Lmd!Unnamed, key, value, ends)
    IN  <<Main(KeyA, "1", "commit"), Main(KeyA, "2", "commit"), Main(KeyB, "3", "commit"),
          Main(KeyA, Null, "commit"), Main(KeyA, "4", "before"), Main(KeyB, "5", "within")>>

KeyC == <<"a", "b", "c">>

MCPrompts ==
    <<Change("metadata.v2", KeyA, "1", "commit"), Change("bodies.v2", KeyA, "2", "commit"),
      Change("metadata.v2", KeyB, "3", "commit"), Change("metadata.v2", KeyA, Null, "commit"),
      Change("bodies.v2", KeyB, "4", "before"), Change("bodies.v2", KeyA, "5", "within"),
      Change("metadata.v1", KeyA, "6", "commit"), Change(Lmd!Unnamed, KeyC, "7", "commit")>>

MCPages == 2..13
MCOrder(key) == Len(key)

MCCells ==
    ("goose" :> MCGoose) @@ ("opencode" :> MCOpencode) @@ ("amazonq" :> MCAmazonQ) @@ ("hermes" :> MCHermes)
    @@ ("zed" :> MCZed) @@ ("sidebar" :> MCSidebar) @@ ("threads" :> MCThreads) @@ ("editor" :> MCEditor)
    @@ ("generic" :> MCGeneric) @@ ("lmdb" :> MCLmdb) @@ ("prompts" :> MCPrompts)

MCNames ==
    ("goose" :> <<"messages", "novelty", "sessions", "thread_messages", "threads">>)
    @@ ("opencode" :> <<"project", "session", "session_input", "session_message">>)
    @@ ("amazonq" :> <<"auth_kv", "conversations", "history", "novelty", "state">>)
    @@ ("hermes" :> <<"messages", "novelty", "sessions">>)
    @@ ("zed" :> <<"novelty", "threads">>) @@ ("sidebar" :> <<"novelty", "sidebar_threads">>)
    @@ ("threads" :> <<"novelty", "thread_items", "thread_realtime_items", "thread_turns">>)
    @@ ("editor" :> <<"ItemTable", "novelty">>) @@ ("generic" :> <<"a", "b">>)
    @@ ("lmdb" :> <<>>) @@ ("prompts" :> <<>>)

MCLengths == [f \in DOMAIN MCCells |-> IF f \in {"lmdb", "prompts"} THEN 4 ELSE 3]

Plain ==
    [suffix |-> "", opens |-> TRUE, index |-> FALSE, rowids |-> TRUE, fails |-> 9,
     columns |-> {"session_id", "title", "updated_at", "item_json", "thread_id", "turn_id", "status", "key", "value"},
     perWorkspace |-> FALSE, beside |-> Null]

Anywhere ==
    <<Plain, [Plain EXCEPT !.rowids = FALSE], [Plain EXCEPT !.fails = 1], [Plain EXCEPT !.fails = 0],
      [Plain EXCEPT !.suffix = "-wal"], [Plain EXCEPT !.opens = FALSE]>>

Declared == <<[Plain EXCEPT !.columns = {"rowid"}]>>

InAWorkspace(beside) == [Plain EXCEPT !.perWorkspace = TRUE, !.beside = beside]

MCShapes ==
    [f \in DOMAIN MCCells |->
        CASE f \in {"sidebar", "threads"} -> Anywhere \o Declared
          [] f = "editor" -> Anywhere \o Declared
                \o <<InAWorkspace([folder |-> "/w"]), InAWorkspace(Null), InAWorkspace(Torn), InAWorkspace([workspace |-> "/v"])>>
          [] f = "generic" -> Append(Anywhere, [Plain EXCEPT !.index = TRUE])
          [] f \in {"lmdb", "prompts"} -> <<Plain>>
          [] OTHER -> Anywhere]
================================================================================
