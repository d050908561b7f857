--------------------------------- MODULE Codex ---------------------------------
(***************************************************************************)
(* parsers/codex.py: rollouts of Codex CLI, plain or compressed.  The      *)
(* session, directory, branch and model of a record are those that the     *)
(* records before it announced.  parsers/codex_state.py: its stores.       *)
(***************************************************************************)
EXTENDS Stores

CONSTANT MaxExpanded   \* bound on what a compressed rollout may grow to

Start == [session |-> Null, cwd |-> Null, branch |-> Null, model |-> Null]

Stamp(s) == [session |-> s.session, cwd |-> s.cwd, branch |-> s.branch]

(* _session_meta: what it does not name stays as it was. *)
SessionMeta(at, rec, payload, s) ==
    LET t == [session |-> Or(Get(payload, "id"), Or(Get(payload, "session_id"), s.session)),
              cwd |-> Or(Get(payload, "cwd"), s.cwd),
              branch |-> Or(Get(Get(payload, "git"), "branch"), s.branch),
              model |-> Or(Get(payload, "model"), Or(Get(payload, "model_provider"), s.model))]
    IN  [carried |-> t, events |-> <<Ev(at, "self", 0, "session.start", rec, Stamp(t), t.model)>>]

(* Slip: the directory of the first turn is kept. *)
TurnContextOnce(payload, s) ==
    [s EXCEPT !.cwd = Or(@, Get(payload, "cwd")), !.model = Or(Get(payload, "model"), @)]

(* A turn_context sets what the turn runs with, and is no event. *)
TurnContext(payload, s) ==
    [s EXCEPT !.cwd = Or(Get(payload, "cwd"), @), !.model = Or(Get(payload, "model"), @)]

CallTypes == {"function_call", "custom_tool_call", "local_shell_call"}
OutputTypes == {"function_call_output", "custom_tool_call_output"}

(* _call_arguments: whether they hold a command.  Arguments that did not   *)
(* parse hold none, and a shell call that has no action has one itself.    *)
HasCommand(item) ==
    CASE item.type = "local_shell_call" ->
            Said(IF Given(Get(item, "action")) THEN Get(item.action, "command") ELSE Get(item, "command"))
      [] item.type = "function_call" -> Said(Get(Get(item, "arguments"), "command"))
      [] item.type = "custom_tool_call" -> Said(Get(Get(item, "input"), "command"))

(* _response_item *)
ResponseItem(at, rec, item, s) ==
    LET type == Get(item, "type")
        id == Or(Get(item, "call_id"), Get(item, "id"))
        name == Or(Get(item, "name"), type)
        one(kind, says) == <<Ev(at, "self", 0, kind, rec, Stamp(s), says)>>
    IN  CASE type = "message" ->
                one(IF Get(item, "role") = "user" THEN "user.prompt" ELSE "assistant.text", s.model)
          [] type = "reasoning" -> one("assistant.thinking", s.model)
          [] type \in CallTypes ->
                one("tool.call", Call(name, id))
                \o When(HasCommand(item),
                        <<Ev(at, "exec", 0, "command.exec", rec, Stamp(s), Call(name, Null))>>)
          [] type \in OutputTypes -> one("tool.result", Call(Null, Get(item, "call_id")))
          [] OTHER -> <<Unparsed(at, "self", 0, rec, [Stamp(s) EXCEPT !.branch = Null])>>

(* _rollout *)
Record(at, rec, s) ==
    LET type == Get(rec, "type")
        payload == Get(rec, "payload")
        Answer(events) == [carried |-> s, events |-> events]
        one(kind) == <<Ev(at, "self", 0, kind, rec, Stamp(s), Null)>>
    IN  CASE type = "session_meta" -> SessionMeta(at, rec, payload, s)
          [] type = "turn_context" -> [carried |-> TurnContext(payload, s), events |-> <<>>]
          [] type = "compacted" -> Answer(one("session.end"))
          [] type = "event_msg" -> Answer(one("config.snapshot"))
          [] type = "response_item" -> Answer(ResponseItem(at, rec, payload, s))
          [] OTHER -> Answer(<<Unparsed(at, "self", 0, rec, [Stamp(s) EXCEPT !.branch = Null])>>)

Take(at, line, s) == ReadLine(at, line, s, NoStamp, Record)

(* _history: a prompt that was typed, of the session that its line names.   *)
History(at, rec, carried) ==
    [carried |-> carried,
     events |-> <<Ev(at, "self", 0, "prompt.history", rec, [NoStamp EXCEPT !.session = Get(rec, "session_id")], Null)>>]

TakeHistory(at, line, carried) == ReadLine(at, line, carried, NoStamp, History)

(* _expand: the lines before the frame breaks, ends early or grows past    *)
(* the limit, the last of them cut; "broken" says that one of these        *)
(* happened.  A rollout that is not compressed is read as it stands.       *)
Expand(file) ==
    LET over == Len(file.lines) > MaxExpanded
        kept == SubSeq(file.lines, 1, MaxExpanded)
    IN  IF ~file.compressed THEN [lines |-> file.lines, broken |-> FALSE]
        ELSE [lines |-> IF over THEN Append(kept, Torn) ELSE file.lines,
              broken |-> over \/ file.cut]

(* _compressed: the break is told after the lines before it, and alone     *)
(* when there are none.                                                    *)
Finish(file) ==
    IF file.compressed /\ (Expand(file).broken \/ Expand(file).lines = <<>>)
    THEN <<Unparsed(0, "file", 0, Null, NoStamp)>> ELSE <<>>

-------------------------------------------------------------------------------
(* The thread history and the other databases.  A table is told by its     *)
(* name and by columns that it must declare ("columns"); every row is one  *)
(* event.                                                                  *)

(* _map: the kind of an item by its type; a subagent's three say where it  *)
(* starts and ends, and the rest is a call into it.                        *)
KindOf ==
    [userMessage |-> "user.prompt", hookPrompt |-> "instruction.source",
     agentMessage |-> "assistant.text", reasoning |-> "assistant.thinking", plan |-> "plan.write",
     commandExecution |-> "command.exec", fileChange |-> "file.write", mcpToolCall |-> "mcp.call",
     webSearch |-> "network.request", imageView |-> "file.read", functionCallOutput |-> "tool.result",
     dynamicToolCall |-> "tool.call", collabAgentToolCall |-> "tool.call",
     contextCompaction |-> "session.end", sleep |-> "tool.call", imageGeneration |-> "tool.call",
     enteredReviewMode |-> "config.snapshot", exitedReviewMode |-> "config.snapshot"]

Map(type, document) ==
    CASE type = "subAgentActivity" ->
            (CASE Get(document, "kind") = "started" -> "session.start"
               [] Get(document, "kind") \in {"completed", "interrupted"} -> "session.end"
               [] OTHER -> "tool.call")
      [] type \in DOMAIN KindOf -> KindOf[type]
      [] OTHER -> "unparsed.record"

Thread(row) == [NoStamp EXCEPT !.session = Or(Get(row, "thread_id"), Null)]

(* _item: the document's own type before the column's; what is said is the *)
(* turn, and whether the two disagree.                                     *)
Item(item, turns) ==
    LET document == Get(item.row, "item_json")
        inner == Get(document, "type")
        declared == Get(item.row, "item_type")
    IN  <<Ev(item.at, "self", 0, Map(Or(inner, declared), document), item.row, Thread(item.row),
             [turn |-> IF turns THEN Get(item.row, "turn_id") ELSE Null,
              disagrees |-> Said(declared) /\ Said(inner) /\ declared # inner])>>

(* _turns: a turn is carried whole, and so is the record that says that    *)
(* the table was not read to its end.                                      *)
TurnRow(item) == <<Unparsed(item.at, "self", 0, item.row, Thread(item.row))>>

(* _has *)
Has(table, columns) == columns \subseteq table.columns

(* CodexStateParser.parse: which of the readings a table gets. *)
Reading(table) ==
    CASE table.name \in {"thread_items", "thread_realtime_items"} /\ Has(table, {"item_json", "thread_id"}) ->
            "items"
      [] table.name = "thread_turns" /\ Has(table, {"turn_id", "status"}) -> "turns"
      [] OTHER -> "rows"

StateItems(file) == RowsOfAll(TablesOf(file))

TableOf(file, name) ==
    LET tables == TablesOf(file) IN tables[CHOOSE i \in DOMAIN tables : tables[i].name = name]

TakeState(file, item, carried) ==
    LET reading == Reading(TableOf(file, item.table))
    IN  [carried |-> carried,
         events |-> CASE reading = "turns" -> TurnRow(item)
                      [] item.stopped -> Stopped(item)
                      [] reading = "items" -> Item(item, item.table = "thread_items")
                      [] OTHER -> RowAsEvent(item)]
===============================================================================
