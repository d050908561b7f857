--------------------------------- MODULE Copilot ---------------------------------
(***************************************************************************)
(* parsers/copilot.py: the event log of a session of Copilot CLI.  The     *)
(* model, the directory and the session in force are those that the last   *)
(* record to name one named, whatever its type; the session is at first    *)
(* the directory that the log is in.                                       *)
(***************************************************************************)
EXTENDS Readers, TLC

(* _session_from_path *)
Start(directory) == [session |-> Or(directory, Null), cwd |-> Null, model |-> Null]

Stamp(s) == [session |-> s.session, cwd |-> s.cwd, branch |-> Null]

(* What a record changes, before it is read as an event. *)
Update(data, s) ==
    [session |-> Or(Get(data, "sessionId"), s.session),
     cwd |-> Or(Get(data, "cwd"), Or(Get(data, "workingDirectory"), s.cwd)),
     model |-> Or(Get(data, "newModel"), Or(Get(data, "model"), s.model))]

(* _tool_start: the call, and the command when there is one. *)
ToolStart(at, rec, data, s) ==
    LET says == Call(Get(data, "toolName"), Get(data, "toolCallId"))
        arguments == Get(data, "arguments")
        command == IF Given(arguments) THEN Get(arguments, "command") ELSE Get(data, "command")
    IN  <<Ev(at, "self", 0, IF Said(Get(data, "mcpServerName")) THEN "mcp.call" ELSE "tool.call",
             rec, Stamp(s), says)>>
        \o When(Said(command), <<Ev(at, "exec", 0, "command.exec", rec, Stamp(s), Call(says.tool, Null))>>)

(* Types that stand for all that begin with "subagent.": what happens to   *)
(* another agent that is run inside this one.                              *)
Subagent == {"subagent.started", "subagent.selected", "subagent.completed", "subagent.failed"}

(* Whatever happens to another agent but its start is the end of it. *)
KindOf ==
    ("session.start" :> "session.start") @@ ("session.end" :> "session.end")
    @@ ("session.task_complete" :> "session.end") @@ ("session.model_change" :> "config.snapshot")
    @@ ("user.message" :> "user.prompt") @@ ("assistant.message" :> "assistant.text")
    @@ ("reasoning" :> "assistant.thinking") @@ ("permission.request" :> "permission.decision")
    @@ ("permission.decision" :> "permission.decision") @@ ("tool.permission" :> "permission.decision")
    @@ [type \in Subagent |-> IF type = "subagent.started" THEN "session.start" ELSE "session.end"]

(* _map, and the record that it has nothing for. *)
Map(at, rec, data, s) ==
    LET type == Get(rec, "type")
        one(kind, says) == <<Ev(at, "self", 0, kind, rec, Stamp(s), says)>>
    IN  CASE type = "tool.execution_start" -> ToolStart(at, rec, data, s)
          [] type = "tool.execution_complete" ->
                one("tool.result", Call(Get(data, "toolName"), Get(data, "toolCallId")))
          [] type \in DOMAIN KindOf -> one(KindOf[type], s.model)
          [] OTHER -> <<Unparsed(at, "self", 0, rec, Stamp(s))>>

Record(at, rec, s) ==
    LET data == IF Given(Get(rec, "data")) THEN rec.data ELSE Null
        t == Update(data, s)
    IN  [carried |-> t, events |-> Map(at, rec, data, t)]

Take(at, line, s) == ReadLine(at, line, s, NoStamp, Record)
==================================================================================
