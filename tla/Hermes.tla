---------------------------------- MODULE Hermes ----------------------------------
(***************************************************************************)
(* parsers/hermes.py: the store of Hermes.  The sessions are read first,   *)
(* and a message inherits directory and branch.  What is said of a message *)
(* is its generation: a compaction archives rows and does not delete them. *)
(***************************************************************************)
EXTENDS Stores

Mapped == <<"sessions", "messages">>

Items(file) == InOrder(TablesOf(file), Mapped)

Start == [id \in {} |-> NoStamp]

(* _header_of: nothing is inherited from a session that has no row. *)
Stamp(id, headers) ==
    [(IF id \in DOMAIN headers THEN headers[id] ELSE NoStamp) EXCEPT !.session = Or(id, Null)]

(* _system_prompt: what the product was told, at the session's place. *)
SystemPrompt(at, row, stamp) ==
    When(Said(Get(row, "system_prompt")),
         <<Ev(at, "system_prompt", 0, "instruction.source", row.system_prompt, stamp, Null)>>)

(* _sessions: the start, the prompt of the system without a time, the end. *)
Session(item, headers) ==
    LET row == item.row
        id == Get(row, "id")
        stamp == [session |-> Or(id, Null), cwd |-> Or(Get(row, "cwd"), Null),
                  branch |-> Or(Get(row, "git_branch"), Null)]
        one(part, kind, raw) == <<Ev(item.at, part, 0, kind, raw, stamp, Null)>>
    IN  [carried |-> IF Said(id) THEN With(headers, id, stamp) ELSE headers,
         events |-> one("self", "session.start", row)
                    \o SystemPrompt(item.at, row, stamp)
                    \o When(Said(Get(row, "ended_at")), one("end", "session.end", row))]

(* _generation *)
Generation(row) ==
    CASE Get(row, "active") = "0" -> "archived"
      [] Get(row, "active") = "1" -> "live"
      [] OTHER -> Null

(* _json_of, of the calls: torn, a list, or something that is no list and  *)
(* no problem either.                                                      *)
CallsOf(row) == IF Get(row, "tool_calls") = Torn THEN <<>> ELSE Listed(Get(row, "tool_calls"))

(* _assistant: the reply, or else the items, where a last reply can be;    *)
(* the reasoning; the calls, as they were written when they do not parse.  *)
Assistant(at, row, stamp) ==
    LET replied == Said(Get(row, "content"))
        one(part, n, kind) == <<Ev(at, part, n, kind, row, stamp, Generation(row))>>
        OneCall(call, i) == one("call", i, "tool.call")
    IN  When(replied, one("self", 0, "assistant.text"))
        \o When(~replied /\ Said(Get(row, "items")), one("items", 0, "assistant.text"))
        \o When(Said(Get(row, "reasoning")), one("reasoning", 0, "assistant.thinking"))
        \o When(Get(row, "tool_calls") = Torn, one("calls", 0, "tool.call"))
        \o Each(CallsOf(row), OneCall)

RoleKind == [user |-> "user.prompt", system |-> "instruction.source", tool |-> "tool.result"]

(* _messages; a role that is not known keeps the session and directory.    *)
Message(item, headers) ==
    LET row == item.row
        stamp == Stamp(Get(row, "session_id"), headers)
        role == Get(row, "role")
    IN  CASE role = "assistant" -> Assistant(item.at, row, stamp)
          [] role \in DOMAIN RoleKind -> <<Ev(item.at, "self", 0, RoleKind[role], row, stamp, Generation(row))>>
          [] OTHER -> <<Unparsed(item.at, "self", 0, row, [stamp EXCEPT !.branch = Null])>>

Take(item, headers) ==
    LET Answer(events) == [carried |-> headers, events |-> events]
    IN  IF item.stopped THEN Answer(Stopped(item))
        ELSE CASE item.table = "sessions" -> Session(item, headers)
               [] item.table = "messages" -> Answer(Message(item, headers))
               [] OTHER -> Answer(RowAsEvent(item))
===================================================================================
