-------------------------------- MODULE Continue --------------------------------
(***************************************************************************)
(* parsers/continue_sessions.py: the index of the sessions of Continue and *)
(* a file for each of them.  An item of a history is a message and, beside *)
(* it, tool calls, what was put before the model and the rules that held.  *)
(***************************************************************************)
EXTENDS Readers

Roles ==
    [user |-> "user.prompt", assistant |-> "assistant.text", thinking |-> "assistant.thinking",
     system |-> "instruction.source", tool |-> "tool.result"]

(* _from_name: a session's file is named for it, the index is not. *)
FromName(file) == IF file.index THEN Null ELSE file.stem

(* The name of the file wins over what the document says. *)
Of(file) ==
    [session |-> Or(FromName(file), Or(Get(file.value, "sessionId"), Null)),
     cwd |-> Get(file.value, "workspaceDirectory"), branch |-> Null]

(* _entry: the new name of the key before the old one; an entry that has   *)
(* the old one alone is hidden from the product's own list.                *)
Entry(at, entry) ==
    LET new == Get(entry, "sessionId")
        old == Get(entry, "session_id")
    IN  IF ~Given(entry) THEN <<Unparsed(at, "self", 0, entry, NoStamp)>>
        ELSE <<Ev(at, "self", 0, "session.start", entry,
                  [session |-> Or(new, old), cwd |-> Get(entry, "workspaceDirectory"), branch |-> Null],
                  [hidden |-> Said(old) /\ ~Said(new)])>>

(* _tools: a state that is no mapping is left out. *)
Tools(at, item, stamp) ==
    LET Tool(state, i) ==
            When(Given(state), <<Ev(at, "toolCallStates", i, "tool.call", state, stamp, Call(state.name, state.id))>>)
    IN  Each(Listed(Get(item, "toolCallStates")), Tool)

(* _context_items: the files and the urls, each as one event that keeps    *)
(* the whole list.                                                         *)
ContextItems(at, item, stamp) ==
    LET entries == Listed(Get(item, "contextItems"))
        Some(type) == \E i \in DOMAIN entries : Get(entries[i], "type") = type
        one(kind) == <<Ev(at, "contextItems", 0, kind, entries, stamp, Null)>>
    IN  When(Some("file"), one("file.read")) \o When(Some("url"), one("network.request"))

(* _rules *)
Rules(at, item, stamp) ==
    LET Rule(rule, i) == When(Given(rule), <<Ev(at, "appliedRules", i, "instruction.source", rule, stamp, Null)>>)
    IN  Each(Listed(Get(item, "appliedRules")), Rule)

(* The message of an item, of which the item itself is not kept. *)
Message(at, item, stamp) ==
    LET message == Get(item, "message")
        role == Get(message, "role")
    IN  IF role \notin DOMAIN Roles THEN <<Unparsed(at, "self", 0, item, stamp)>>
        ELSE <<Ev(at, "message", 0, Roles[role], message, stamp, Call(Null, Get(message, "toolCallId")))>>

(* _item *)
Item(at, item, stamp) ==
    IF ~Given(item) THEN <<Unparsed(at, "self", 0, item, [stamp EXCEPT !.cwd = Null])>>
    ELSE Message(at, item, stamp) \o Tools(at, item, stamp)
         \o ContextItems(at, item, stamp) \o Rules(at, item, stamp)

(* parse, _index, _session: what is said of the file before its entries.   *)
Preface(file) ==
    CASE file.value = Torn -> <<Unparsed(0, "$", 0, Null, [NoStamp EXCEPT !.session = FromName(file)])>>
      [] file.value = Odd -> <<Unparsed(0, "$", 0, file.value, [NoStamp EXCEPT !.session = FromName(file)])>>
      [] file.index -> <<>>
      [] OTHER -> <<Ev(0, "$", 0, "config.snapshot",
                       [key \in DOMAIN file.value \ {"history"} |-> file.value[key]], Of(file), Null)>>

Entries(file) ==
    CASE file.value \in {Torn, Odd} -> <<>>
      [] file.index -> file.value
      [] OTHER -> Listed(Get(file.value, "history"))

Take(file, at, entry) == IF file.index THEN Entry(at, entry) ELSE Item(at, entry, Of(file))
=================================================================================
