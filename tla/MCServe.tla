------------------------------ MODULE MCServe ------------------------------
(* Two sessions of one agent in two stores, whose events land in three     *)
(* parts: a call whose result says it failed, a call of another tool, and  *)
(* records around them that move the pages.                                *)
EXTENDS Serve

Event(name, group, kind, tool, use, failed, unread, store) ==
    [name |-> name, group |-> group, kind |-> kind, tool |-> tool, use |-> use,
     failed |-> failed, unread |-> unread, store |-> store]

Note == Event("note", "s1", "other", None, None, FALSE, FALSE, "transcript")
Ran == Event("ran", "s1", "tool.call", "bash", "u1", FALSE, FALSE, "transcript")
RanBadly == Event("ran badly", "s1", "tool.result", None, "u1", TRUE, FALSE, "transcript")
Asked2 == Event("asked", "s1", "mcp.call", "ask", "u2", FALSE, FALSE, "transcript")
Torn == Event("torn", "s1", "unparsed.record", None, None, FALSE, TRUE, "transcript")
Early == Event("early", "s1", "other", None, None, FALSE, FALSE, "index")
Other == Event("other", "s2", "tool.call", "bash", "u1", FALSE, FALSE, "index")

MCEvents == {Note, Ran, RanBadly, Asked2, Torn, Early, Other}

MCIngests == {{Note, Ran, Asked2}, {RanBadly, Torn, Early}, {Other, Torn}}

(* Torn and Early are tied. *)
MCOrders == {<<Early, Torn, Note, Ran, RanBadly, Other, Asked2>>,
             <<Torn, Early, Note, Ran, RanBadly, Other, Asked2>>}

MCScans ==
    {[run |-> "first", found |-> {[rule |-> "r1", events |-> {Ran, Note}]}],
     [run |-> "again", found |-> {[rule |-> "r1", events |-> {Ran, Note}],
                                  [rule |-> "r2", events |-> {Torn}]}]}

Ask1(op, tool, failedOnly) ==
    [op |-> op, key |-> None, tool |-> tool, failedOnly |-> failedOnly,
     body |-> FALSE, host |-> TRUE, query |-> FALSE]

MCRequests ==
    {Ask1(op, None, FALSE) : op \in {"case", "findings", "timeline", "corroboration",
                                      "log", "pages", "tools"}}
    \cup {Ask1("tools", "ask", FALSE), Ask1("tools", None, TRUE)}
    \cup {[Ask1("session", None, FALSE) EXCEPT !.key = <<"s1">>]}
    \cup {[op |-> "case", key |-> None, tool |-> None, failedOnly |-> FALSE, body |-> b,
            host |-> h, query |-> q] : b, h, q \in BOOLEAN}
=============================================================================
