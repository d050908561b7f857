-------------------------------- MODULE MCRules --------------------------------
(***************************************************************************)
(* A case of some of nine events of two sessions and three agents: calls  *)
(* with one command, with several and with lists in lists, undated and     *)
(* tied ones, records nobody has mapped; and packs with rules of every     *)
(* kind, one with a rule that does not compile.                            *)
(***************************************************************************)
EXTENDS Rules

Says(kind, agent, session) ==
    [kind |-> kind, agent |-> agent, session_id |-> session, parse_problem |-> None]

Txt(tokens) == [is |-> "text", of |-> tokens]
Num(token) == [is |-> "number", of |-> token]
Lst(values) == [is |-> "list", of |-> values]
Map1(key, value) == [is |-> "mapping", of |-> <<[key |-> key, value |-> value]>>]
Command(tokens) == Map1("command", Txt(tokens))
Run(values) == Map1("commands", Lst(values))

Event(id, ts, says, payload) ==
    [id |-> id, ts |-> ts, says |-> says, payload |-> payload, raw |-> Map1("role", Txt(<<"user">>)),
     provenance |-> Map1("original_path", Txt(<<"\\", "home", "\\", "a", "\\", "log">>))]

MCPool ==
    <<Event("e1", 0, Says("command.exec", "claude", "s1"), Run(<<Command(<<"ls">>), Command(<<"RM", "x">>)>>)),
      Event("e2", 2, Says("command.exec", "claude", "s1"), Run(<<Lst(<<Command(<<"rm">>)>>), Command(<<"ls">>)>>)),
      Event("e3", 2, Says("command.exec", "codex", "s1"), Map1("commands", Command(<<"rm", "q", "\"">>))),
      Event("e4", 3, Says("file.read", "claude", None), Map1("text", Lst(<<Txt(<<"key", "k1">>), Num("7")>>))),
      Event("e5", 4, Says("command.exec", None, "s1"), Run(<<Command(<<"rm">>)>>)),
      Event("e6", None, Says("command.exec", "claude", "s1"), Run(<<Command(<<"rm">>), None>>)),
      Event("e7", None, Says("command.exec", "codex", "s1"), Run(<<Command(<<"rm">>), Command(<<"ls">>), Command(<<"ls">>)>>)),
      Event("e8", 5, [Says("unparsed.record", "codex", None) EXCEPT !.parse_problem = "uninterpreted"],
            Run(<<Command(<<"rm">>), Txt(<<"7">>)>>)),
      Event("e9", 1, Says("unparsed.record", "codex", "s2"), Map1("text", Txt(<<"key">>)))>>

At(root, steps) == [root |-> root, steps |-> steps]
Go(name) == [name |-> name, fan |-> FALSE]
Fan(name) == [name |-> name, fan |-> TRUE]
Commands == At("payload", <<Fan("commands"), Go("command")>>)

Leaf(field, op, of) == [is |-> "leaf", field |-> field, op |-> op, of |-> of, ignoreCase |-> None]
AllOf(parts) == [is |-> "all", parts |-> parts]
AnyOf(parts) == [is |-> "any", parts |-> parts]
NoneOf(parts) == [is |-> "none", parts |-> parts]

Tests == {[match |-> TRUE, outOfScope |-> FALSE], [match |-> FALSE, outOfScope |-> FALSE]}

Simple(id, kinds, match) ==
    [id |-> id, directory |-> "p", pack |-> "p", named |-> "p", tests |-> Tests, kinds |-> kinds, agents |-> {},
     match |-> match, aggregate |-> None, redact |-> FALSE]

Grouping(groupBy, windowed, distinct, n) ==
    [groupBy |-> groupBy, windowed |-> windowed, distinct |-> distinct, distinctGte |-> n]

Removes == Leaf(Commands, "contains", <<<<"rm">>>>)

MCRuleFiles ==
    <<Simple("removes", {"command.exec"}, AllOf(<<Removes, NoneOf(<<Leaf(Commands, "equals", <<<<"ls">>, <<"Rm", "x">>>>)>>)>>)),
      [Simple("secret", {}, Leaf(At("event_text", <<>>), "regex", <<<<"^", "text", ".*", "k1", ".*", "user", "$">>, <<"^", "key">>, <<"q", "\"">>>>)) EXCEPT !.redact = TRUE],
      Simple("burst", {"command.exec"}, Removes),
      Simple("many", {}, Leaf(At("payload", <<Fan("commands")>>), "count_gte", 2)),
      Simple("agents", {}, AnyOf(<<Leaf(At("text", <<>>), "exists", FALSE), Leaf(At("payload", <<Fan("text")>>), "gte", 7)>>)),
      [Simple("paths", {"file.read"}, Leaf(At("provenance", <<Go("original_path")>>), "glob", <<<<"?", "home", "**", "log">>, <<"/", "*", "/", "?", "/", "log">>>>))
         EXCEPT !.agents = {"claude"}]>>

Burst == [MCRuleFiles[3] EXCEPT !.aggregate = Grouping(<<"session_id">>, TRUE, None, 2)]
Diverse == [MCRuleFiles[5] EXCEPT !.aggregate = Grouping(<<"session_id", "kind">>, FALSE, "agent", 2)]
Rapid == [MCRuleFiles[4] EXCEPT !.id = "rapid", !.aggregate = Grouping(<<"sesion">>, TRUE, "agent", 2)]
Misspelled == Simple("misspelled", {}, NoneOf(<<Leaf(At("payloadd", <<Go("text")>>), "exists", TRUE)>>))

MCPacks ==
    {<<>>, <<MCRuleFiles[1], Misspelled>>, <<MCRuleFiles[1], MCRuleFiles[1]>>,
     <<MCRuleFiles[1], MCRuleFiles[2], Burst>>, <<MCRuleFiles[4], Diverse, Rapid>>, <<MCRuleFiles[6], Rapid>>}

MCTopLevel == {"kind", "agent", "session_id", "parse_problem"}
MCFolded == [t \in {"RM", "Rm"} |-> "rm"]
MCNumerals == [t \in {"7"} |-> 7]
MCEscaped == {"\""}
================================================================================
