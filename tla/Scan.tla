---------------------------------- MODULE Scan ----------------------------------
(***************************************************************************)
(* One scan of a case (scan and _windows of rules/engine.py): a pack is    *)
(* loaded, every event is offered to every rule, and what an aggregate     *)
(* rule matched goes by groups, and each group through a pass with two     *)
(* positions when the rule has a window.                                   *)
(*                                                                         *)
(* An event in a list is its position among the rows of the query.  What a *)
(* condition is, and which events meet it, are parameters: Rules has them. *)
(* One window and one least count are those of every aggregate rule here.  *)
(***************************************************************************)
EXTENDS Integers, FiniteSets, SequencesExt

CONSTANTS
    None,
    Pool,           \* events a case may have: [id, ts, says, ...]
    Packs,          \* sequences of rule files, in the order of their ids
    Uninterpreted,  \* the token of parse_problem that says a format has no mapping
    Span,           \* the window in seconds
    MinCount,       \* how many events make a finding
    MaxMembers,     \* bound on the events of a case
    Parses(_),      \* parse, check: whether a rule file's condition is one
    Meets(_, _),    \* Condition.matches: whether an event meets it
    Quotes(_, _)    \* _matched: what a finding of a rule on these events quotes

Fields == UNION {DOMAIN Pool[n].says : n \in DOMAIN Pool}

(* Every event has the fields of one class; the times are in seconds.      *)
ASSUME PoolAssumption ==
    /\ None \notin Int
    /\ \A n \in DOMAIN Pool : Pool[n].ts \in Nat \cup {None} /\ DOMAIN Pool[n].says = Fields

ASSUME PacksAssumption ==
    \A p \in Packs : p \in Seq(Range(p)) /\ \A i \in DOMAIN p :
        p[i].aggregate # None =>
            p[i].aggregate.windowed \in BOOLEAN /\ p[i].aggregate.distinctGte \in Nat

ASSUME WindowsAssumption ==
    Span \in Nat /\ MaxMembers \in Nat /\ MinCount \in Nat \ {0}

VARIABLES
    stage,      \* "load", "read", "group", "divide", "window", "done", "refused"
    pack,       \* the rule files
    rules,      \* the compiled rules
    events,     \* the rows of the case, as the query orders them
    at,         \* the next one
    buckets,    \* of each rule a sequence of [key, members]
    turn, nth,  \* the rule and the group that are next
    dated, undated,     \* the events of the group, apart
    start, end, \* the two positions among the dated ones
    longest,    \* the longest run so far, [first, last]; empty when last < first
    findings, unseen

caseVars == <<pack, events>>
groupVars == <<dated, undated, start, end, longest>>
vars == <<stage, pack, rules, events, at, buckets, turn, nth, groupVars, findings, unseen>>

(* ------------------------------------------------------------ the rules *)

(* load_file: the directory is the pack's, which the file and its name say *)
(* too; a rule has tests of both kinds, none that expects what the rule    *)
(* does not look at.                                                       *)
LoadsAs(file) ==
    /\ file.pack = file.directory /\ file.named = file.pack
    /\ Parses(file.match)
    /\ \E t \in file.tests : t.match
    /\ \E t \in file.tests : ~t.match
    /\ \A t \in file.tests : ~(t.match /\ t.outOfScope)

(* load: every file, or none. *)
Load ==
    /\ stage = "load"
    /\ IF /\ pack # <<>> /\ \A i \in DOMAIN pack : LoadsAs(pack[i])
          /\ \A i, j \in DOMAIN pack : pack[i].id = pack[j].id => i = j
       THEN stage' = "read" /\ rules' = pack /\ buckets' = [i \in DOMAIN pack |-> <<>>]
       ELSE stage' = "refused" /\ UNCHANGED <<rules, buckets>>
    /\ UNCHANGED <<caseVars, at, turn, nth, groupVars, findings, unseen>>

(* unmapped *)
Unmapped(e) == e.says["kind"] = "unparsed.record" /\ e.says["parse_problem"] = Uninterpreted

(* Rule.applies_to; no kinds and no agents are "any". *)
AppliesTo(rule, e) ==
    /\ rule.kinds = {} \/ e.says["kind"] \in rule.kinds \/ Unmapped(e)
    /\ rule.agents = {} \/ e.says["agent"] \in rule.agents

Asks(rule, e) == AppliesTo(rule, e) /\ Meets(rule.match, e)

(* _group_value: an event may have no such field. *)
GroupValue(e, name) == IF name \in DOMAIN e.says THEN e.says[name] ELSE None

GroupKey(rule, e) == [i \in DOMAIN rule.aggregate.groupBy |-> GroupValue(e, rule.aggregate.groupBy[i])]

(* buckets[rule.id].setdefault(key, []).append(event) *)
Gathered(bucket, key, n) ==
    IF \E i \in DOMAIN bucket : bucket[i].key = key
    THEN [i \in DOMAIN bucket |->
             IF bucket[i].key = key
             THEN [key |-> key, members |-> Append(bucket[i].members, n)] ELSE bucket[i]]
    ELSE Append(bucket, [key |-> key, members |-> <<n>>])

(* _finding: its summary is left out. *)
Found(rule, members) ==
    [rule |-> rule.id, events |-> {events[n].id : n \in Range(members)},
     matched |-> Quotes(rule, [i \in DOMAIN members |-> events[members[i]]])]

(* Slip: an event that does not say is not counted. *)
DistinctSaid(rule, members) ==
    rule.aggregate.distinct = None
    \/ Cardinality({GroupValue(events[n], rule.aggregate.distinct) : n \in Range(members)} \ {None})
       >= rule.aggregate.distinctGte

(* _distinct_enough: not to say is a value of its own. *)
DistinctEnough(rule, members) ==
    rule.aggregate.distinct = None
    \/ Cardinality({GroupValue(events[n], rule.aggregate.distinct) : n \in Range(members)})
       >= rule.aggregate.distinctGte

Fires(rule, members) == Len(members) >= MinCount /\ DistinctEnough(rule, members)

(* One event is offered to the simple rules and then to the grouped ones.  *)
ReadEvent ==
    /\ stage = "read" /\ at <= Len(events)
    /\ LET e == events[at]
       IN  /\ findings' = findings \cup
                  {Found(rules[i], <<at>>) :
                      i \in {j \in DOMAIN rules : rules[j].aggregate = None /\ Asks(rules[j], e)}}
           /\ buckets' = [i \in DOMAIN rules |->
                             IF rules[i].aggregate # None /\ Asks(rules[i], e)
                             THEN Gathered(buckets[i], GroupKey(rules[i], e), at) ELSE buckets[i]]
           /\ unseen' = unseen + IF \E i \in DOMAIN rules : AppliesTo(rules[i], e) THEN 0 ELSE 1
    /\ at' = at + 1
    /\ UNCHANGED <<stage, caseVars, rules, turn, nth, groupVars>>

EndOfEvents ==
    /\ stage = "read" /\ at > Len(events)
    /\ stage' = "group"
    /\ UNCHANGED <<caseVars, rules, at, buckets, turn, nth, groupVars, findings, unseen>>

(* ----------------------------------------------------------- the groups *)

Rule == rules[turn]
Members == buckets[turn][nth].members

NextRule ==
    /\ stage = "group" /\ turn <= Len(rules) /\ nth > Len(buckets[turn])
    /\ turn' = turn + 1 /\ nth' = 1
    /\ UNCHANGED <<stage, caseVars, rules, at, buckets, groupVars, findings, unseen>>

(* _windows, without a window: the group as it is. *)
WholeGroup ==
    /\ stage = "group" /\ turn <= Len(rules) /\ nth <= Len(buckets[turn])
    /\ ~Rule.aggregate.windowed
    /\ findings' = IF Fires(Rule, Members) THEN findings \cup {Found(Rule, Members)} ELSE findings
    /\ nth' = nth + 1
    /\ UNCHANGED <<stage, caseVars, rules, at, buckets, turn, groupVars, unseen>>

NoRun == [first |-> 1, last |-> 0]
Length(run) == run.last - run.first + 1

(* With a window: the dated events go through a pass of two positions.     *)
StartWindows ==
    /\ stage = "group" /\ turn <= Len(rules) /\ nth <= Len(buckets[turn])
    /\ Rule.aggregate.windowed
    /\ stage' = "divide"
    /\ dated' = <<>> /\ undated' = <<>> /\ start' = 1 /\ end' = 1 /\ longest' = NoRun
    /\ UNCHANGED <<caseVars, rules, at, buckets, turn, nth, findings, unseen>>

Divided == Len(dated) + Len(undated)

(* One member is put with the dated ones or with the undated ones.  They   *)
(* come in the order of the query, and sorting leaves them in it.          *)
Divide ==
    /\ stage = "divide" /\ Divided < Len(Members)
    /\ LET n == Members[Divided + 1]
       IN  IF events[n].ts # None THEN dated' = Append(dated, n) /\ UNCHANGED undated
                                  ELSE undated' = Append(undated, n) /\ UNCHANGED dated
    /\ UNCHANGED <<stage, caseVars, rules, at, buckets, turn, nth, start, end, longest, findings, unseen>>

EndDivide ==
    /\ stage = "divide" /\ Divided >= Len(Members)
    /\ stage' = "window"
    /\ UNCHANGED <<caseVars, rules, at, buckets, turn, nth, groupVars, findings, unseen>>

Apart(i, j) == events[dated[j]].ts - events[dated[i]].ts

(* Slip: the event is measured from the one before it. *)
TooFarFromLast(i, j) == i < j /\ Apart(j - 1, j) > Span

TooFar(i, j) == i < j /\ Apart(i, j) > Span

Advance ==
    /\ stage = "window" /\ end <= Len(dated) /\ TooFar(start, end)
    /\ start' = start + 1
    /\ UNCHANGED <<stage, caseVars, rules, at, buckets, turn, nth, dated, undated, end, longest,
                   findings, unseen>>

(* Slip: a run of exactly MinCount events is passed over. *)
MoreThanEnough(i, j) == j - i + 1 > MinCount

Enough(i, j) == j - i + 1 >= MinCount

(* Of the runs of one length the first is kept. *)
NextEvent ==
    /\ stage = "window" /\ end <= Len(dated) /\ ~TooFar(start, end)
    /\ longest' = IF Enough(start, end) /\ end - start + 1 > Length(longest)
                  THEN [first |-> start, last |-> end] ELSE longest
    /\ end' = end + 1
    /\ UNCHANGED <<stage, caseVars, rules, at, buckets, turn, nth, dated, undated, start,
                   findings, unseen>>

(* The run that the pass kept, and the undated ones apart.                 *)
EndWindows ==
    /\ stage = "window" /\ end > Len(dated)
    /\ LET kept == SubSeq(dated, longest.first, longest.last)
           windows == {w \in {kept, undated} : w # <<>> /\ Fires(Rule, w)}
       IN  findings' = findings \cup {Found(Rule, w) : w \in windows}
    /\ nth' = nth + 1 /\ stage' = "group"
    /\ UNCHANGED <<caseVars, rules, at, buckets, turn, groupVars, unseen>>

(* ScanReport.silent *)
Silent == {rules[i].id : i \in DOMAIN rules} \ {f.rule : f \in findings}

EndScan ==
    /\ stage = "group" /\ turn > Len(rules)
    /\ stage' = "done"
    /\ UNCHANGED <<caseVars, rules, at, buckets, turn, nth, groupVars, findings, unseen>>

(* The order of the query: undated events first, then by time.             *)
InOrder(s) ==
    \A i, j \in DOMAIN s :
        i < j /\ s[i].ts # None => s[j].ts # None /\ s[i].ts <= s[j].ts

Init ==
    /\ stage = "load" /\ pack \in Packs /\ rules = <<>>
    /\ \E k \in 0..MaxMembers : \E s \in [1..k -> DOMAIN Pool] :
          /\ IsInjective(s) /\ events = [i \in 1..k |-> Pool[s[i]]]
          /\ InOrder(events)
    /\ at = 1 /\ buckets = <<>> /\ turn = 1 /\ nth = 1
    /\ dated = <<>> /\ undated = <<>> /\ start = 1 /\ end = 1 /\ longest = NoRun
    /\ findings = {} /\ unseen = 0

Next ==
    \/ Load \/ ReadEvent \/ EndOfEvents \/ NextRule \/ WholeGroup
    \/ StartWindows \/ Divide \/ EndDivide \/ Advance \/ NextEvent \/ EndWindows \/ EndScan

Spec == Init /\ [][Next]_vars

(* ------------------------------------------------------------ properties *)

IsBurst(i, j) == i <= j /\ Apart(i, j) <= Span /\ j - i + 1 >= MinCount

(* What the pass keeps is a burst: its events lie inside one window, and   *)
(* are enough; "a rule about a burst does not fire on the same number of   *)
(* events spread over a week".                                             *)
LongestIsBurst ==
    longest # NoRun =>
        /\ longest.last \in DOMAIN dated
        /\ IsBurst(longest.first, longest.last)

(* In the end no burst has more events than the one that was kept: moving  *)
(* both positions forward only has missed none.                            *)
NoLongerBurst ==
    stage = "window" /\ end > Len(dated) =>
        \A i, j \in DOMAIN dated :
            IsBurst(i, j) => longest # NoRun /\ j - i + 1 <= Length(longest)

(* The pass of _windows keeps a burst, and of the bursts a longest one.    *)
BurstIsLongest == LongestIsBurst /\ NoLongerBurst

(* What a rule is about, said of sets of events and not of lists of them:  *)
(* a group is all matching events that agree in what the rule groups by,   *)
(* a window the first of the largest sets of dated ones inside its span.   *)
Meeting(rule) == {n \in DOMAIN events : Asks(rule, events[n])}

Agrees(rule, m, n) ==
    \A name \in Range(rule.aggregate.groupBy) :
        name \in Fields => events[m].says[name] = events[n].says[name]

GroupAround(rule, m) == {n \in Meeting(rule) : Agrees(rule, m, n)}

Within(group, t) == {n \in group : events[n].ts # None /\ t <= events[n].ts /\ events[n].ts <= t + Span}

LargestWindow(group) ==
    LET times == {events[n].ts : n \in {m \in group : events[m].ts # None}}
        largest == {t \in times : \A u \in times : Cardinality(Within(group, u)) <= Cardinality(Within(group, t))}
    IN  IF times = {} THEN {} ELSE Within(group, CHOOSE t \in largest : \A u \in largest : t <= u)

Suffices(rule, group) ==
    /\ Cardinality(group) >= MinCount
    /\ rule.aggregate.distinct # None =>
          \E some \in SUBSET group :
              /\ Cardinality(some) = rule.aggregate.distinctGte
              /\ \A m, n \in some :
                    GroupValue(events[m], rule.aggregate.distinct) = GroupValue(events[n], rule.aggregate.distinct)
                    => m = n

WindowsOf(rule, group) ==
    IF ~rule.aggregate.windowed THEN {group}
    ELSE {LargestWindow(group), {n \in group : events[n].ts = None}}

Asked(rule) ==
    IF rule.aggregate = None THEN {{n} : n \in Meeting(rule)}
    ELSE {w \in UNION {WindowsOf(rule, GroupAround(rule, n)) : n \in Meeting(rule)} : Suffices(rule, w)}

(* A scan finds what its rules ask for, once, whatever the order in which  *)
(* the query returns what it leaves tied: a second scan of the case has    *)
(* the same findings (rules/engine.py: "re-scanning a case leaves it       *)
(* unchanged"), and a rule that is silent was asked and had nothing.       *)
FindingsAreWhatIsAsked ==
    stage = "done" =>
        /\ \A i \in DOMAIN rules :
              {f.events : f \in {g \in findings : g.rule = rules[i].id}} = {{events[n].id : n \in w} : w \in Asked(rules[i])}
        /\ Silent = {rules[i].id : i \in {j \in DOMAIN rules : Asked(rules[j]) = {}}}
        /\ unseen = Cardinality({n \in DOMAIN events : \A j \in DOMAIN rules : ~AppliesTo(rules[j], events[n])})
================================================================================
