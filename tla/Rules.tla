--------------------------------- MODULE Rules ---------------------------------
(***************************************************************************)
(* What the rules of a scan are: their conditions (rules/conditions.py)    *)
(* and selectors (select.py), which events meet them and what a finding    *)
(* quotes.  Scan is given them as its parameters.                          *)
(*                                                                         *)
(* A text is a sequence of tokens, each a whole word or a sign.  A value   *)
(* is a record [is, of]: a text, a number or a truth value by its token, a *)
(* list of values, a mapping as the sequence of its [key, value] in the    *)
(* order of the keys.  A selector is its root and its steps [name, fan].   *)
(***************************************************************************)
EXTENDS Scan

CONSTANTS
    TopLevel, Provenance,   \* select.py: the names a rule may ask for
    Folded,         \* str.casefold, where it changes a token
    Numerals,       \* the tokens that are numbers
    Escaped,        \* the tokens that JSON writes otherwise
    FlattenDepth,   \* _FLATTEN_DEPTH
    QuoteLimit,     \* how much of a value a finding quotes (QUOTE_LIMIT)
    QuoteCount      \* how many values of a field it quotes (QUOTE_COUNT)

(* --------------------------------------------------------------- values *)

IsMapping(v) == v # None /\ v.is = "mapping"
IsList(v) == v # None /\ v.is = "list"

Field(v, name) ==
    LET held == {i \in DOMAIN v.of : v.of[i].key = name}
    IN  IF held = {} THEN None ELSE v.of[CHOOSE i \in held : TRUE].value

(* _get: a list that is reached without "[]" is read through. *)
Get(v, name) ==
    IF IsMapping(v) THEN Field(v, name)
    ELSE IF IsList(v)
    THEN LET has(m) == IsMapping(m) /\ Field(m, name) # None
             under == SelectSeq(v.of, has)
         IN  IF under = <<>> THEN None
             ELSE [is |-> "list", of |-> [i \in DOMAIN under |-> Field(under[i], name)]]
    ELSE None

(* Slip: only the first element of a list is looked at. *)
FirstOnly(values, step) ==
    LET got(v) == Get(v, step.name)
        fan(v) == IF got(v) = None THEN <<>>
                  ELSE IF step.fan /\ IsList(got(v)) THEN SubSeq(got(v).of, 1, 1) ELSE <<got(v)>>
    IN  FlattenSeq([i \in DOMAIN values |-> fan(values[i])])

(* _walk: one step, for every value so far. *)
Step(values, step) ==
    LET got(v) == Get(v, step.name)
        fan(v) == IF got(v) = None THEN <<>>
                  ELSE IF step.fan /\ IsList(got(v)) THEN got(v).of ELSE <<got(v)>>
    IN  FlattenSeq([i \in DOMAIN values |-> fan(values[i])])

Joined(parts, by) ==
    IF parts = <<>> THEN <<>> ELSE FoldLeft(LAMBDA s, p : s \o by \o p, Head(parts), Tail(parts))

RECURSIVE JsonText(_)
(* json.dumps, of what is not a text already. *)
JsonText(v) ==
    CASE v = None -> <<"null">>
      [] v # None /\ v.is = "text" ->
            <<"\"">> \o [i \in DOMAIN v.of |-> IF v.of[i] \in Escaped THEN "\\" ELSE v.of[i]] \o <<"\"">>
      [] IsList(v) -> <<"[">> \o Joined([i \in DOMAIN v.of |-> JsonText(v.of[i])], <<",">>) \o <<"]">>
      [] IsMapping(v) ->
            <<"{">> \o Joined([i \in DOMAIN v.of |-> <<v.of[i].key, ":">> \o JsonText(v.of[i].value)], <<",">>) \o <<"}">>
      [] OTHER -> <<v.of>>

AsText(v) == IF v = None THEN <<>> ELSE IF v.is = "text" THEN v.of ELSE JsonText(v)

(* as_number: a truth value is none. *)
AsNumber(v) ==
    LET said == CASE v # None /\ v.is = "text" /\ Len(v.of) = 1 -> v.of[1]
                  [] v # None /\ v.is = "number" -> v.of
                  [] OTHER -> ""
    IN  IF said \in DOMAIN Numerals THEN Numerals[said] ELSE None

LengthOf(v) == IF v = None THEN 0 ELSE IF v.is \in {"text", "list", "mapping"} THEN Len(v.of) ELSE 1

RECURSIVE Flatten(_, _)
(* flatten: the leaves, one to a line, a key before its value. *)
Flatten(v, depth) ==
    CASE depth > FlattenDepth -> <<"...">>
      [] depth <= FlattenDepth /\ v = None -> <<>>
      [] depth <= FlattenDepth /\ v # None /\ v.is = "text" -> v.of
      [] depth <= FlattenDepth /\ IsList(v) -> Joined([i \in DOMAIN v.of |-> Flatten(v.of[i], depth + 1)], <<"\n">>)
      [] depth <= FlattenDepth /\ IsMapping(v) ->
            LET below(i) == Flatten(v.of[i].value, depth + 1)
                line(i) == <<v.of[i].key, IF "\n" \in Range(below(i)) THEN "\n" ELSE "=">> \o below(i)
            IN  Joined([i \in DOMAIN v.of |-> line(i)], <<"\n">>)
      [] OTHER -> <<v.of>>

TextViews == {"raw_text", "payload_text", "event_text"}

TextView(e, name) ==
    CASE name = "payload_text" -> Flatten(e.payload, 0)
      [] name = "raw_text" -> Flatten(e.raw, 0)
      [] OTHER -> Flatten(e.payload, 0) \o <<"\n">> \o Flatten(e.raw, 0)

Root(e, name) == CASE name = "payload" -> e.payload [] name = "raw" -> e.raw [] OTHER -> e.provenance

(* ALIASES *)
Aliased(selector) ==
    IF selector = [root |-> "text", steps |-> <<>>]
    THEN [root |-> "payload", steps |-> <<[name |-> "text", fan |-> FALSE]>>] ELSE selector

(* resolve: a list of what the selector names; nothing is an empty list. *)
Resolve(e, asked) ==
    LET selector == Aliased(asked) IN
    CASE selector.root \in TextViews -> <<[is |-> "text", of |-> TextView(e, selector.root)]>>
      [] selector.root \in TopLevel ->
            IF e.says[selector.root] = None THEN <<>> ELSE <<[is |-> "text", of |-> <<e.says[selector.root]>>]>>
      [] OTHER -> LET root == Root(e, selector.root)
                  IN  IF selector.steps # <<>> THEN FoldLeft(Step, <<root>>, selector.steps)
                      ELSE IF root = None THEN <<>> ELSE <<root>>

(* ----------------------------------------------------------- conditions *)

Separators == {"/", "\\"}

Texts == {"regex", "contains", "equals", "glob", "startswith", "endswith"}
Numbers == {"gt", "gte", "lt", "lte"}
Lengths == {"length_gt", "length_gte", "length_lt"}
Operators == Texts \cup Numbers \cup Lengths \cup {"exists", "count_gte"}

(* check *)
Known(asked) ==
    LET selector == Aliased(asked)
    IN  \/ selector.root \in TopLevel \cup TextViews /\ selector.steps = <<>>
        \/ selector.root \in {"payload", "raw"}
        \/ selector.root = "provenance" /\ Len(selector.steps) = 1 /\ selector.steps[1].name \in Provenance

RECURSIVE Compiles(_)
(* parse, _leaf, _build: whether a condition is one. *)
Compiles(node) ==
    IF node.is \in {"all", "any", "none"}
    THEN node.parts # <<>> /\ \A i \in DOMAIN node.parts : Compiles(node.parts[i])
    ELSE Known(node.field) /\ node.op \in Operators /\ (node.op \in Texts => node.of # <<>>)

(* The words are meant rather than their casing, except in a pattern that  *)
(* can say so itself; a path is compared without it, whatever is said.     *)
IgnoresCase(leaf) ==
    \/ leaf.op = "glob"
    \/ leaf.op \in Texts /\ (IF leaf.ignoreCase = None THEN leaf.op # "regex" ELSE leaf.ignoreCase)

CaseOf(leaf, text) ==
    IF ~IgnoresCase(leaf) THEN text
    ELSE [i \in DOMAIN text |-> IF text[i] \in DOMAIN Folded THEN Folded[text[i]] ELSE text[i]]

RECURSIVE Like(_, _)
(* compile_glob: "*" and "?" stay between two separators, "**" does not,   *)
(* and one separator is as good as the other.                              *)
Like(path, pattern) ==
    IF pattern = <<>> THEN path = <<>>
    ELSE IF Head(pattern) \in {"*", "**"}
    THEN \E n \in 0..Len(path) :
            /\ Head(pattern) = "*" => Range(SubSeq(path, 1, n)) \cap Separators = {}
            /\ Like(SubSeq(path, n + 1, Len(path)), Tail(pattern))
    ELSE /\ path # <<>>
         /\ \/ Head(path) = Head(pattern)
            \/ Head(pattern) = "?" /\ Head(path) \notin Separators
            \/ {Head(path), Head(pattern)} \subseteq Separators
         /\ Like(Tail(path), Tail(pattern))

Occurs(text, words) == \E i \in 0..(Len(text) - Len(words)) : SubSeq(text, i + 1, i + Len(words)) = words

RECURSIVE FoundAt(_, _, _)
(* A pattern holds from after the i-th token on.  Of the syntax the model  *)
(* has the two anchors, of the whole text, since no pattern is compiled    *)
(* for its lines, and ".*", which goes over line ends.  A token is a whole *)
(* word, so that every end of it is a word's.                              *)
FoundAt(text, i, pattern) ==
    IF pattern = <<>> THEN TRUE
    ELSE CASE Head(pattern) = "^" -> i = 0 /\ FoundAt(text, i, Tail(pattern))
           [] Head(pattern) = "$" ->
                 /\ i = Len(text) \/ (i = Len(text) - 1 /\ text[i + 1] = "\n")
                 /\ FoundAt(text, i, Tail(pattern))
           [] Head(pattern) = ".*" -> \E n \in i..Len(text) : FoundAt(text, n, Tail(pattern))
           [] OTHER -> /\ i < Len(text) /\ text[i + 1] = Head(pattern)
                       /\ FoundAt(text, i + 1, Tail(pattern))

(* re.search *)
Searched(text, pattern) == \E i \in 0..Len(text) : FoundAt(text, i, pattern)

Compare(op, text, words) ==
    CASE op = "regex" -> Searched(text, words)
      [] op = "contains" -> Occurs(text, words)
      [] op = "equals" -> text = words
      [] op = "startswith" -> IsPrefix(words, text)
      [] op = "endswith" -> IsSuffix(words, text)
      [] OTHER -> Like(text, words)

Ordered(op, n, limit) ==
    CASE op \in {"gt", "length_gt"} -> n > limit
      [] op \in {"gte", "length_gte"} -> n >= limit
      [] op \in {"lt", "length_lt"} -> n < limit
      [] OTHER -> n <= limit

Test(leaf, v) ==
    CASE leaf.op \in Texts ->
            \E i \in DOMAIN leaf.of : Compare(leaf.op, CaseOf(leaf, AsText(v)), CaseOf(leaf, leaf.of[i]))
      [] leaf.op \in Numbers -> AsNumber(v) # None /\ Ordered(leaf.op, AsNumber(v), leaf.of)
      [] OTHER -> Ordered(leaf.op, LengthOf(v), leaf.of)

(* Slip: a count that is just reached quotes nothing. *)
HitsAbove(leaf, e) ==
    LET values == Resolve(e, leaf.field)
    IN  CASE leaf.op = "exists" -> IF (values # <<>>) = leaf.of THEN values ELSE <<>>
          [] leaf.op = "count_gte" -> IF Len(values) > leaf.of THEN values ELSE <<>>
          [] OTHER -> SelectSeq(values, LAMBDA v : Test(leaf, v))

(* Leaf.hits: the values that a finding quotes. *)
Hits(leaf, e) ==
    LET values == Resolve(e, leaf.field)
    IN  CASE leaf.op = "exists" -> IF (values # <<>>) = leaf.of THEN values ELSE <<>>
          [] leaf.op = "count_gte" -> IF Len(values) >= leaf.of THEN values ELSE <<>>
          [] OTHER -> SelectSeq(values, LAMBDA v : Test(leaf, v))

LeafMatches(leaf, e) ==
    CASE leaf.op = "exists" -> (Resolve(e, leaf.field) # <<>>) = leaf.of
      [] leaf.op = "count_gte" -> Len(Resolve(e, leaf.field)) >= leaf.of
      [] OTHER -> \E i \in DOMAIN Resolve(e, leaf.field) : Test(leaf, Resolve(e, leaf.field)[i])

RECURSIVE Matches(_, _)
Matches(node, e) ==
    CASE node.is = "all" -> \A i \in DOMAIN node.parts : Matches(node.parts[i], e)
      [] node.is = "any" -> \E i \in DOMAIN node.parts : Matches(node.parts[i], e)
      [] node.is = "none" -> \A i \in DOMAIN node.parts : ~Matches(node.parts[i], e)
      [] OTHER -> LeafMatches(node, e)

RECURSIVE Leaves(_)
Leaves(node) == IF node.is = "leaf" THEN <<node>> ELSE FlattenSeq([i \in DOMAIN node.parts |-> Leaves(node.parts[i])])

(* ------------------------------------------------------------- findings *)

Upto(list, n) == SubSeq(list, 1, IF Len(list) < n THEN Len(list) ELSE n)

(* A value as it is quoted: to a limit, or, of a credential, its length    *)
(* and its first four characters, which are its first token.               *)
Shown(rule, text) ==
    CASE rule.redact -> [begins |-> Upto(text, 1), length |-> Len(text)]
      [] ~rule.redact /\ Len(text) <= QuoteLimit -> [begins |-> text, length |-> None]
      [] OTHER -> [begins |-> Upto(text, QuoteLimit) \o <<" ...">>, length |-> None]

(* What the leaves on one field accept of the members, as it is quoted.    *)
Accepted(rule, field, members) ==
    LET leaves == SelectSeq(Leaves(rule.match), LAMBDA leaf : leaf.field = field)
        of(leaf, e) == [n \in DOMAIN Hits(leaf, e) |-> Shown(rule, AsText(Hits(leaf, e)[n]))]
    IN  FlattenSeq([j \in DOMAIN leaves |->
            FlattenSeq([i \in DOMAIN members |-> of(leaves[j], members[i])])])

(* Each value once, where it came first. *)
Once(values) ==
    FoldLeft(LAMBDA bucket, v : IF Contains(bucket, v) THEN bucket ELSE Append(bucket, v), <<>>, values)

(* Slip: that there are more values than are quoted is not said. *)
MatchedQuietly(rule, members) ==
    LET fields == {Leaves(rule.match)[j].field : j \in DOMAIN Leaves(rule.match)}
        bucket(field) == Once(Accepted(rule, field, members))
    IN  {[field |-> field, quoted |-> Upto(bucket(field), QuoteCount), more |-> 0] :
            field \in {x \in fields : bucket(x) # <<>>}}

(* _matched: of each field the first values that were accepted, and how    *)
(* many more there are.                                                    *)
Matched(rule, members) ==
    LET fields == {Leaves(rule.match)[j].field : j \in DOMAIN Leaves(rule.match)}
        bucket(field) == Once(Accepted(rule, field, members))
        more(field) == Len(bucket(field)) - QuoteCount
    IN  {[field |-> field, quoted |-> Upto(bucket(field), QuoteCount),
          more |-> IF more(field) > 0 THEN more(field) ELSE 0] :
            field \in {x \in fields : bucket(x) # <<>>}}

(* ------------------------------------------------------------ properties *)

RECURSIVE Somewhere(_, _, _, _, _)
(* A text that contains the words lies below a value on the way of the     *)
(* steps, with no more lists around it than the steps say and spare ones.  *)
Somewhere(v, steps, fan, spare, leaf) ==
    CASE v = None -> FALSE
      [] IsList(v) -> /\ fan \/ spare > 0
                      /\ \E i \in DOMAIN v.of : Somewhere(v.of[i], steps, FALSE, IF fan THEN spare ELSE spare - 1, leaf)
      [] IsMapping(v) -> steps # <<>> /\ Somewhere(Field(v, Head(steps).name), Tail(steps), Head(steps).fan, spare, leaf)
      [] OTHER -> steps = <<>> /\ v.is = "text" /\ \E i \in DOMAIN leaf.of : Occurs(CaseOf(leaf, v.of), CaseOf(leaf, leaf.of[i]))

(* A condition that a field contains words misses none of the places that  *)
(* the field names, nor one that a producer nests one list deeper: "a rule *)
(* written against the first one only would be a rule that misses three    *)
(* quarters of what happened" (select.py, _walk and _get).  The list is    *)
(* then compared as its JSON text, so that words which JSON escapes are    *)
(* found only where the field is a text, and so is what the other          *)
(* operators say of a whole value or of its ends.                          *)
NothingIsOverlooked ==
    \A i \in DOMAIN events, r \in DOMAIN rules :
        LET leaves == Leaves(rules[r].match)
        IN  \A n \in DOMAIN leaves :
                LET leaf == leaves[n]
                    selector == Aliased(leaf.field)
                IN  /\ leaf.op = "contains" /\ selector.root \in {"payload", "raw"}
                    /\ \A w \in DOMAIN leaf.of : Range(leaf.of[w]) \cap Escaped = {}
                    /\ Somewhere(Root(events[i], selector.root), selector.steps, FALSE, 1, leaf)
                    => LeafMatches(leaf, events[i])

RECURSIVE Needs(_), Excludes(_)
(* The leaves of which one holds whenever the condition does, and those of *)
(* which none does.                                                        *)
Needs(node) ==
    CASE node.is = "leaf" -> <<node>>
      [] node.is = "any" -> FlattenSeq([i \in DOMAIN node.parts |-> Needs(node.parts[i])])
      [] node.is = "all" -> LET some == SelectSeq(node.parts, LAMBDA part : Needs(part) # <<>>)
                            IN  IF some = <<>> THEN <<>> ELSE Needs(some[1])
      [] OTHER -> <<>>

Excludes(node) ==
    CASE node.is = "none" -> SelectSeq(node.parts, LAMBDA part : part.is = "leaf")
      [] node.is = "all" -> FlattenSeq([i \in DOMAIN node.parts |-> Excludes(node.parts[i])])
      [] OTHER -> <<>>

(* "A rule that fires says what fired it": of each of its events a finding *)
(* quotes a value that the rule needs, unless what it needs may be that    *)
(* there is none, or says of that field that more values matched than it   *)
(* quotes; it quotes nothing that the rule excludes, and what it quotes    *)
(* and counts of a field is every value there is (engine.py, _matched and  *)
(* Leaf.hits, which are not what decides whether a rule fires).            *)
QuotedIsWhatFired ==
    \A f \in findings : \A r \in DOMAIN rules : rules[r].id = f.rule =>
        LET needed == Needs(rules[r].match)
            excluded == Excludes(rules[r].match)
            members == {e \in Range(events) : e.id \in f.events}
            Values(l, e) == {Shown(rules[r], AsText(Hits(l, e)[n])) : n \in DOMAIN Hits(l, e)}
            Told(l, e) == \E q \in f.matched :
                /\ q.field = l.field /\ Values(l, e) # {}
                /\ q.more > 0 \/ Range(q.quoted) \cap Values(l, e) # {}
        IN  /\ \A e \in members :
                  /\ \/ needed = <<>>
                     \/ \E n \in DOMAIN needed : needed[n].op = "exists" /\ ~needed[n].of
                     \/ \E n \in DOMAIN needed : Told(needed[n], e)
                  /\ \A n \in DOMAIN excluded : ~Told(excluded[n], e)
            /\ \A q \in f.matched :
                  Len(q.quoted) + q.more =
                     Cardinality(UNION {Values(l, e) :
                         l \in {x \in Range(Leaves(rules[r].match)) : x.field = q.field}, e \in members})
================================================================================
