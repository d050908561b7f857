------------------------------- MODULE Readers -------------------------------
(***************************************************************************)
(* What the parsers share (parsers/base.py, model/event.py).  A file is    *)
(* read element by element: a line of a transcript, an entry of a JSON     *)
(* document, a row of a store.  An element is a record whose fields are    *)
(* the keys that its writer gave it; a text is a string, and a number of   *)
(* texts stand for all texts.  A parser answers an element with events.    *)
(***************************************************************************)
EXTENDS Integers, Sequences, FiniteSets

CONSTANTS
    Null,   \* what an absent key gives, and what a field that was not set holds
    Odd,    \* a value of a type that no reader expects
    Blank,  \* a line of nothing but white space
    Torn    \* a line that is no JSON object: cut, undecodable, or something else

(* The lists of a list one after the other, and what a list holds.  A      *)
(* transcript's formats are instances of this module, so that it defines   *)
(* these two itself and leaves the library's other operators out of each.  *)
Flattened(lists) ==
    IF Len(lists) = 0 THEN lists ELSE
        LET firsts[n \in 1..Len(lists)] ==
                IF n = 1 THEN lists[n] ELSE firsts[n - 1] \o lists[n]
        IN  firsts[Len(lists)]

Members(list) == {list[i] : i \in DOMAIN list}

(* dict.get; a value that is no dict has no keys. *)
Get(r, key) == IF r \notin {Null, Odd} /\ key \in DOMAIN r THEN r[key] ELSE Null

(* A dict with a key that is given this value. *)
With(r, key, value) == [k \in DOMAIN r \cup {key} |-> IF k = key THEN value ELSE r[k]]

(* The truth of a text, of a mapping, of a list. *)
Said(text) == text \notin {Null, Odd, ""}
Given(value) == value \notin {Null, Odd}
Filled(list) == Given(list) /\ list # <<>>

Lesser(m, n) == IF m < n THEN m ELSE n

(* A field that should be a list, as one. *)
Listed(value) == IF Given(value) THEN value ELSE <<>>

(* What should be a list is one, or is nothing, or is of another type. *)
AList(value) == Given(value) => value \in Seq(Members(value))

(* "x or y" *)
Or(x, y) == IF Said(x) THEN x ELSE y

(* What every event of a reader is stamped with. *)
NoStamp == [session |-> Null, cwd |-> Null, branch |-> Null]

(* An event: where in the file it is, its kind, the record it keeps, its   *)
(* stamp and what its payload says.  A locator is the number of the        *)
(* element, a part of it ("self" for all of it) and the number of the part.*)
Ev(at, part, n, kind, raw, stamp, says) ==
    [loc |-> <<at, part, n>>, kind |-> kind, raw |-> raw, stamp |-> stamp, says |-> says]

Unparsed(at, part, n, raw, stamp) == Ev(at, part, n, "unparsed.record", raw, stamp, Null)

(* Event.event_id, of the events of one file. *)
EventId(e) == <<e.loc, e.kind>>

When(condition, events) == IF condition THEN events ELSE <<>>

(* [item for item in items if Test(item)] *)
Those(items, Test(_)) == Flattened([i \in DOMAIN items |-> When(Test(items[i]), <<items[i]>>)])

(* sorted(items): what a set holds, in the order of their places. *)
Sorted(items, Place(_)) ==
    [n \in 1..Cardinality(items) |->
        CHOOSE x \in items : Cardinality({y \in items : Place(y) <= Place(x)}) = n]

(* for index, item in enumerate(items) *)
Each(items, Op(_, _)) == Flattened([i \in DOMAIN items |-> Op(items[i], i - 1)])

(* A tool's name, the identifier of the call, and the answer it got. *)
Call(tool, id) == [tool |-> tool, id |-> id]

(* iter_lines: a blank line is passed over, and a torn one is an unparsed  *)
(* record with the stamp that the reader gives such records.               *)
ReadLine(at, line, carried, torn, Op(_, _, _)) ==
    CASE line = Blank -> [carried |-> carried, events |-> <<>>]
      [] line = Torn -> [carried |-> carried, events |-> <<Unparsed(at, "self", 0, line, torn)>>]
      [] OTHER -> Op(at, line, carried)
=============================================================================
