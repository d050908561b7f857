-------------------------------- MODULE Floors --------------------------------
(***************************************************************************)
(* The readings of last resort, one for each format that nobody has mapped *)
(* (jsonl_generic, structured_generic and the four document readers over   *)
(* it, text_log, text_config, shell_script, registry, prose_document,      *)
(* windsurf_cascade): a record is split off by its structure alone, and    *)
(* nothing is read out of it but what it literally names.                  *)
(***************************************************************************)
EXTENDS Readers

CONSTANTS
    MaxLines,    \* how many lines of a text file are read (MAX_LINES, MAX_PATTERNS)
    SplitLimit   \* how many elements of a list become records of their own (SPLIT_LIMIT)

(* literal_field: the first of these fields that holds something. *)
LiteralField(rec, fields) ==
    LET held == SelectSeq(fields, LAMBDA f : Get(rec, f) \notin {Null, "", <<>>})
    IN  IF held = <<>> THEN Null ELSE rec[held[1]]

(* literal_session, literal_project: what is no text names nothing. *)
Literally(rec, fields) == Or(LiteralField(rec, fields), Null)

LiteralStamp(rec) ==
    [session |-> Literally(rec, <<"sessionId", "session_id">>),
     cwd |-> Literally(rec, <<"cwd", "workspace">>), branch |-> Null]

(* JsonlGenericParser._record *)
JsonlRecord(at, rec, carried) ==
    [carried |-> carried, events |-> <<Unparsed(at, "self", 0, rec, LiteralStamp(rec))>>]

TakeJsonl(at, line, carried) == ReadLine(at, line, carried, NoStamp, JsonlRecord)

-------------------------------------------------------------------------------
(* structured_generic.py: a document is empty, a scalar, a list "of"       *)
(* elements, or a mapping whose "entries" are a key and the list that it   *)
(* has, "things" when all of that list are mappings.                       *)

(* The entries of a mapping: keys that are each there once. *)
Entries(entries) ==
    /\ entries \in Seq(Members(entries))
    /\ \A i, j \in DOMAIN entries : i < j => entries[i].key # entries[j].key
    /\ \A i \in DOMAIN entries : entries[i].things => entries[i].of \in Seq(Members(entries[i].of))

(* "path" leads to a record in its document: "$" is <<>>, and "$.key[0]" a  *)
(* key and a number.                                                       *)
One(at, path, value, kind) ==
    Ev(at, "path", path, kind, value, IF value.is = "mapping" THEN LiteralStamp(value) ELSE NoStamp, Null)

(* _elements: a list that is too long stays one record. *)
ElementsOf(at, path, list, kind) ==
    LET Element(value, i) == <<One(at, Append(path, i), value, kind)>>
    IN  IF Len(list) > SplitLimit THEN <<One(at, path, [is |-> "list", of |-> list], kind)>>
        ELSE Each(list, Element)

(* documents, splittable: an empty list is one record. *)
Document(at, value, kind) ==
    LET Under(entry, i) == When(entry.things, ElementsOf(at, <<entry.key>>, entry.of, kind))
    IN  CASE value.is = "list" /\ value.of # <<>> -> ElementsOf(at, <<>>, value.of, kind)
          [] value.is = "mapping" ->
                <<One(at, <<>>, value, kind)>> \o Each(value.entries, Under)
          [] OTHER -> <<One(at, <<>>, value, kind)>>

KindOf(configuration) == IF configuration THEN "config.snapshot" ELSE "unparsed.record"

(* The parse of the JSON, YAML, TOML and plist readers: a file has one     *)
(* document, or several of YAML; one that cannot be loaded is one record.  *)
TakeDocument(at, document, configuration) ==
    [carried |-> configuration,
     events |-> IF document = Torn THEN <<Unparsed(at, "path", <<>>, Torn, NoStamp)>>
                ELSE Document(at, document, KindOf(configuration))]

(* WindsurfCascadeParser: a container that stays closed is one record; an  *)
(* open one is split like a document, save that a long list is not said.   *)
TakeCascade(at, document, carried) ==
    LET Under(entry, i) ==
            LET Element(value, j) == <<One(at, <<entry.key, j>>, value, "unparsed.record")>>
            IN  When(entry.things /\ Len(entry.of) <= SplitLimit, Each(entry.of, Element))
    IN  [carried |-> carried,
         events |-> IF document = Torn THEN <<Unparsed(at, "path", <<>>, Torn, NoStamp)>>
                    ELSE <<One(at, <<>>, document, "unparsed.record")>>
                         \o Each(document.entries, Under)]

-------------------------------------------------------------------------------
(* TextLogParser.parse, TextConfigParser._patterns: a line is a record; a  *)
(* file that is longer is said to be, at the line where reading stopped.   *)

Unread == [read |-> 0, done |-> FALSE]

TakeText(at, line, c, kind) ==
    IF line = Blank \/ c.done THEN [carried |-> c, events |-> <<>>]
    ELSE IF c.read >= MaxLines
    THEN [carried |-> [c EXCEPT !.done = TRUE], events |-> <<Unparsed(at, "self", 0, Null, NoStamp)>>]
    ELSE [carried |-> [c EXCEPT !.read = @ + 1],
          events |-> <<Ev(at, "self", 0, kind, <<line>>, NoStamp, Null)>>]

TakeLog(at, line, c) == TakeText(at, line, c, "unparsed.record")
TakePattern(at, line, c) == TakeText(at, line, c, "config.snapshot")

(* ProseDocumentParser.parse, TextConfigParser._whole: one event of one    *)
(* file; one that is unreadable or binary is unparsed.                     *)
Prose(file, kind) ==
    <<IF file = Torn THEN Unparsed(0, "file", 0, file, NoStamp)
      ELSE Ev(0, "file", 0, kind, file, NoStamp, Null)>>

-------------------------------------------------------------------------------
(* ShellScriptParser: that the file was there, and then its declarations.  *)
(* A function is gathered until a line closes it.                          *)

ScriptStart == [read |-> 0, done |-> FALSE, pending |-> <<>>, start |-> 0]

ScriptPreface(doc) == <<Ev(0, "file", 0, "config.snapshot", Len(doc), NoStamp, Null)>>

Function(c, lines) == <<Ev(c.start, "self", 0, "config.snapshot", lines, NoStamp, Null)>>

(* _declarations.  Past the last line that is read, a function that is     *)
(* open is dropped.                                                        *)
TakeScript(at, line, carried) ==
    LET c == [carried EXCEPT !.read = @ + 1]
        is == IF line = Blank THEN "blank" ELSE line.is
        Answer(next, events) == [carried |-> next, events |-> events]
        one(kind) == <<Ev(at, "self", 0, kind, <<line>>, NoStamp, Null)>>
    IN  IF c.done THEN Answer(c, <<>>)
        ELSE IF c.read > MaxLines
        THEN Answer([c EXCEPT !.done = TRUE, !.pending = <<>>], <<Unparsed(at, "self", 0, Null, NoStamp)>>)
        ELSE CASE c.pending # <<>> /\ is = "close" ->
                    Answer([c EXCEPT !.pending = <<>>], Function(c, c.pending))
               [] c.pending # <<>> /\ is # "close" ->
                    Answer([c EXCEPT !.pending = Append(@, line)], <<>>)
               [] c.pending = <<>> /\ is = "function" ->
                    Answer([c EXCEPT !.pending = <<line>>, !.start = at], <<>>)
               [] c.pending = <<>> /\ is = "declaration" -> Answer(c, one("config.snapshot"))
               [] c.pending = <<>> /\ line = Blank -> Answer(c, <<>>)
               [] OTHER -> Answer(c, one("unparsed.record"))

FinishScript(c) == When(c.pending # <<>>, Function(c, c.pending))

-------------------------------------------------------------------------------
(* RegistryParser: a key is a document of values; a value is found again   *)
(* by its name, and what is no value by its number.                        *)

NameOf(name) == Or(name, "(default)")

TakeValue(at, value, carried) ==
    [carried |-> carried,
     events |-> IF value = Odd THEN <<Unparsed(at, "value", at, value, NoStamp)>>
                ELSE <<Ev(0, "value", NameOf(value.name), "config.snapshot", value, NoStamp, Null)>>]

(* RegistryParser.parse: what is not such a document, or a key without     *)
(* values, is one record.                                                  *)
KeyPreface(document) ==
    CASE document = Torn -> <<Unparsed(0, "file", 0, document, NoStamp)>>
      [] document # Torn /\ document.values = <<>> ->
            <<Ev(0, "key", 0, "config.snapshot", document, NoStamp, Null)>>
      [] OTHER -> <<>>
===============================================================================
