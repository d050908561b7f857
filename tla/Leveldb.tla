-------------------------------- MODULE Leveldb --------------------------------
(***************************************************************************)
(* parsers/leveldb.py and parsers/leveldb_store.py: the files of a         *)
(* key-value store.  A log is framed: a record is one fragment that is     *)
(* FULL, or a FIRST, any MIDDLE and a LAST one.  A fragment has a kind, a  *)
(* body of entries, and is whole unless the file ends inside it.           *)
(***************************************************************************)
EXTENDS Readers

CONSTANT MaxRecords    \* how many records of one file reach a case (MAX_RECORDS)

(* pending is what is gathered of a record, started where it began; cut is *)
(* said when the file ends inside a record, and said is that reading ended *)
(* with an error, which is told at once.                                   *)
LogStart == [pending |-> <<>>, started |-> 0, seen |-> 0, cut |-> FALSE, done |-> FALSE, said |-> FALSE]

(* LevelDbStoreParser._file: what is said once of the file. *)
Note(said) == <<Ev(0, "file", 0, "unparsed.record", Null, NoStamp, said)>>

(* read_log: the entries of a record, to the first that is of a kind that  *)
(* is not known ("odd") or that runs off the end of the record ("short").  *)
EntriesOf(body) ==
    LET stops == {i \in DOMAIN body : body[i].is \in {"odd", "short"}}
        end == CHOOSE i \in stops : \A j \in stops : i <= j
    IN  IF stops = {} THEN body ELSE SubSeq(body, 1, end - 1)

(* In a record that is complete an entry that runs off its end is an error.*)
Malformed(body, complete) ==
    /\ complete
    /\ Len(EntriesOf(body)) < Len(body)
    /\ body[Len(EntriesOf(body)) + 1].is = "short"

(* A record that the framing gives up: its entries are events, as far as   *)
(* the limit allows.                                                       *)
Batch(at, body, complete, c) ==
    LET room == MaxRecords - c.seen
        entries == EntriesOf(body)
        read == IF Len(entries) <= room THEN entries ELSE SubSeq(entries, 1, room)
        Entry(entry, i) == <<Ev(at, "record", i, "unparsed.record", entry, NoStamp, entry.is)>>
        full == Len(entries) > room
        broken == ~full /\ Malformed(body, complete)
    IN  [carried |-> [c EXCEPT !.seen = @ + Len(read), !.cut = ~full /\ (@ \/ ~complete),
                              !.done = full \/ broken, !.said = broken],
         events |-> Each(read, Entry) \o When(broken, Note("stopped"))]

(* Slip: what is pending when a record begins is not let go. *)
TakeUnended(at, fragment, c) ==
    LET Answer(next, events) == [carried |-> next, events |-> events]
        gathered == c.pending \o fragment.body
        start == IF c.pending # <<>> THEN c.started ELSE at
        closed == [c EXCEPT !.pending = <<>>]
    IN  CASE c.done -> Answer(c, <<>>)
          [] ~c.done /\ fragment.kind = "full" -> Batch(at, fragment.body, fragment.whole, c)
          [] ~c.done /\ fragment.kind = "first" /\ fragment.whole ->
                Answer([c EXCEPT !.pending = gathered, !.started = start], <<>>)
          [] ~c.done /\ fragment.kind = "first" /\ ~fragment.whole ->
                Batch(start, gathered, FALSE, closed)
          [] ~c.done /\ fragment.kind \in {"middle", "last"} /\ c.pending = <<>> -> Answer(c, <<>>)
          [] ~c.done /\ fragment.kind = "middle" /\ c.pending # <<>> /\ fragment.whole ->
                Answer([c EXCEPT !.pending = gathered], <<>>)
          [] ~c.done /\ fragment.kind = "unknown" ->
                Answer([c EXCEPT !.done = TRUE, !.said = TRUE], Note("stopped"))
          [] OTHER -> Batch(c.started, gathered, fragment.whole, closed)

(* _log_records, one fragment: a FULL one leaves what is pending as it is, *)
(* a FIRST one replaces it, and one that continues nothing is skipped; a   *)
(* record of which nothing is gathered yet counts as nothing.              *)
TakeFragment(at, fragment, c) ==
    LET Answer(next, events) == [carried |-> next, events |-> events]
        gathered == c.pending \o fragment.body
        closed == [c EXCEPT !.pending = <<>>]
    IN  CASE c.done -> Answer(c, <<>>)
          [] ~c.done /\ fragment.kind = "full" -> Batch(at, fragment.body, fragment.whole, c)
          [] ~c.done /\ fragment.kind = "first" /\ fragment.whole ->
                Answer([c EXCEPT !.pending = fragment.body, !.started = at], <<>>)
          [] ~c.done /\ fragment.kind = "first" /\ ~fragment.whole ->
                Batch(at, fragment.body, FALSE, closed)
          [] ~c.done /\ fragment.kind \in {"middle", "last"} /\ c.pending = <<>> -> Answer(c, <<>>)
          [] ~c.done /\ fragment.kind = "middle" /\ c.pending # <<>> /\ fragment.whole ->
                Answer([c EXCEPT !.pending = gathered], <<>>)
          [] ~c.done /\ fragment.kind = "unknown" ->
                Answer([c EXCEPT !.done = TRUE, !.said = TRUE], Note("stopped"))
          [] OTHER -> Batch(c.started, gathered, fragment.whole, closed)

(* The end of the log: a record that was never ended is given up as far as *)
(* it came.  That the file ended inside one is said, or else, when as much *)
(* has been read as ever is, that there may be more.                       *)
FinishLog(c) ==
    LET last == IF c.pending # <<>> /\ ~c.done THEN Batch(c.started, c.pending, FALSE, c)
                ELSE [carried |-> c, events |-> <<>>]
        ended == last.carried
    IN  last.events
        \o When(ended.cut /\ ~ended.said, Note("cut"))
        \o When(~ended.cut /\ ~ended.said /\ ended.seen >= MaxRecords, Note("truncated"))

-------------------------------------------------------------------------------
(* read_table: the entries of every block that the index names; a block    *)
(* that cannot be expanded ends the reading and is said.                   *)
TableStart == [seen |-> 0, done |-> FALSE, said |-> FALSE]

TakeBlock(at, block, c) ==
    LET room == MaxRecords - c.seen
        read == IF Len(block.entries) <= room THEN block.entries ELSE SubSeq(block.entries, 1, room)
        Entry(entry, i) == <<Ev(at, "key", c.seen + i + 1, "unparsed.record", entry, NoStamp, "put")>>
        seen == c.seen + Len(read)
    IN  IF c.done THEN [carried |-> c, events |-> <<>>]
        ELSE IF ~block.expands THEN [carried |-> [c EXCEPT !.done = TRUE, !.said = TRUE], events |-> Note("stopped")]
        ELSE [carried |-> [c EXCEPT !.seen = seen, !.done = Len(read) < Len(block.entries)],
              events |-> Each(read, Entry)]

FinishTable(c) == When(~c.said /\ c.seen >= MaxRecords, Note("truncated"))

(* _manifest, _current, the lock and what is no file of a store: one note; *)
(* of the manifest the number of its edits.                                *)
OtherFile(file) == Note(file.is)

(* _own_log *)
TakeOwnLog(at, line, carried) ==
    [carried |-> carried,
     events |-> IF line = Blank THEN <<>> ELSE <<Unparsed(at, "self", 0, line, NoStamp)>>]
=================================================================================
