---------------------------------- MODULE Git ----------------------------------
(***************************************************************************)
(* parsers/git_checkpoints.py, with git_pack.py, git_index.py and          *)
(* git_objects.py: the repositories in which agents keep what they are     *)
(* about to change.  A path is the list of its segments.  An object has a  *)
(* kind and a body; its id is a hash of both, so the pair stands for it.   *)
(***************************************************************************)
EXTENDS Readers

CONSTANTS
    MaxDepth,       \* how long a chain of deltas may be (MAX_DEPTH)
    MaxObjects,     \* how many objects of a pack are read (MAX_OBJECTS)
    MaxEntries      \* how many entries of an index are read (MAX_ENTRIES)

FileOf == <<"file", 0>>

Follows(path, one, two) == \E i \in 1..(Len(path) - 2) : path[i] = one /\ path[i + 1] = two

Below(path, segment) == \E i \in 1..(Len(path) - 1) : path[i] = segment

(* parse: what a file is goes by where it is. *)
Place(path) ==
    CASE path[Len(path)] = "packed-refs" -> "packed"
      [] path[Len(path)] # "packed-refs" /\ Follows(path, "logs", "refs") -> "log"
      [] OTHER ->
            IF Below(path, "objects") THEN IF Follows(path, "objects", "pack") THEN "pack" ELSE "object"
            ELSE IF path[Len(path)] \in {"index", "pathspec"} THEN path[Len(path)]
            ELSE IF Below(path, "refs") THEN "ref" ELSE "bookkeeping"

(* _ref_parts: the segments from the first "refs" on, and the session that *)
(* is named in them where the namespace has one.                           *)
RefOf(path) ==
    LET at == {i \in DOMAIN path : path[i] = "refs"}
        first == IF at = {} THEN 1 ELSE CHOOSE i \in at : \A j \in at : i <= j
    IN  SubSeq(path, first, Len(path))

SessionOf(path) ==
    LET ref == RefOf(path) IN IF Len(ref) >= 5 /\ ref[3] = "checkpoints" THEN ref[4] ELSE Null

StampOf(path) == [NoStamp EXCEPT !.session = SessionOf(path)]

Snapshot(at, raw, stamp) == Ev(at, "self", 0, "file.snapshot", raw, stamp, Null)

(* _file_note, and every record about a file as a whole. *)
FileNote(reason) == Unparsed(FileOf, reason, 0, Null, NoStamp)

(* _reflog: one event per write of the reference, whatever it replaced. *)
TakeLogLine(path, at, line) ==
    CASE line = Blank -> <<>>
      [] line = Torn -> <<Unparsed(at, "self", 0, line, NoStamp)>>
      [] OTHER -> <<Snapshot(at, line, StampOf(path))>>

Namespaces == {"cline", "roo", "checkpoints"}

(* _packed: the references of the agents alone, of a file that has those   *)
(* of the developer too; a line of another shape is passed over.           *)
TakePackedRef(at, line) ==
    IF line \notin {Blank, Torn} /\ Len(line.ref) > 2 /\ line.ref[1] = "refs" /\ line.ref[2] \in Namespaces
    THEN <<Snapshot(at, line, StampOf(line.ref))>> ELSE <<>>

(* _pathspec *)
TakePathspec(at, line) ==
    IF line = Blank THEN <<>> ELSE <<Snapshot(at, line, NoStamp)>>

(* _ref: the first line of a reference that is not blank. *)
Reference(path, lines) ==
    LET said == SelectSeq(lines, LAMBDA line : line # Blank)
    IN  IF said = <<>> THEN <<FileNote("empty")>>
        ELSE IF said[1] = Torn THEN <<Unparsed(FileOf, "self", 0, Torn, NoStamp)>>
        ELSE IF "symbolic" \in DOMAIN said[1] THEN <<Snapshot(FileOf, said[1], NoStamp)>>
        ELSE <<Snapshot(FileOf, said[1], StampOf(path))>>

(* _bookkeeping: a hook that is no template is what a machine will obey. *)
Bookkeeping(path, content) ==
    LET enabled == Below(path, "hooks") /\ ~content.sample
    IN  <<Ev(FileOf, "self", 0, IF enabled THEN "instruction.source" ELSE "config.snapshot", content, NoStamp, Null)>>

(*************************** objects and packs ****************************)

(* git_objects.interpret: a tree of which an entry runs off the end. *)
Interprets(kind, body) == ~(kind = "tree" /\ \E i \in DOMAIN body : body[i] = Odd)

ObjectEvent(at, kind, body) == Snapshot(at, [type |-> kind, content |-> body], NoStamp)

(* _object: one object that is a file of its own. *)
Loose(object) ==
    IF object = Torn \/ ~Interprets(object.kind, object.body) THEN <<FileNote("object")>>
    ELSE <<ObjectEvent(<<"object", <<object.kind, object.body>>>>, object.kind, object.body)>>

Whole == {"commit", "tree", "blob", "tag"}

(* _apply: runs of the base and bytes of the delta, one after the other.   *)
(* The delta states how long its base is and how long its result.          *)
Runs(base, delta) ==
    LET Run(op) == IF op.is = "copy" THEN SubSeq(base, op.from + 1, op.from + op.length) ELSE op.bytes
    IN  Flattened([i \in DOMAIN delta.ops |-> Run(delta.ops[i])])

Applies(base, delta) ==
    /\ delta.against = Len(base)
    /\ \A i \in DOMAIN delta.ops :
          \/ delta.ops[i].is = "copy" /\ delta.ops[i].from + delta.ops[i].length <= Len(base)
          \/ delta.ops[i].is = "insert"
    /\ Len(Runs(base, delta)) = delta.size

(* Slip: the id of a base is looked up in the kind of the delta alone. *)
BaseByLast(object, at, done) ==
    LET earlier == {i \in DOMAIN done : done[i].problem = Null /\ (object.kind = "reference" \/ i = at - object.back)}
    IN  IF earlier = {} THEN 0 ELSE CHOOSE i \in earlier : \A j \in earlier : j <= i

(* by_offset and by_id: the objects of this pack that are expanded.  Of    *)
(* two with one id the later one is the base.                              *)
BaseOf(object, at, done) ==
    LET earlier == {i \in DOMAIN done :
                       /\ done[i].problem = Null
                       /\ IF object.kind = "offset" THEN i = at - object.back
                          ELSE <<done[i].kind, done[i].body>> = object.ref}
    IN  IF earlier = {} THEN 0 ELSE CHOOSE i \in earlier : \A j \in earlier : j <= i

(* _resolve: an object that is whole, or a delta against an earlier one.   *)
(* Whether its base failed to expand is asked of an offset alone: the      *)
(* distance of a reference is zero.                                        *)
Resolve(object, at, done) ==
    LET base == BaseOf(object, at, done)
        unresolved == object.kind = "offset" /\ (at - object.back) \in DOMAIN done
        as(kind, body, depth, problem) == [kind |-> kind, body |-> body, depth |-> depth, problem |-> problem]
    IN  IF object.kind \in Whole THEN as(object.kind, object.body, 0, Null)
        ELSE IF object.kind \notin {"offset", "reference"} THEN as("unknown", object.body, 0, "unknown")
        ELSE IF base = 0 THEN as(object.kind, object.body, 0, IF unresolved THEN "unexpanded" ELSE "baseless")
        ELSE IF done[base].depth >= MaxDepth THEN as(object.kind, object.body, done[base].depth + 1, "deep")
        ELSE IF ~Applies(done[base].body, object.body)
             THEN as(object.kind, object.body, done[base].depth + 1, "unapplied")
        ELSE as(done[base].kind, Runs(done[base].body, object.body), done[base].depth + 1, Null)

(* _packed_object *)
PackedEvent(at, found) ==
    LET says == [depth |-> found.depth, problem |-> found.problem]
        where == <<"offset", at>>
    IN  IF found.problem # Null \/ ~Interprets(found.kind, found.body)
        THEN <<Ev(where, "self", 0, "unparsed.record", [type |-> found.kind, content |-> found.body], NoStamp, says)>>
        ELSE <<Ev(where, "self", 0, "file.snapshot", [type |-> found.kind, content |-> found.body], NoStamp, says)>>

(* read: the walk ends at an object that is broken, or at the limit.  The  *)
(* name of a base is read as the shorter of the two hashes, so in a pack   *)
(* of the longer ones the stream of such a delta is not found either.      *)
Broken(pack, i) == pack.objects[i] = Torn \/ (pack.long /\ pack.objects[i].kind = "reference")

ReadTo(pack) ==
    LET bad == {i \in DOMAIN pack.objects : Broken(pack, i) \/ i > MaxObjects}
    IN  IF bad = {} THEN Len(pack.objects) ELSE (CHOOSE i \in bad : \A j \in bad : i <= j) - 1

PackItems(pack) ==
    IF pack = Torn THEN <<>> ELSE [i \in 1..ReadTo(pack) |-> [object |-> pack.objects[i], at |-> i]]

(* _pack: object by object, then the record of what was not read. *)
TakeObject(item, carried) ==
    LET found == Resolve(item.object, item.at, carried)
    IN  [carried |-> Append(carried, found), events |-> PackedEvent(item.at, found)]

FinishPack(pack) ==
    IF pack = Torn THEN <<FileNote("pack")>>
    ELSE IF ReadTo(pack) = 0 THEN <<FileNote("nothing")>>
    ELSE IF ReadTo(pack) < Len(pack.objects) THEN <<FileNote("stopped")>> ELSE <<>>

(******************************** the index *******************************)

(* _path: from version four on a path is what is left of the one before,   *)
(* and then the rest of it.                                                *)
PathIn(version, entry, previous) ==
    IF version < 4 THEN entry.path ELSE SubSeq(previous, 1, Len(previous) - entry.strip) \o entry.path

(* read, _walk, _index: an entry that cannot be read ends the listing; the *)
(* stage of an entry is not looked at.                                     *)
IndexStart == [seen |-> 0, previous |-> <<>>, broken |-> FALSE]

TakeEntry(version, entry, carried) ==
    LET path == PathIn(version, entry, carried.previous)
        ended == carried.broken \/ carried.seen >= MaxEntries
        bad == entry = Torn \/ (version >= 4 /\ entry.strip > Len(carried.previous))
    IN  IF ended THEN [carried |-> carried, events |-> <<>>]
        ELSE IF bad THEN [carried |-> [carried EXCEPT !.broken = TRUE], events |-> <<>>]
        ELSE [carried |-> [carried EXCEPT !.seen = @ + 1, !.previous = path],
              events |-> <<Snapshot(<<"path", path>>, entry, NoStamp)>>]

FinishIndex(carried) ==
    IF carried.broken THEN <<FileNote("stopped")>>
    ELSE IF carried.seen >= MaxEntries THEN <<FileNote("limit")>> ELSE <<>>
================================================================================
