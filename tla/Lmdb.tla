---------------------------------- MODULE Lmdb ----------------------------------
(***************************************************************************)
(* parsers/lmdb.py, and its two readers lmdb_generic.py and                *)
(* prompt_library.py.  A file has two meta pages and numbered pages, each  *)
(* a leaf of nodes, a branch of children or a part of an overflow.  A node *)
(* has a key and is a value, a big one in a run of pages, a list of        *)
(* duplicates, or the root of a database.  A transaction never changes a   *)
(* page: it writes copies, and then the meta page of the two that is       *)
(* older, so what it replaced stays readable until the page is reused.     *)
(***************************************************************************)
EXTENDS Readers

CONSTANTS
    MaxRecords,     \* how many records of a store reach a case (MAX_RECORDS)
    MaxRecovered,   \* how many recovered ones of a prompt library (MAX_RECOVERED)
    KeyLength       \* how much of a key is in a locator (120 of lmdb_generic.py)

NoPage == 0         \* the root of a tree without records (NO_PAGE)
Unnamed == "main"   \* the main database, of which the name is empty

(* looks_like_lmdb: the test of a reader, on the first meta page alone; a  *)
(* meta page of which something else is unreadable is Odd.                 *)
LooksLikeLmdb(file) == file.metas[1] # Torn

(* Slip: of two meta pages the one that is older is current. *)
OlderMeta(file) ==
    LET one == file.metas[1]
        two == file.metas[2]
    IN  IF one \in {Torn, Odd} THEN two
        ELSE IF two \in {Torn, Odd} \/ two.txn >= one.txn THEN one ELSE two

(* read: the transaction that is the last, or the one that is readable.    *)
CurrentMeta(file) ==
    LET one == file.metas[1]
        two == file.metas[2]
    IN  IF one \in {Torn, Odd} THEN two
        ELSE IF two \in {Torn, Odd} \/ two.txn <= one.txn THEN one ELSE two

(* "previous" is the other one, when the first is readable. *)
PreviousMeta(file) ==
    IF file.metas[1] \in {Torn, Odd} THEN Torn
    ELSE IF CurrentMeta(file) = file.metas[1] THEN file.metas[2] ELSE file.metas[1]

(* _walk, _children: the pages under a root in the order of their keys; a  *)
(* page that is on the way already is not followed.                        *)
PagesFrom(pages, root) ==
    LET walk[at \in (DOMAIN pages) \X (SUBSET DOMAIN pages)] ==
            LET children == pages[at[1]].children
                way == at[2] \cup {at[1]}
            IN  <<at[1]>> \o Flattened([i \in DOMAIN children |->
                    IF children[i] \in DOMAIN pages \ way THEN walk[<<children[i], way>>] ELSE <<>>])
    IN  IF root \in DOMAIN pages \ {NoPage} THEN walk[<<root, {}>>] ELSE <<>>

LeavesFrom(pages, root) == Those(PagesFrom(pages, root), LAMBDA p : pages[p].is = "leaf")

(* _nodes_of, _duplicates, _big: the records of a node. *)
RecordsOf(node, page, name) ==
    LET one(value, n) == [key |-> node.key, value |-> value, page |-> page, nth |-> n, of |-> name, is |-> node.is]
    IN  IF node.is = "duplicates" THEN [n \in DOMAIN node.values |-> one(node.values[n], n)]
        ELSE <<one(IF node.is = "database" THEN node.root ELSE node.value, 0)>>

PageRecords(pages, page, name) ==
    LET nodes == pages[page].nodes
    IN  Flattened([i \in DOMAIN nodes |-> RecordsOf(nodes[i], page, name)])

TreeRecords(pages, root, name) ==
    LET leaves == LeavesFrom(pages, root)
    IN  Flattened([i \in DOMAIN leaves |-> PageRecords(pages, leaves[i], name)])

IsDatabase(record) == record.is = "database"
IsRecord(record) == ~IsDatabase(record)

Upto(records, limit) == IF Len(records) <= limit THEN records ELSE SubSeq(records, 1, limit)

(* What the main tree holds, as far as it is walked: to the first record   *)
(* that is one too many.                                                   *)
MainItems(file, limit) ==
    LET items == TreeRecords(file.pages, CurrentMeta(file).root, Unnamed)
        over == {i \in DOMAIN items :
                    IsRecord(items[i]) /\ Len(Those(SubSeq(items, 1, i), IsRecord)) > limit}
    IN  IF over = {} THEN items ELSE SubSeq(items, 1, (CHOOSE i \in over : \A j \in over : i <= j) - 1)

Databases(file, limit) == Those(MainItems(file, limit), IsDatabase)

AllRecords(file) ==
    LET items == TreeRecords(file.pages, CurrentMeta(file).root, Unnamed)
        named == Those(items, IsDatabase)
    IN  Those(items, IsRecord)
        \o Flattened([i \in DOMAIN named |-> TreeRecords(file.pages, named[i].value, named[i].key)])

(* read: the records of the main tree, then those of each database. *)
LiveRecords(file, limit) == Upto(AllRecords(file), limit)

(* _pages, _reachable: the pages that the store points at, its own list of *)
(* free pages among them.                                                  *)
TreePages(pages, root) ==
    LET reached == Members(PagesFrom(pages, root))
        big == UNION {LET nodes == pages[p].nodes
                      IN  {nodes[i].run : i \in {j \in DOMAIN nodes : nodes[j].is = "big"}} :
                         p \in {q \in reached : pages[q].is = "leaf"}}
    IN  reached \cup big

(* Slip: the pages of the databases beside the main one are left out. *)
ReachableMain(file, limit) == TreePages(file.pages, CurrentMeta(file).root)

Reachable(file, limit) ==
    LET free(meta) == IF meta \in {Torn, Odd} THEN {} ELSE TreePages(file.pages, meta.free)
        named == Databases(file, limit)
    IN  free(CurrentMeta(file)) \cup free(PreviousMeta(file))
        \cup TreePages(file.pages, CurrentMeta(file).root)
        \cup UNION {TreePages(file.pages, named[i].value) : i \in DOMAIN named}

(* stale: the records of the leaves that the store does not point at. *)
StaleRecords(file, limit) ==
    LET leaves == {p \in DOMAIN file.pages : file.pages[p].is = "leaf"} \ Reachable(file, MaxRecords)
        inOrder == Sorted(leaves, LAMBDA p : p)
        found == Flattened([i \in DOMAIN inOrder |-> PageRecords(file.pages, inOrder[i], Unnamed)])
    IN  Upto(Those(found, IsRecord), limit)

-------------------------------------------------------------------------------
(* lmdb_generic.py: the store as one record, its live records and those    *)
(* that are recovered.  A locator has the page and the start of the key;   *)
(* a key is a sequence of letters.                                         *)

Opens(file) == LooksLikeLmdb(file) /\ CurrentMeta(file) \notin {Torn, Odd}

StoreNote == <<Unparsed(0, "file", 0, Null, NoStamp)>>

Tagged(records, stale) == [i \in DOMAIN records |-> [record |-> records[i], stale |-> stale]]

Items(file) ==
    IF ~Opens(file) THEN <<>>
    ELSE LET live == LiveRecords(file, MaxRecords)
         IN  Tagged(live, FALSE) \o Tagged(StaleRecords(file, MaxRecords - Len(live)), TRUE)

TakeRecord(at, item, carried) ==
    LET r == item.record
        key == SubSeq(r.key, 1, IF Len(r.key) < KeyLength THEN Len(r.key) ELSE KeyLength)
    IN  [carried |-> carried,
         events |-> <<Ev(r.page, key, r.nth, "unparsed.record", r, NoStamp, item.stale)>>]

-------------------------------------------------------------------------------
(* prompt_library.py: a prompt is a key of two databases, either of which  *)
(* may have its older name, and a record of another database is kept by    *)
(* its page.  A recovered record is one half of a prompt; one whose key is *)
(* no prompt's is kept by its page.                                        *)

METADATA == {"metadata.v1", "metadata.v2"}
BODIES == {"bodies.v1", "bodies.v2"}

Halves(records, names) == Those(records, LAMBDA r : r.of \in names)

(* The last record under a key is the one that is kept. *)
HalfOf(records, key) ==
    LET under == Those(records, LAMBDA r : r.key = key)
    IN  IF under = <<>> THEN Null ELSE under[Len(under)]

LiveKeys(file) == {LiveRecords(file, MaxRecords)[i].key : i \in DOMAIN LiveRecords(file, MaxRecords)}

(* _live *)
LivePrompts(file, places) ==
    LET live == LiveRecords(file, MaxRecords)
        pairs == Those(live, LAMBDA r : r.of \in METADATA \cup BODIES)
        keys == Sorted({pairs[i].key : i \in DOMAIN pairs}, LAMBDA key : places[key])
        Unknown(r) == <<Unparsed(r.page, "page", 0, <<r>>, NoStamp)>>
        Prompt(key) ==
            <<Ev(0, "prompt", key, "instruction.source",
                 <<HalfOf(Halves(pairs, METADATA), key), HalfOf(Halves(pairs, BODIES), key)>>, NoStamp, "live")>>
        others == Those(live, LAMBDA r : r.of \notin METADATA \cup BODIES)
    IN  Flattened([i \in DOMAIN others |-> Unknown(others[i])]) \o StoreNote
        \o Flattened([i \in DOMAIN keys |-> Prompt(keys[i])])

(* _recovered: an earlier version, or a prompt that was removed.  Of more  *)
(* records than MAX_RECOVERED a note is left, at the place of the store's. *)
RecoveredPrompts(file, places) ==
    LET stale == StaleRecords(file, 4 * MaxRecovered)
        told == Upto(stale, MaxRecovered)
        One(r) ==
            IF r.key \notin DOMAIN places
            THEN <<Unparsed(r.page, "page", 0, <<r>>, NoStamp)>>
            ELSE <<Ev(r.page, "prompt", r.key, "instruction.source", <<r>>, NoStamp,
                      IF r.key \in LiveKeys(file) THEN "earlier" ELSE "removed")>>
    IN  Flattened([i \in DOMAIN told |-> One(told[i])]) \o When(Len(stale) > MaxRecovered, StoreNote)
=================================================================================
