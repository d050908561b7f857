---------------------------- MODULE DatabasesProofs ----------------------------
(***************************************************************************)
(* What the parsers of stores read, whatever rows the tables have, however *)
(* many, and wherever reading a table ends: no event is another's, no row  *)
(* is passed over in silence, and each message has the directory of its    *)
(* own session.  Then what a page store is read as, whatever transactions  *)
(* wrote it and wherever they were cut: as of its last commit.             *)
(***************************************************************************)
EXTENDS Databases, SequenceLemmas

(* ------------------------------------------- the readers' own operators -- *)

(* The readers flatten lists as the library does.                          *)
LEMMA ReadersFlatten ==
    \A u : Flattened(u) = FlattenSeq(u) /\ Sql!Flattened(u) = FlattenSeq(u)
BY DEF Flattened, Sql!Flattened, FlattenSeq

(* Goose's reader takes the rows of tables as any does.                    *)
LEMMA GooShares ==
    /\ \A u : Goo!Flattened(u) = FlattenSeq(u)
    /\ \A t : Goo!RowsOf(t) = Sql!RowsOf(t)
    /\ \A f : Goo!TablesOf(f) = Sql!TablesOf(f) /\ Goo!FileRecord(f) = Sql!FileRecord(f)
    /\ \A x : Goo!Stopped(x) = Sql!Stopped(x) /\ Goo!RowAsEvent(x) = Sql!RowAsEvent(x)
<1>1. \A u : Goo!Flattened(u) = FlattenSeq(u)
  BY DEF Goo!Flattened, FlattenSeq
<1>2. \A t : Goo!RowsOf(t) = Sql!RowsOf(t)
  BY DEF Goo!RowsOf, Sql!RowsOf, Goo!When, Sql!When, Goo!Lesser, Sql!Lesser, Goo!RowLocator, Sql!RowLocator
<1>3. \A f : Goo!TablesOf(f) = Sql!TablesOf(f)
  BY DEF Goo!TablesOf, Sql!TablesOf, Goo!Sidecar, Sql!Sidecar
<1>4. \A f : Goo!FileRecord(f) = Sql!FileRecord(f)
  BY DEF Goo!FileRecord, Sql!FileRecord, Goo!Sidecar, Sql!Sidecar, Goo!Unparsed, Sql!Unparsed, Goo!Ev, Sql!Ev,
         Goo!File, Sql!File, Goo!NoStamp, Sql!NoStamp
<1>5. \A x : Goo!Stopped(x) = Sql!Stopped(x)
  BY DEF Goo!Stopped, Sql!Stopped, Goo!Unparsed, Sql!Unparsed, Goo!Ev, Sql!Ev, Goo!NoStamp, Sql!NoStamp
<1>6. \A x : Goo!RowAsEvent(x) = Sql!RowAsEvent(x)
  BY DEF Goo!RowAsEvent, Sql!RowAsEvent, Goo!Unparsed, Sql!Unparsed, Goo!Ev, Sql!Ev, Goo!Literal, Sql!Literal,
         Goo!Said, Sql!Said, Goo!SessionColumns, Sql!SessionColumns, Goo!ProjectColumns, Sql!ProjectColumns
<1> QED
  BY <1>1, <1>2, <1>3, <1>4, <1>5, <1>6

(* It takes them in the same order.                                        *)
LEMMA GooInOrder == \A t, n : Goo!InOrder(t, n) = Sql!InOrder(t, n)
<1>1. \A t : Goo!RowsOfAll(t) = FlattenSeq([i \in DOMAIN t |-> Sql!RowsOf(t[i])])
  BY GooShares DEF Goo!RowsOfAll
<1>2. \A t : Sql!RowsOfAll(t) = FlattenSeq([i \in DOMAIN t |-> Sql!RowsOf(t[i])])
  BY ReadersFlatten DEF Sql!RowsOfAll
<1> QED
  BY <1>1, <1>2, GooShares, ReadersFlatten
  DEF Goo!InOrder, Sql!InOrder, Goo!Those, Sql!Those, Goo!When, Sql!When, Goo!Members, Sql!Members

(* opencode's reader takes the rows of tables as any does.                 *)
LEMMA OpeShares ==
    /\ \A u : Ope!Flattened(u) = FlattenSeq(u)
    /\ \A t : Ope!RowsOf(t) = Sql!RowsOf(t)
    /\ \A f : Ope!TablesOf(f) = Sql!TablesOf(f) /\ Ope!FileRecord(f) = Sql!FileRecord(f)
    /\ \A x : Ope!Stopped(x) = Sql!Stopped(x) /\ Ope!RowAsEvent(x) = Sql!RowAsEvent(x)
<1>1. \A u : Ope!Flattened(u) = FlattenSeq(u)
  BY DEF Ope!Flattened, FlattenSeq
<1>2. \A t : Ope!RowsOf(t) = Sql!RowsOf(t)
  BY DEF Ope!RowsOf, Sql!RowsOf, Ope!When, Sql!When, Ope!Lesser, Sql!Lesser, Ope!RowLocator, Sql!RowLocator
<1>3. \A f : Ope!TablesOf(f) = Sql!TablesOf(f)
  BY DEF Ope!TablesOf, Sql!TablesOf, Ope!Sidecar, Sql!Sidecar
<1>4. \A f : Ope!FileRecord(f) = Sql!FileRecord(f)
  BY DEF Ope!FileRecord, Sql!FileRecord, Ope!Sidecar, Sql!Sidecar, Ope!Unparsed, Sql!Unparsed, Ope!Ev, Sql!Ev,
         Ope!File, Sql!File, Ope!NoStamp, Sql!NoStamp
<1>5. \A x : Ope!Stopped(x) = Sql!Stopped(x)
  BY DEF Ope!Stopped, Sql!Stopped, Ope!Unparsed, Sql!Unparsed, Ope!Ev, Sql!Ev, Ope!NoStamp, Sql!NoStamp
<1>6. \A x : Ope!RowAsEvent(x) = Sql!RowAsEvent(x)
  BY DEF Ope!RowAsEvent, Sql!RowAsEvent, Ope!Unparsed, Sql!Unparsed, Ope!Ev, Sql!Ev, Ope!Literal, Sql!Literal,
         Ope!Said, Sql!Said, Ope!SessionColumns, Sql!SessionColumns, Ope!ProjectColumns, Sql!ProjectColumns
<1> QED
  BY <1>1, <1>2, <1>3, <1>4, <1>5, <1>6

(* It takes them in the same order.                                        *)
LEMMA OpeInOrder == \A t, n : Ope!InOrder(t, n) = Sql!InOrder(t, n)
<1>1. \A t : Ope!RowsOfAll(t) = FlattenSeq([i \in DOMAIN t |-> Sql!RowsOf(t[i])])
  BY OpeShares DEF Ope!RowsOfAll
<1>2. \A t : Sql!RowsOfAll(t) = FlattenSeq([i \in DOMAIN t |-> Sql!RowsOf(t[i])])
  BY ReadersFlatten DEF Sql!RowsOfAll
<1> QED
  BY <1>1, <1>2, OpeShares, ReadersFlatten
  DEF Ope!InOrder, Sql!InOrder, Ope!Those, Sql!Those, Ope!When, Sql!When, Ope!Members, Sql!Members

(* Amazon Q's reader takes the rows of tables as any does.                 *)
LEMMA AmaShares ==
    /\ \A u : Ama!Flattened(u) = FlattenSeq(u)
    /\ \A t : Ama!RowsOf(t) = Sql!RowsOf(t)
    /\ \A f : Ama!TablesOf(f) = Sql!TablesOf(f) /\ Ama!FileRecord(f) = Sql!FileRecord(f)
    /\ \A x : Ama!Stopped(x) = Sql!Stopped(x) /\ Ama!RowAsEvent(x) = Sql!RowAsEvent(x)
<1>1. \A u : Ama!Flattened(u) = FlattenSeq(u)
  BY DEF Ama!Flattened, FlattenSeq
<1>2. \A t : Ama!RowsOf(t) = Sql!RowsOf(t)
  BY DEF Ama!RowsOf, Sql!RowsOf, Ama!When, Sql!When, Ama!Lesser, Sql!Lesser, Ama!RowLocator, Sql!RowLocator
<1>3. \A f : Ama!TablesOf(f) = Sql!TablesOf(f)
  BY DEF Ama!TablesOf, Sql!TablesOf, Ama!Sidecar, Sql!Sidecar
<1>4. \A f : Ama!FileRecord(f) = Sql!FileRecord(f)
  BY DEF Ama!FileRecord, Sql!FileRecord, Ama!Sidecar, Sql!Sidecar, Ama!Unparsed, Sql!Unparsed, Ama!Ev, Sql!Ev,
         Ama!File, Sql!File, Ama!NoStamp, Sql!NoStamp
<1>5. \A x : Ama!Stopped(x) = Sql!Stopped(x)
  BY DEF Ama!Stopped, Sql!Stopped, Ama!Unparsed, Sql!Unparsed, Ama!Ev, Sql!Ev, Ama!NoStamp, Sql!NoStamp
<1>6. \A x : Ama!RowAsEvent(x) = Sql!RowAsEvent(x)
  BY DEF Ama!RowAsEvent, Sql!RowAsEvent, Ama!Unparsed, Sql!Unparsed, Ama!Ev, Sql!Ev, Ama!Literal, Sql!Literal,
         Ama!Said, Sql!Said, Ama!SessionColumns, Sql!SessionColumns, Ama!ProjectColumns, Sql!ProjectColumns
<1> QED
  BY <1>1, <1>2, <1>3, <1>4, <1>5, <1>6

(* It takes them in the same order.                                        *)
LEMMA AmaInOrder == \A t, n : Ama!InOrder(t, n) = Sql!InOrder(t, n)
<1>1. \A t : Ama!RowsOfAll(t) = FlattenSeq([i \in DOMAIN t |-> Sql!RowsOf(t[i])])
  BY AmaShares DEF Ama!RowsOfAll
<1>2. \A t : Sql!RowsOfAll(t) = FlattenSeq([i \in DOMAIN t |-> Sql!RowsOf(t[i])])
  BY ReadersFlatten DEF Sql!RowsOfAll
<1> QED
  BY <1>1, <1>2, AmaShares, ReadersFlatten
  DEF Ama!InOrder, Sql!InOrder, Ama!Those, Sql!Those, Ama!When, Sql!When, Ama!Members, Sql!Members

(* Hermes's reader takes the rows of tables as any does.                   *)
LEMMA HerShares ==
    /\ \A u : Her!Flattened(u) = FlattenSeq(u)
    /\ \A t : Her!RowsOf(t) = Sql!RowsOf(t)
    /\ \A f : Her!TablesOf(f) = Sql!TablesOf(f) /\ Her!FileRecord(f) = Sql!FileRecord(f)
    /\ \A x : Her!Stopped(x) = Sql!Stopped(x) /\ Her!RowAsEvent(x) = Sql!RowAsEvent(x)
<1>1. \A u : Her!Flattened(u) = FlattenSeq(u)
  BY DEF Her!Flattened, FlattenSeq
<1>2. \A t : Her!RowsOf(t) = Sql!RowsOf(t)
  BY DEF Her!RowsOf, Sql!RowsOf, Her!When, Sql!When, Her!Lesser, Sql!Lesser, Her!RowLocator, Sql!RowLocator
<1>3. \A f : Her!TablesOf(f) = Sql!TablesOf(f)
  BY DEF Her!TablesOf, Sql!TablesOf, Her!Sidecar, Sql!Sidecar
<1>4. \A f : Her!FileRecord(f) = Sql!FileRecord(f)
  BY DEF Her!FileRecord, Sql!FileRecord, Her!Sidecar, Sql!Sidecar, Her!Unparsed, Sql!Unparsed, Her!Ev, Sql!Ev,
         Her!File, Sql!File, Her!NoStamp, Sql!NoStamp
<1>5. \A x : Her!Stopped(x) = Sql!Stopped(x)
  BY DEF Her!Stopped, Sql!Stopped, Her!Unparsed, Sql!Unparsed, Her!Ev, Sql!Ev, Her!NoStamp, Sql!NoStamp
<1>6. \A x : Her!RowAsEvent(x) = Sql!RowAsEvent(x)
  BY DEF Her!RowAsEvent, Sql!RowAsEvent, Her!Unparsed, Sql!Unparsed, Her!Ev, Sql!Ev, Her!Literal, Sql!Literal,
         Her!Said, Sql!Said, Her!SessionColumns, Sql!SessionColumns, Her!ProjectColumns, Sql!ProjectColumns
<1> QED
  BY <1>1, <1>2, <1>3, <1>4, <1>5, <1>6

(* It takes them in the same order.                                        *)
LEMMA HerInOrder == \A t, n : Her!InOrder(t, n) = Sql!InOrder(t, n)
<1>1. \A t : Her!RowsOfAll(t) = FlattenSeq([i \in DOMAIN t |-> Sql!RowsOf(t[i])])
  BY HerShares DEF Her!RowsOfAll
<1>2. \A t : Sql!RowsOfAll(t) = FlattenSeq([i \in DOMAIN t |-> Sql!RowsOf(t[i])])
  BY ReadersFlatten DEF Sql!RowsOfAll
<1> QED
  BY <1>1, <1>2, HerShares, ReadersFlatten
  DEF Her!InOrder, Sql!InOrder, Her!Those, Sql!Those, Her!When, Sql!When, Her!Members, Sql!Members

(* Zed's reader takes the rows of tables as any does.                      *)
LEMMA ZedShares ==
    /\ \A u : Zed!Flattened(u) = FlattenSeq(u)
    /\ \A t : Zed!RowsOf(t) = Sql!RowsOf(t)
    /\ \A f : Zed!TablesOf(f) = Sql!TablesOf(f) /\ Zed!FileRecord(f) = Sql!FileRecord(f)
    /\ \A x : Zed!Stopped(x) = Sql!Stopped(x) /\ Zed!RowAsEvent(x) = Sql!RowAsEvent(x)
<1>1. \A u : Zed!Flattened(u) = FlattenSeq(u)
  BY DEF Zed!Flattened, FlattenSeq
<1>2. \A t : Zed!RowsOf(t) = Sql!RowsOf(t)
  BY DEF Zed!RowsOf, Sql!RowsOf, Zed!When, Sql!When, Zed!Lesser, Sql!Lesser, Zed!RowLocator, Sql!RowLocator
<1>3. \A f : Zed!TablesOf(f) = Sql!TablesOf(f)
  BY DEF Zed!TablesOf, Sql!TablesOf, Zed!Sidecar, Sql!Sidecar
<1>4. \A f : Zed!FileRecord(f) = Sql!FileRecord(f)
  BY DEF Zed!FileRecord, Sql!FileRecord, Zed!Sidecar, Sql!Sidecar, Zed!Unparsed, Sql!Unparsed, Zed!Ev, Sql!Ev,
         Zed!File, Sql!File, Zed!NoStamp, Sql!NoStamp
<1>5. \A x : Zed!Stopped(x) = Sql!Stopped(x)
  BY DEF Zed!Stopped, Sql!Stopped, Zed!Unparsed, Sql!Unparsed, Zed!Ev, Sql!Ev, Zed!NoStamp, Sql!NoStamp
<1>6. \A x : Zed!RowAsEvent(x) = Sql!RowAsEvent(x)
  BY DEF Zed!RowAsEvent, Sql!RowAsEvent, Zed!Unparsed, Sql!Unparsed, Zed!Ev, Sql!Ev, Zed!Literal, Sql!Literal,
         Zed!Said, Sql!Said, Zed!SessionColumns, Sql!SessionColumns, Zed!ProjectColumns, Sql!ProjectColumns
<1> QED
  BY <1>1, <1>2, <1>3, <1>4, <1>5, <1>6

(* It takes them in the same order.                                        *)
LEMMA ZedInOrder == \A t, n : Zed!InOrder(t, n) = Sql!InOrder(t, n)
<1>1. \A t : Zed!RowsOfAll(t) = FlattenSeq([i \in DOMAIN t |-> Sql!RowsOf(t[i])])
  BY ZedShares DEF Zed!RowsOfAll
<1>2. \A t : Sql!RowsOfAll(t) = FlattenSeq([i \in DOMAIN t |-> Sql!RowsOf(t[i])])
  BY ReadersFlatten DEF Sql!RowsOfAll
<1> QED
  BY <1>1, <1>2, ZedShares, ReadersFlatten
  DEF Zed!InOrder, Sql!InOrder, Zed!Those, Sql!Those, Zed!When, Sql!When, Zed!Members, Sql!Members

(* The editor's reader takes the rows of tables as any does.              *)
LEMMA EdiShares ==
    /\ \A u : Edi!Flattened(u) = FlattenSeq(u)
    /\ \A t : Edi!RowsOf(t) = Sql!RowsOf(t)
    /\ \A f : Edi!TablesOf(f) = Sql!TablesOf(f) /\ Edi!FileRecord(f) = Sql!FileRecord(f)
    /\ \A x : Edi!Stopped(x) = Sql!Stopped(x) /\ Edi!RowAsEvent(x) = Sql!RowAsEvent(x)
<1>1. \A u : Edi!Flattened(u) = FlattenSeq(u)
  BY DEF Edi!Flattened, FlattenSeq
<1>2. \A t : Edi!RowsOf(t) = Sql!RowsOf(t)
  BY DEF Edi!RowsOf, Sql!RowsOf, Edi!When, Sql!When, Edi!Lesser, Sql!Lesser, Edi!RowLocator, Sql!RowLocator
<1>3. \A f : Edi!TablesOf(f) = Sql!TablesOf(f)
  BY DEF Edi!TablesOf, Sql!TablesOf, Edi!Sidecar, Sql!Sidecar
<1>4. \A f : Edi!FileRecord(f) = Sql!FileRecord(f)
  BY DEF Edi!FileRecord, Sql!FileRecord, Edi!Sidecar, Sql!Sidecar, Edi!Unparsed, Sql!Unparsed, Edi!Ev, Sql!Ev,
         Edi!File, Sql!File, Edi!NoStamp, Sql!NoStamp
<1>5. \A x : Edi!Stopped(x) = Sql!Stopped(x)
  BY DEF Edi!Stopped, Sql!Stopped, Edi!Unparsed, Sql!Unparsed, Edi!Ev, Sql!Ev, Edi!NoStamp, Sql!NoStamp
<1>6. \A x : Edi!RowAsEvent(x) = Sql!RowAsEvent(x)
  BY DEF Edi!RowAsEvent, Sql!RowAsEvent, Edi!Unparsed, Sql!Unparsed, Edi!Ev, Sql!Ev, Edi!Literal, Sql!Literal,
         Edi!Said, Sql!Said, Edi!SessionColumns, Sql!SessionColumns, Edi!ProjectColumns, Sql!ProjectColumns
<1> QED
  BY <1>1, <1>2, <1>3, <1>4, <1>5, <1>6

(* The reader of Codex's stores takes the rows of tables as any does.     *)
LEMMA ThrShares ==
    /\ \A u : Thr!Flattened(u) = FlattenSeq(u)
    /\ \A t : Thr!RowsOf(t) = Sql!RowsOf(t)
    /\ \A f : Thr!TablesOf(f) = Sql!TablesOf(f) /\ Thr!FileRecord(f) = Sql!FileRecord(f)
    /\ \A x : Thr!Stopped(x) = Sql!Stopped(x) /\ Thr!RowAsEvent(x) = Sql!RowAsEvent(x)
<1>1. \A u : Thr!Flattened(u) = FlattenSeq(u)
  BY DEF Thr!Flattened, FlattenSeq
<1>2. \A t : Thr!RowsOf(t) = Sql!RowsOf(t)
  BY DEF Thr!RowsOf, Sql!RowsOf, Thr!When, Sql!When, Thr!Lesser, Sql!Lesser, Thr!RowLocator, Sql!RowLocator
<1>3. \A f : Thr!TablesOf(f) = Sql!TablesOf(f)
  BY DEF Thr!TablesOf, Sql!TablesOf, Thr!Sidecar, Sql!Sidecar
<1>4. \A f : Thr!FileRecord(f) = Sql!FileRecord(f)
  BY DEF Thr!FileRecord, Sql!FileRecord, Thr!Sidecar, Sql!Sidecar, Thr!Unparsed, Sql!Unparsed, Thr!Ev, Sql!Ev,
         Thr!File, Sql!File, Thr!NoStamp, Sql!NoStamp
<1>5. \A x : Thr!Stopped(x) = Sql!Stopped(x)
  BY DEF Thr!Stopped, Sql!Stopped, Thr!Unparsed, Sql!Unparsed, Thr!Ev, Sql!Ev, Thr!NoStamp, Sql!NoStamp
<1>6. \A x : Thr!RowAsEvent(x) = Sql!RowAsEvent(x)
  BY DEF Thr!RowAsEvent, Sql!RowAsEvent, Thr!Unparsed, Sql!Unparsed, Thr!Ev, Sql!Ev, Thr!Literal, Sql!Literal,
         Thr!Said, Sql!Said, Thr!SessionColumns, Sql!SessionColumns, Thr!ProjectColumns, Sql!ProjectColumns
<1> QED
  BY <1>1, <1>2, <1>3, <1>4, <1>5, <1>6

(* -------------------------------------------------------- chosen of lists -- *)

(* Those of a list that meet a test, and where they stood.                 *)
LEMMA ChosenPlaces ==
    ASSUME NEW list, IsList(list), NEW u, u = [i \in DOMAIN list |-> u[i]],
           \A i \in DOMAIN list : u[i] \in {<<>>, <<list[i]>>}
    PROVE  \E place :
              /\ IsList(FlattenSeq(u))
              /\ \A j \in 1..Len(FlattenSeq(u)) :
                    /\ place[j] \in DOMAIN list /\ u[place[j]] # <<>>
                    /\ FlattenSeq(u)[j] = list[place[j]]
              /\ \A j, k \in 1..Len(FlattenSeq(u)) : j < k => place[j] < place[k]
              /\ \A i \in DOMAIN list : u[i] # <<>> => list[i] \in Range(FlattenSeq(u))
<1>1. Len(list) \in Nat /\ DOMAIN list = 1..Len(list)
  BY ListFacts
<1>2. IsList(u) /\ Len(u) = Len(list)
  <2>1. u = [i \in 1..Len(list) |-> u[i]]
    BY <1>1
  <2> QED
    BY <1>1, <2>1, MadeIsList
<1>3. \A i \in 1..Len(u) : IsList(u[i]) /\ Len(u[i]) \in 0..1 /\ (u[i] # <<>> => u[i] = <<list[i]>> /\ Len(u[i]) = 1)
  BY <1>1, <1>2, ShortLists
<1>4. AreLists(u)
  BY <1>2, <1>3 DEF AreLists
<1>5. /\ IsList(FlattenSeq(u))
      /\ Range(FlattenSeq(u)) = UNION {Range(u[i]) : i \in 1..Len(u)}
  BY <1>4, FlattenFacts
<1> DEFINE s == FlattenSeq(u)
<1>6. PICK of, in :
         /\ \A j \in 1..Len(s) : of[j] \in 1..Len(u) /\ in[j] \in 1..Len(u[of[j]]) /\ s[j] = u[of[j]][in[j]]
         /\ \A j, k \in 1..Len(s) : j < k => of[j] < of[k] \/ (of[j] = of[k] /\ in[j] < in[k])
  BY <1>4, FlattenPlaces
<1> HIDE DEF s
<1>7. ASSUME NEW j \in 1..Len(s)
      PROVE  of[j] \in DOMAIN list /\ u[of[j]] # <<>> /\ in[j] = 1 /\ s[j] = list[of[j]]
  <2>1. of[j] \in 1..Len(u) /\ in[j] \in 1..Len(u[of[j]]) /\ s[j] = u[of[j]][in[j]]
    BY <1>6
  <2>2. u[of[j]] = <<list[of[j]]>> /\ Len(u[of[j]]) = 1
    BY <2>1, <1>3, ShortLists
  <2>3. in[j] = 1
    BY <2>1, <2>2
  <2> QED
    BY <1>1, <1>2, <2>1, <2>2, <2>3, ShortLists
<1>8. \A j, k \in 1..Len(s) : j < k => of[j] < of[k]
  <2> SUFFICES ASSUME NEW j \in 1..Len(s), NEW k \in 1..Len(s), j < k
               PROVE  of[j] < of[k]
    OBVIOUS
  <2>1. in[j] = 1 /\ in[k] = 1
    BY <1>7
  <2> QED
    BY <1>6, <2>1
<1>9. \A i \in DOMAIN list : u[i] # <<>> => list[i] \in Range(s)
  <2> SUFFICES ASSUME NEW i \in DOMAIN list, u[i] # <<>>
               PROVE  list[i] \in Range(s)
    OBVIOUS
  <2>1. u[i] = <<list[i]>> /\ i \in 1..Len(u)
    BY <1>1, <1>2, <1>3
  <2>2. Range(u[i]) = {list[i]}
    BY <2>1, ShortLists
  <2> QED
    BY <1>5, <2>1, <2>2 DEF s
<1> QED
  BY <1>5, <1>7, <1>8, <1>9 DEF s

(* A list of lists in which no two have an item of one place, and none has *)
(* two of it.                                                              *)
LEMMA FlattenOnce ==
    ASSUME NEW u, AreLists(u),
           \A i \in 1..Len(u) : \A j, k \in 1..Len(u[i]) : j < k => u[i][j].at # u[i][k].at,
           \A i, j \in 1..Len(u) : i < j => \A x \in Range(u[i]), y \in Range(u[j]) : x.at # y.at
    PROVE  \A j, k \in 1..Len(FlattenSeq(u)) : j < k => FlattenSeq(u)[j].at # FlattenSeq(u)[k].at
<1> DEFINE s == FlattenSeq(u)
<1>1. PICK of, in :
         /\ \A j \in 1..Len(s) : of[j] \in 1..Len(u) /\ in[j] \in 1..Len(u[of[j]]) /\ s[j] = u[of[j]][in[j]]
         /\ \A j, k \in 1..Len(s) : j < k => of[j] < of[k] \/ (of[j] = of[k] /\ in[j] < in[k])
  BY FlattenPlaces
<1> HIDE DEF s
<1> SUFFICES ASSUME NEW j \in 1..Len(s), NEW k \in 1..Len(s), j < k
             PROVE  s[j].at # s[k].at
  BY DEF s
<1>2. of[j] \in 1..Len(u) /\ of[k] \in 1..Len(u) /\ s[j] = u[of[j]][in[j]] /\ s[k] = u[of[k]][in[k]]
      /\ in[j] \in 1..Len(u[of[j]]) /\ in[k] \in 1..Len(u[of[k]])
  BY <1>1
<1>3. CASE of[j] < of[k]
  <2>1. IsList(u[of[j]]) /\ IsList(u[of[k]])
    BY <1>2 DEF AreLists
  <2>2. s[j] \in Range(u[of[j]]) /\ s[k] \in Range(u[of[k]])
    BY <1>2, <2>1, ListFacts
  <2> QED
    BY <1>2, <1>3, <2>2
<1>4. CASE of[j] = of[k] /\ in[j] < in[k]
  BY <1>2, <1>4
<1> QED
  BY <1>1, <1>3, <1>4

(* ------------------------------------------------------ tables and rows -- *)

(* A table that a store may have. *)
ATable(t) ==
    /\ IsList(t.rows) /\ t.fails \in Nat
    /\ \A i \in 1..Len(t.rows) : t.rows[i].rowid \in Nat \ {0}
    /\ \A i, j \in 1..Len(t.rows) : i < j => t.rows[i].rowid < t.rows[j].rowid

(* How many of its rows are read. *)
Reach(t) == Sql!Lesser(Len(t.rows), Sql!Lesser(t.fails, MaxRows))

(* A row of it is one item, and so is that reading ended before its end.   *)
IsRowOf(x, t) ==
    /\ x.table = t.name /\ x.stopped = FALSE
    /\ \E i \in 1..Reach(t) : x.row = t.rows[i] /\ x.at = Sql!RowLocator(t, i)
IsStopOf(x, t) == x.table = t.name /\ x.stopped = TRUE /\ x.at = <<t.name, 0>> /\ x.row = Null

(* How far it is read.                                                     *)
LEMMA Reaching ==
    ASSUME NEW t, ATable(t)
    PROVE  /\ Reach(t) \in Nat /\ Reach(t) <= Len(t.rows) /\ Reach(t) <= t.fails /\ Reach(t) <= MaxRows
           /\ Len(t.rows) \in Nat
           /\ Reach(t) = Len(t.rows) \/ Reach(t) = t.fails \/ Reach(t) = MaxRows
<1>1. Len(t.rows) \in Nat /\ t.fails \in Nat /\ MaxRows \in Nat
  BY ListFacts, Bounds DEF ATable
<1> QED
  BY <1>1 DEF Reach, Sql!Lesser

(* Its rows have places of their own, and none of them is that of a stop.  *)
LEMMA RowPlaces ==
    ASSUME NEW t, ATable(t)
    PROVE  /\ \A i \in 1..Len(t.rows) :
                 Sql!RowLocator(t, i)[1] = t.name /\ Sql!RowLocator(t, i) # <<t.name, 0>>
           /\ \A i, j \in 1..Len(t.rows) : i < j => Sql!RowLocator(t, i) # Sql!RowLocator(t, j)
<1>1. \A i \in 1..Len(t.rows) : Sql!RowLocator(t, i) = <<t.name, IF t.rowid THEN t.rows[i].rowid ELSE i>>
  BY DEF Sql!RowLocator
<1>2. Len(t.rows) \in Nat
  BY ListFacts DEF ATable
<1>3. CASE t.rowid
  <2>1. \A i \in 1..Len(t.rows) : Sql!RowLocator(t, i) = <<t.name, t.rows[i].rowid>>
    BY <1>1, <1>3
  <2> QED
    BY <1>2, <2>1 DEF ATable
<1>4. CASE ~t.rowid
  <2>1. \A i \in 1..Len(t.rows) : Sql!RowLocator(t, i) = <<t.name, i>>
    BY <1>1, <1>4
  <2> QED
    BY <1>2, <2>1
<1> QED
  BY <1>3, <1>4

(* What reading a table gives.                                             *)
LEMMA RowsFacts ==
    ASSUME NEW t, ATable(t)
    PROVE  LET r == Sql!RowsOf(t)
           IN  /\ IsList(r)
               /\ \A i, j \in 1..Len(r) : i < j => r[i].at # r[j].at
               /\ \A x \in Range(r) : IsRowOf(x, t) \/ IsStopOf(x, t)
               /\ \A i \in 1..Reach(t) :
                    \E x \in Range(r) : x.row = t.rows[i] /\ x.at = Sql!RowLocator(t, i) /\ IsRowOf(x, t)
               /\ Reach(t) < Len(t.rows) => \E x \in Range(r) : IsStopOf(x, t)
<1> DEFINE stop == [table |-> t.name, at |-> <<t.name, 0>>, row |-> Null, stopped |-> TRUE]
           item(i) == [table |-> t.name, at |-> Sql!RowLocator(t, i), row |-> t.rows[i], stopped |-> FALSE]
           a == [i \in 1..Reach(t) |-> item(i)]
           b == IF Reach(t) < Len(t.rows) THEN <<stop>> ELSE <<>>
           r == a \o b
<1>1. Sql!RowsOf(t) = r
  BY DEF Sql!RowsOf, Sql!When, Reach
<1>2. Reach(t) \in Nat /\ Reach(t) <= Len(t.rows) /\ Len(t.rows) \in Nat
  BY Reaching
<1>3. IsList(a) /\ Len(a) = Reach(t) /\ \A i \in 1..Reach(t) : a[i] = item(i)
  BY <1>2, MadeIsList
<1>6. IsStopOf(stop, t)
  BY DEF IsStopOf
<1>7. \A i \in 1..Reach(t) : item(i).row = t.rows[i] /\ item(i).at = Sql!RowLocator(t, i) /\ IsRowOf(item(i), t)
  BY DEF IsRowOf
<1> HIDE DEF stop, item
<1>4. IsList(b) /\ Range(b) \subseteq {stop} /\ Len(b) \in 0..1 /\ (Reach(t) < Len(t.rows) => Range(b) = {stop})
  <2>1. IsList(<<stop>>) /\ Range(<<stop>>) = {stop} /\ Len(<<stop>>) = 1
        /\ IsList(<<>>) /\ Range(<<>>) = {} /\ Len(<<>>) = 0
    BY ShortLists
  <2> QED
    BY <2>1
<1> HIDE DEF a, b
<1>5. Range(a) = {item(i) : i \in 1..Reach(t)}
  <2>1. Range(a) = {a[i] : i \in 1..Reach(t)}
    BY <1>3, ListFacts
  <2> QED
    BY <1>3, <2>1
<1>8. /\ IsList(r) /\ Range(r) = Range(a) \cup Range(b) /\ Len(r) = Len(a) + Len(b)
      /\ \A i \in 1..Len(a) + Len(b) : i \in 1..Len(a) \/ (i - Len(a) \in 1..Len(b) /\ r[i] = b[i - Len(a)])
      /\ \A i \in 1..Len(a) : r[i] = a[i]
  BY <1>3, <1>4, ListsJoin
<1>9. \A i \in 1..Len(b) : b[i] = stop
  <2>1. \A i \in 1..Len(b) : b[i] \in Range(b)
    BY <1>4, ListFacts
  <2> QED
    BY <1>4, <2>1
<1>10. ASSUME NEW i \in 1..Len(r), NEW j \in 1..Len(r), i < j
       PROVE  r[i].at # r[j].at
  <2>1. i \in 1..Len(a)
    BY <1>2, <1>3, <1>4, <1>8, <1>10
  <2>2. r[i].at = Sql!RowLocator(t, i)
    BY <1>3, <1>7, <1>8, <2>1
  <2>3. CASE j \in 1..Len(a)
    <3>1. r[j].at = Sql!RowLocator(t, j)
      BY <1>3, <1>7, <1>8, <2>3
    <3>2. i \in 1..Len(t.rows) /\ j \in 1..Len(t.rows)
      BY <1>2, <1>3, <2>1, <2>3
    <3> QED
      BY <1>10, <2>2, <3>1, <3>2, RowPlaces
  <2>4. CASE j - Len(a) \in 1..Len(b) /\ r[j] = b[j - Len(a)]
    <3>1. r[j].at = <<t.name, 0>>
      BY <1>6, <1>9, <2>4 DEF IsStopOf
    <3>2. i \in 1..Len(t.rows)
      BY <1>2, <1>3, <2>1
    <3> QED
      BY <2>2, <3>1, <3>2, RowPlaces
  <2> QED
    BY <1>8, <2>3, <2>4
<1>11. \A x \in Range(r) : IsRowOf(x, t) \/ IsStopOf(x, t)
  BY <1>4, <1>5, <1>6, <1>7, <1>8
<1>12. \A i \in 1..Reach(t) :
          \E x \in Range(r) : x.row = t.rows[i] /\ x.at = Sql!RowLocator(t, i) /\ IsRowOf(x, t)
  BY <1>5, <1>7, <1>8
<1>13. Reach(t) < Len(t.rows) => \E x \in Range(r) : IsStopOf(x, t)
  BY <1>4, <1>6, <1>8
<1> HIDE DEF r
<1> QED
  BY <1>1, <1>8, <1>10, <1>11, <1>12, <1>13

(* What is taken of some tables: each row that is read, and that reading   *)
(* ended, once.                                                            *)
Takes(list, tables) ==
    /\ IsList(list) /\ \A i, j \in 1..Len(list) : i < j => list[i].at # list[j].at
    /\ \A x \in Range(list) : \E t \in tables : IsRowOf(x, t) \/ IsStopOf(x, t)
    /\ \A t \in tables :
          /\ \A i \in 1..Reach(t) :
                \E x \in Range(list) : x.row = t.rows[i] /\ x.at = Sql!RowLocator(t, i) /\ IsRowOf(x, t)
          /\ Reach(t) < Len(t.rows) => \E x \in Range(list) : IsStopOf(x, t)

(* One table.                                                              *)
LEMMA OneTable ==
    ASSUME NEW t, ATable(t)
    PROVE  Takes(Sql!RowsOf(t), {t})
BY RowsFacts DEF Takes

(* An item is at a place of its table.                                     *)
LEMMA InItsTable ==
    ASSUME NEW t, ATable(t), NEW x, IsRowOf(x, t) \/ IsStopOf(x, t)
    PROVE  /\ x.table = t.name /\ x.at[1] = t.name
           /\ (x.at = <<t.name, 0>> <=> x.stopped = TRUE) /\ x.stopped \in BOOLEAN
<1>1. CASE IsStopOf(x, t)
  <2>1. x.table = t.name /\ x.at = <<t.name, 0>>
    BY <1>1 DEF IsStopOf
  <2>2. x.at[1] = t.name
    BY <2>1
  <2>3. x.stopped = TRUE
    BY <1>1, Zenon DEF IsStopOf
  <2> HIDE DEF IsStopOf
  <2> QED
    BY <2>1, <2>2, <2>3, Zenon
<1>2. CASE IsRowOf(x, t)
  <2>1. PICK i \in 1..Reach(t) : x.at = Sql!RowLocator(t, i)
    BY <1>2 DEF IsRowOf
  <2>2. i \in 1..Len(t.rows)
    BY <2>1, Reaching
  <2>3. x.at[1] = t.name /\ x.at # <<t.name, 0>>
    BY <2>1, <2>2, RowPlaces
  <2>4. x.table = t.name /\ x.stopped = FALSE
    BY <1>2, Zenon DEF IsRowOf
  <2> QED
    BY <2>3, <2>4, Zenon
<1> QED
  BY <1>1, <1>2

(* Some tables, and others after them.                                     *)
LEMMA TakesJoin ==
    ASSUME NEW S, NEW T, NEW a, NEW b, Takes(a, S), Takes(b, T),
           \A s \in S : ATable(s), \A t \in T : ATable(t), \A s \in S, t \in T : s.name # t.name
    PROVE  Takes(a \o b, S \cup T)
<1>1. /\ IsList(a \o b) /\ Range(a \o b) = Range(a) \cup Range(b) /\ Len(a \o b) = Len(a) + Len(b)
      /\ Len(a) \in Nat /\ Len(b) \in Nat
      /\ \A i \in 1..Len(a) + Len(b) : i \in 1..Len(a) \/ (i - Len(a) \in 1..Len(b) /\ (a \o b)[i] = b[i - Len(a)])
      /\ \A i \in 1..Len(a) : (a \o b)[i] = a[i] /\ a[i] \in Range(a)
      /\ \A i \in 1..Len(b) : b[i] \in Range(b)
  BY ListsJoin, ListFacts DEF Takes
<1>2. \A x \in Range(a), y \in Range(b) : x.at # y.at
  <2> SUFFICES ASSUME NEW x \in Range(a), NEW y \in Range(b) PROVE x.at # y.at
    OBVIOUS
  <2>1. PICK s \in S : IsRowOf(x, s) \/ IsStopOf(x, s)
    BY DEF Takes
  <2>2. PICK t \in T : IsRowOf(y, t) \/ IsStopOf(y, t)
    BY DEF Takes
  <2>3. x.at[1] = s.name /\ y.at[1] = t.name
    BY <2>1, <2>2, InItsTable
  <2> QED
    BY <2>3
<1>3. ASSUME NEW i \in 1..Len(a \o b), NEW j \in 1..Len(a \o b), i < j
      PROVE  (a \o b)[i].at # (a \o b)[j].at
  <2>1. CASE i \in 1..Len(a) /\ j \in 1..Len(a)
    BY <1>1, <1>3, <2>1 DEF Takes
  <2>2. CASE i \in 1..Len(a) /\ j \notin 1..Len(a)
    BY <1>1, <1>2, <2>2
  <2>3. CASE i \notin 1..Len(a)
    <3>1. i - Len(a) \in 1..Len(b) /\ (a \o b)[i] = b[i - Len(a)]
      BY <1>1, <2>3
    <3>2. j \notin 1..Len(a)
      BY <1>1, <1>3, <2>3
    <3>3. j - Len(a) \in 1..Len(b) /\ (a \o b)[j] = b[j - Len(a)]
      BY <1>1, <3>2
    <3>4. i - Len(a) < j - Len(a)
      BY <1>1, <1>3
    <3> QED
      BY <3>1, <3>3, <3>4 DEF Takes
  <2> QED
    BY <2>1, <2>2, <2>3
<1> QED
  BY <1>1, <1>3 DEF Takes

(* Many of them, one after the other.                                      *)
LEMMA FlattenTakes ==
    ASSUME NEW u, IsList(u), NEW S, \A i \in 1..Len(u) : Takes(u[i], S[i]) /\ \A t \in S[i] : ATable(t),
           \A i, j \in 1..Len(u) : i < j => \A s \in S[i], t \in S[j] : s.name # t.name
    PROVE  Takes(FlattenSeq(u), UNION {S[i] : i \in 1..Len(u)})
<1>1. AreLists(u)
  BY DEF AreLists, Takes
<1>2. IsList(FlattenSeq(u)) /\ Range(FlattenSeq(u)) = UNION {Range(u[i]) : i \in 1..Len(u)}
  BY <1>1, FlattenFacts
<1>3. \A i, j \in 1..Len(u) : i < j => \A x \in Range(u[i]), y \in Range(u[j]) : x.at # y.at
  <2> SUFFICES ASSUME NEW i \in 1..Len(u), NEW j \in 1..Len(u), i < j, NEW x \in Range(u[i]), NEW y \in Range(u[j])
               PROVE  x.at # y.at
    OBVIOUS
  <2>1. PICK s \in S[i] : IsRowOf(x, s) \/ IsStopOf(x, s)
    BY DEF Takes
  <2>2. PICK t \in S[j] : IsRowOf(y, t) \/ IsStopOf(y, t)
    BY DEF Takes
  <2>3. ATable(s) /\ ATable(t)
    BY <2>1, <2>2
  <2>4. x.at[1] = s.name /\ y.at[1] = t.name
    BY <2>1, <2>2, <2>3, InItsTable
  <2>5. s.name # t.name
    BY <2>1, <2>2
  <2> QED
    BY <2>4, <2>5
<1>4. \A i \in 1..Len(u) : \A j, k \in 1..Len(u[i]) : j < k => u[i][j].at # u[i][k].at
  BY DEF Takes
<1>5. \A j, k \in 1..Len(FlattenSeq(u)) : j < k => FlattenSeq(u)[j].at # FlattenSeq(u)[k].at
  BY <1>1, <1>3, <1>4, FlattenOnce
<1>6. \A x \in Range(FlattenSeq(u)) : \E t \in UNION {S[i] : i \in 1..Len(u)} : IsRowOf(x, t) \/ IsStopOf(x, t)
  <2> SUFFICES ASSUME NEW i \in 1..Len(u), NEW x \in Range(u[i])
               PROVE  \E t \in UNION {S[k] : k \in 1..Len(u)} : IsRowOf(x, t) \/ IsStopOf(x, t)
    BY <1>2
  <2>1. PICK t \in S[i] : IsRowOf(x, t) \/ IsStopOf(x, t)
    BY DEF Takes
  <2> QED
    BY <2>1
<1>7. ASSUME NEW i \in 1..Len(u), NEW t \in S[i]
      PROVE  /\ \A n \in 1..Reach(t) :
                   \E x \in Range(FlattenSeq(u)) :
                      x.row = t.rows[n] /\ x.at = Sql!RowLocator(t, n) /\ IsRowOf(x, t)
             /\ Reach(t) < Len(t.rows) => \E x \in Range(FlattenSeq(u)) : IsStopOf(x, t)
  <2>1. Range(u[i]) \subseteq Range(FlattenSeq(u))
    BY <1>2
  <2> QED
    BY <2>1 DEF Takes
<1> QED
  BY <1>2, <1>5, <1>6, <1>7, SMTT(30) DEF Takes

(* The tables of a store: each has a name of its own.                      *)
Tables(tables) ==
    /\ IsList(tables) /\ \A t \in Range(tables) : ATable(t)
    /\ \A i, j \in 1..Len(tables) : i < j => tables[i].name # tables[j].name

(* Each of them taken, one after the other.                                *)
LEMMA EachOfThem ==
    ASSUME NEW tables, Tables(tables), NEW u, u = [i \in DOMAIN tables |-> u[i]],
           \A i \in 1..Len(tables) : Takes(u[i], {tables[i]})
    PROVE  Takes(FlattenSeq(u), Range(tables)) /\ Range(FlattenSeq(u)) = UNION {Range(u[i]) : i \in 1..Len(tables)}
<1> DEFINE S == [i \in DOMAIN tables |-> {tables[i]}]
<1>1. /\ DOMAIN tables = 1..Len(tables) /\ Len(tables) \in Nat
      /\ Range(tables) = {tables[i] : i \in 1..Len(tables)} /\ \A i \in 1..Len(tables) : tables[i] \in Range(tables)
  BY ListFacts DEF Tables
<1>2. u = [i \in 1..Len(tables) |-> u[i]]
  BY <1>1
<1>3. IsList(u) /\ Len(u) = Len(tables)
  BY <1>1, <1>2, MadeIsList
<1>4. \A i \in 1..Len(tables) : S[i] = {tables[i]} /\ ATable(tables[i])
  BY <1>1 DEF Tables
<1> HIDE DEF S
<1>6. \A i \in 1..Len(u) : Takes(u[i], S[i]) /\ \A t \in S[i] : ATable(t)
  BY <1>3, <1>4
<1>7. \A i, j \in 1..Len(u) : i < j => \A s \in S[i], t \in S[j] : s.name # t.name
  BY <1>3, <1>4 DEF Tables
<1>8. Takes(FlattenSeq(u), UNION {S[i] : i \in 1..Len(u)})
  BY <1>3, <1>6, <1>7, FlattenTakes, SMTT(30)
<1>9. UNION {S[i] : i \in 1..Len(u)} = Range(tables)
  <2>1. \A t : t \in UNION {S[i] : i \in 1..Len(u)} <=> \E i \in 1..Len(tables) : t = tables[i]
    BY <1>3, <1>4
  <2> QED
    BY <1>1, <2>1
<1>10. AreLists(u)
  BY <1>3, <1>6 DEF AreLists, Takes
<1> QED
  BY <1>3, <1>8, <1>9, <1>10, FlattenFacts

(* All of them.                                                            *)
LEMMA AllOfThem ==
    ASSUME NEW tables, Tables(tables)
    PROVE  Takes(Sql!RowsOfAll(tables), Range(tables))
<1> DEFINE u == [i \in DOMAIN tables |-> Sql!RowsOf(tables[i])]
<1>1. u = [i \in DOMAIN tables |-> u[i]]
  OBVIOUS
<1>2. DOMAIN tables = 1..Len(tables) /\ \A i \in 1..Len(tables) : tables[i] \in Range(tables)
  BY ListFacts DEF Tables
<1>3. \A i \in 1..Len(tables) : u[i] = Sql!RowsOf(tables[i]) /\ ATable(tables[i])
  BY <1>2 DEF Tables
<1>4. Sql!RowsOfAll(tables) = FlattenSeq(u)
  BY ReadersFlatten DEF Sql!RowsOfAll
<1> HIDE DEF u
<1>5. \A i \in 1..Len(tables) : Takes(u[i], {tables[i]})
  BY <1>3, OneTable
<1> QED
  BY <1>1, <1>4, <1>5, EachOfThem

(* Some of them.                                                           *)
LEMMA SomeOfThem ==
    ASSUME NEW tables, Tables(tables), NEW some, NEW u,
           u = [i \in DOMAIN tables |-> u[i]],
           \A i \in DOMAIN tables : u[i] = IF tables[i] \in some THEN <<tables[i]>> ELSE <<>>
    PROVE  Tables(FlattenSeq(u)) /\ Range(FlattenSeq(u)) = Range(tables) \cap some
<1> DEFINE s == FlattenSeq(u)
<1>1. IsList(tables) /\ DOMAIN tables = 1..Len(tables) /\ Len(tables) \in Nat
      /\ Range(tables) = {tables[i] : i \in 1..Len(tables)}
  BY ListFacts DEF Tables
<1>3. \A i \in DOMAIN tables : u[i] \in {<<>>, <<tables[i]>>} /\ (u[i] # <<>> <=> tables[i] \in some)
  BY ShortLists
<1>4. PICK place :
         /\ IsList(s)
         /\ \A j \in 1..Len(s) : place[j] \in DOMAIN tables /\ u[place[j]] # <<>> /\ s[j] = tables[place[j]]
         /\ \A j, k \in 1..Len(s) : j < k => place[j] < place[k]
         /\ \A i \in DOMAIN tables : u[i] # <<>> => tables[i] \in Range(s)
  <2>1. IsList(tables)
    BY <1>1
  <2>2. \A i \in DOMAIN tables : u[i] \in {<<>>, <<tables[i]>>}
    BY <1>3
  <2> QED
    BY <2>1, <2>2, ChosenPlaces
<1> HIDE DEF s
<1>5. Range(s) = {s[j] : j \in 1..Len(s)}
  BY <1>4, ListFacts
<1>6. Range(s) = Range(tables) \cap some
  <2>1. Range(s) \subseteq Range(tables) \cap some
    <3> SUFFICES ASSUME NEW j \in 1..Len(s) PROVE s[j] \in Range(tables) /\ s[j] \in some
      BY <1>5
    <3>1. place[j] \in DOMAIN tables /\ u[place[j]] # <<>> /\ s[j] = tables[place[j]]
      BY <1>4
    <3>2. tables[place[j]] \in some
      BY <1>3, <3>1
    <3> QED
      BY <1>1, <3>1, <3>2
  <2>2. Range(tables) \cap some \subseteq Range(s)
    BY <1>1, <1>3, <1>4
  <2> QED
    BY <2>1, <2>2
<1>7. \A t \in Range(s) : ATable(t)
  BY <1>6 DEF Tables
<1>8. \A j, k \in 1..Len(s) : j < k => s[j].name # s[k].name
  BY <1>1, <1>4 DEF Tables
<1> QED
  BY <1>4, <1>6, <1>7, <1>8 DEF Tables, s

(* What is taken is in the order of these names, and of others after them. *)
Ordered(list, names) ==
    \A j, k \in 1..Len(list) : j < k =>
        \A a \in 1..Len(names) : list[k].table = names[a] => \E b \in 1..a : list[j].table = names[b]

(* Sql!InOrder as it is: the tables that bear each name, and the others.   *)
LEMMA OrderIs ==
    \A tables, names :
        Sql!InOrder(tables, names) =
            FlattenSeq([n \in DOMAIN names |-> Sql!RowsOfAll(FlattenSeq(
                [i \in DOMAIN tables |-> IF tables[i].name = names[n] THEN <<tables[i]>> ELSE <<>>]))])
            \o Sql!RowsOfAll(FlattenSeq(
                [i \in DOMAIN tables |-> IF tables[i].name \notin Range(names) THEN <<tables[i]>> ELSE <<>>]))
<1> TAKE tables, names
<1> DEFINE v == [n \in DOMAIN names |-> [i \in DOMAIN tables |-> IF tables[i].name = names[n] THEN <<tables[i]>> ELSE <<>>]]
           z == [i \in DOMAIN tables |-> IF tables[i].name \notin Range(names) THEN <<tables[i]>> ELSE <<>>]
           w == [n \in DOMAIN names |-> Sql!RowsOfAll(FlattenSeq(v[n]))]
<1>1. Sql!Members(names) = Range(names)
  BY DEF Sql!Members, Range
<1>2. ASSUME NEW n \in DOMAIN names
      PROVE  Sql!Flattened([i \in DOMAIN tables |-> Sql!When(tables[i].name = names[n], <<tables[i]>>)]) = FlattenSeq(v[n])
  <2>1. [i \in DOMAIN tables |-> Sql!When(tables[i].name = names[n], <<tables[i]>>)] = v[n]
    BY DEF Sql!When
  <2> QED
    BY <2>1, ReadersFlatten
<1>3. Sql!Flattened([i \in DOMAIN tables |-> Sql!When(tables[i].name \notin Sql!Members(names), <<tables[i]>>)]) = FlattenSeq(z)
  <2>1. [i \in DOMAIN tables |-> Sql!When(tables[i].name \notin Sql!Members(names), <<tables[i]>>)] = z
    BY <1>1 DEF Sql!When
  <2> QED
    BY <2>1, ReadersFlatten
<1>4. [n \in DOMAIN names |->
          Sql!RowsOfAll(Sql!Flattened([i \in DOMAIN tables |-> Sql!When(tables[i].name = names[n], <<tables[i]>>)]))] = w
  BY <1>2
<1>5. w = [n \in DOMAIN names |-> Sql!RowsOfAll(FlattenSeq(
              [i \in DOMAIN tables |-> IF tables[i].name = names[n] THEN <<tables[i]>> ELSE <<>>]))]
  OBVIOUS
<1> HIDE DEF v, w
<1>6. Sql!InOrder(tables, names) = FlattenSeq(w) \o Sql!RowsOfAll(FlattenSeq(z))
  <2> HIDE DEF z
  <2> QED
    BY <1>3, <1>4, ReadersFlatten DEF Sql!InOrder, Sql!Those
<1> QED
  BY <1>5, <1>6

(* Taken in the order of some names, the tables are all taken, and in that *)
(* order.                                                                  *)
LEMMA InOrderTakes ==
    ASSUME NEW tables, Tables(tables), NEW names, IsList(names),
           \A a, b \in 1..Len(names) : a < b => names[a] # names[b]
    PROVE  Takes(Sql!InOrder(tables, names), Range(tables)) /\ Ordered(Sql!InOrder(tables, names), names)
<1>0. IsList(tables) /\ DOMAIN tables = 1..Len(tables) /\ Len(tables) \in Nat
      /\ DOMAIN names = 1..Len(names) /\ Len(names) \in Nat /\ Range(names) = {names[n] : n \in 1..Len(names)}
  BY ListFacts DEF Tables
<1> DEFINE v == [n \in DOMAIN names |-> [i \in DOMAIN tables |-> IF tables[i].name = names[n] THEN <<tables[i]>> ELSE <<>>]]
           z == [i \in DOMAIN tables |-> IF tables[i].name \notin Range(names) THEN <<tables[i]>> ELSE <<>>]
           w == [n \in DOMAIN names |-> Sql!RowsOfAll(FlattenSeq(v[n]))]
<1>1. /\ w = [n \in DOMAIN names |-> w[n]] /\ \A n \in DOMAIN names : w[n] = Sql!RowsOfAll(FlattenSeq(v[n]))
      /\ \A n \in DOMAIN names :
            /\ v[n] = [i \in DOMAIN tables |-> v[n][i]]
            /\ \A i \in DOMAIN tables : v[n][i] = IF tables[i].name = names[n] THEN <<tables[i]>> ELSE <<>>
      /\ z = [i \in DOMAIN tables |-> z[i]]
      /\ \A i \in DOMAIN tables : z[i] = IF tables[i].name \notin Range(names) THEN <<tables[i]>> ELSE <<>>
  OBVIOUS
<1>22. Sql!InOrder(tables, names) = FlattenSeq(w) \o Sql!RowsOfAll(FlattenSeq(z))
  <2>1. w = [n \in DOMAIN names |-> Sql!RowsOfAll(FlattenSeq(
                [i \in DOMAIN tables |-> IF tables[i].name = names[n] THEN <<tables[i]>> ELSE <<>>]))]
    OBVIOUS
  <2> HIDE DEF w
  <2> QED
    BY <2>1, OrderIs
<1> HIDE DEF v, w, z
<1> DEFINE S == [n \in 1..Len(names) |-> {t \in Range(tables) : t.name = names[n]}]
           Rest == {t \in Range(tables) : t.name \notin Range(names)}
<1>2. IsList(w) /\ Len(w) = Len(names)
  <2>1. w = [n \in 1..Len(names) |-> w[n]]
    BY <1>0, <1>1
  <2> QED
    BY <1>0, <2>1, MadeIsList
<1>3. \A t : t \in Range(tables) => ATable(t)
  BY DEF Tables
<1>4. ASSUME NEW n \in 1..Len(names)
      PROVE  Takes(w[n], S[n])
  <2> DEFINE u == v[n]
             some == {t \in Range(tables) : t.name = names[n]}
  <2>1. \A i \in DOMAIN tables : tables[i] \in some <=> tables[i].name = names[n]
    BY <1>0, ListFacts
  <2>2. /\ u = [i \in DOMAIN tables |-> u[i]]
        /\ \A i \in DOMAIN tables : u[i] = IF tables[i] \in some THEN <<tables[i]>> ELSE <<>>
    BY <1>0, <1>1, <2>1
  <2>3. w[n] = Sql!RowsOfAll(FlattenSeq(u))
    BY <1>0, <1>1
  <2>4. S[n] = Range(tables) \cap some
    OBVIOUS
  <2> HIDE DEF u, some, S
  <2>5. Tables(FlattenSeq(u)) /\ Range(FlattenSeq(u)) = Range(tables) \cap some
    BY <2>2, SomeOfThem
  <2> QED
    BY <2>3, <2>4, <2>5, AllOfThem
<1>5. Takes(Sql!RowsOfAll(FlattenSeq(z)), Rest)
  <2>1. \A i \in DOMAIN tables : tables[i] \in Rest <=> tables[i].name \notin Range(names)
    BY <1>0, ListFacts
  <2>2. /\ z = [i \in DOMAIN tables |-> z[i]]
        /\ \A i \in DOMAIN tables : z[i] = IF tables[i] \in Rest THEN <<tables[i]>> ELSE <<>>
    BY <1>1, <2>1
  <2>3. Rest = Range(tables) \cap Rest
    OBVIOUS
  <2> HIDE DEF Rest
  <2>4. Tables(FlattenSeq(z)) /\ Range(FlattenSeq(z)) = Range(tables) \cap Rest
    BY <2>2, SomeOfThem
  <2> QED
    BY <2>3, <2>4, AllOfThem
<1>6. \A n \in 1..Len(names) : S[n] \subseteq Range(tables) /\ \A t \in S[n] : t.name = names[n]
  OBVIOUS
<1>7. Rest \subseteq Range(tables) /\ \A t \in Rest : t.name \notin Range(names)
  OBVIOUS
<1>8. Range(tables) = (UNION {S[n] : n \in 1..Len(names)}) \cup Rest
  <2>1. ASSUME NEW t \in Range(tables), t \notin Rest
        PROVE  \E n \in 1..Len(names) : t \in S[n]
    <3>1. t.name \in Range(names)
      BY <2>1
    <3>2. PICK n \in 1..Len(names) : t.name = names[n]
      BY <1>0, <3>1
    <3> QED
      BY <3>2
  <2> HIDE DEF S, Rest
  <2>2. UNION {S[n] : n \in 1..Len(names)} \subseteq Range(tables)
    BY <1>6
  <2> QED
    BY <1>7, <2>1, <2>2
<1> HIDE DEF S, Rest
<1> DEFINE first == FlattenSeq(w)
           after == Sql!RowsOfAll(FlattenSeq(z))
           All == UNION {S[n] : n \in 1..Len(names)}
<1>9. \A n \in 1..Len(w) : Takes(w[n], S[n]) /\ \A t \in S[n] : ATable(t)
  BY <1>2, <1>3, <1>4, <1>6
<1>10. \A m, n \in 1..Len(w) : m < n => \A s \in S[m], t \in S[n] : s.name # t.name
  BY <1>2, <1>6
<1>11. Takes(first, All)
  BY <1>2, <1>9, <1>10, FlattenTakes
<1>12. \A t \in All : ATable(t) /\ t.name \in Range(names)
  BY <1>0, <1>3, <1>6
<1>13. \A s \in All, t \in Rest : s.name # t.name
  BY <1>7, <1>12
<1>14. \A t \in Rest : ATable(t)
  BY <1>3, <1>7
<1> DEFINE list == first \o after
<1>15. Takes(list, All \cup Rest)
  <2> HIDE DEF first, after, All
  <2> QED
    BY <1>5, <1>11, <1>12, <1>13, <1>14, TakesJoin DEF after
<1>16. AreLists(w)
  BY <1>2, <1>9 DEF AreLists, Takes
<1>17. PICK of, in :
         /\ \A j \in 1..Len(first) : of[j] \in 1..Len(w) /\ in[j] \in 1..Len(w[of[j]]) /\ first[j] = w[of[j]][in[j]]
         /\ \A j, k \in 1..Len(first) : j < k => of[j] < of[k] \/ (of[j] = of[k] /\ in[j] < in[k])
  BY <1>16, FlattenPlaces
<1>18. \A n \in 1..Len(names) : \A i \in 1..Len(w[n]) : w[n][i].table = names[n]
  <2> SUFFICES ASSUME NEW n \in 1..Len(names), NEW i \in 1..Len(w[n]) PROVE w[n][i].table = names[n]
    OBVIOUS
  <2>1. w[n][i] \in Range(w[n])
    BY <1>4, ListFacts DEF Takes
  <2>2. PICK t \in S[n] : IsRowOf(w[n][i], t) \/ IsStopOf(w[n][i], t)
    BY <1>4, <2>1 DEF Takes
  <2>3. w[n][i].table = t.name /\ t.name = names[n]
    BY <1>3, <1>6, <2>2, InItsTable
  <2> QED
    BY <2>3
<1>19. \A x \in Range(after) : x.table \notin Range(names)
  <2> SUFFICES ASSUME NEW x \in Range(after) PROVE x.table \notin Range(names)
    OBVIOUS
  <2>1. PICK t \in Rest : IsRowOf(x, t) \/ IsStopOf(x, t)
    BY <1>5 DEF Takes
  <2>2. x.table = t.name
    BY <1>14, <2>1, InItsTable
  <2> QED
    BY <1>7, <2>2
<1> HIDE DEF first, after, All
<1>20. /\ Len(first) \in Nat /\ Len(after) \in Nat /\ Len(list) = Len(first) + Len(after)
       /\ \A i \in 1..Len(first) : list[i] = first[i]
       /\ \A i \in 1..Len(first) + Len(after) :
             i \in 1..Len(first) \/ (i - Len(first) \in 1..Len(after) /\ list[i] = after[i - Len(first)])
       /\ \A i \in 1..Len(after) : after[i] \in Range(after)
  BY <1>5, <1>11, ListFacts, ListsJoin DEF Takes, after
<1>21. ASSUME NEW j \in 1..Len(list), NEW k \in 1..Len(list), j < k,
              NEW a \in 1..Len(names), list[k].table = names[a]
       PROVE  \E b \in 1..a : list[j].table = names[b]
  <2>1. names[a] \in Range(names)
    BY <1>0
  <2>2. k \in 1..Len(first)
    BY <1>19, <1>20, <1>21, <2>1
  <2>3. j \in 1..Len(first)
    BY <1>20, <1>21, <2>2
  <2>4. /\ of[j] \in 1..Len(names) /\ of[k] \in 1..Len(names)
        /\ list[j].table = names[of[j]] /\ list[k].table = names[of[k]]
    <3>1. ASSUME NEW i \in 1..Len(first)
          PROVE  of[i] \in 1..Len(names) /\ list[i].table = names[of[i]]
      <4>1. of[i] \in 1..Len(names) /\ in[i] \in 1..Len(w[of[i]]) /\ first[i] = w[of[i]][in[i]]
        BY <1>2, <1>17
      <4>2. w[of[i]][in[i]].table = names[of[i]]
        BY <1>18, <4>1
      <4>3. list[i] = first[i]
        BY <1>20
      <4> QED
        BY <4>1, <4>2, <4>3
    <3> QED
      BY <2>2, <2>3, <3>1
  <2>5. of[j] <= of[k]
    BY <1>2, <1>0, <1>17, <1>21, <2>2, <2>3, <2>4
  <2>6. of[k] = a
    <3>1. names[of[k]] = names[a] /\ of[k] \in 1..Len(names)
      BY <1>21, <2>4
    <3> QED
      BY <1>0, <3>1
  <2> QED
    BY <1>0, <2>4, <2>5, <2>6
<1> HIDE DEF list
<1> QED
  BY <1>22, <1>8, <1>15, <1>21 DEF Ordered, list, first, after, All

(* Items that have more to them than those of another list.                *)
LEMMA AlikeTakes ==
    ASSUME NEW base, NEW S, Takes(base, S), NEW list, IsList(list), Len(list) = Len(base),
           \A i \in 1..Len(list) : /\ list[i].table = base[i].table /\ list[i].at = base[i].at
                                   /\ list[i].row = base[i].row /\ list[i].stopped = base[i].stopped
    PROVE  Takes(list, S)
<1>1. /\ Range(list) = {list[i] : i \in 1..Len(list)} /\ Range(base) = {base[i] : i \in 1..Len(base)}
      /\ \A i \in 1..Len(list) : list[i] \in Range(list) /\ base[i] \in Range(base)
  BY ListFacts DEF Takes
<1>2. ASSUME NEW i \in 1..Len(list), NEW t
      PROVE  (IsRowOf(list[i], t) <=> IsRowOf(base[i], t)) /\ (IsStopOf(list[i], t) <=> IsStopOf(base[i], t))
  <2>1. /\ list[i].table = base[i].table /\ list[i].at = base[i].at
        /\ list[i].row = base[i].row /\ list[i].stopped = base[i].stopped
    OBVIOUS
  <2>2. IsRowOf(list[i], t) <=> IsRowOf(base[i], t)
    BY <2>1, Zenon DEF IsRowOf
  <2>3. IsStopOf(list[i], t) <=> IsStopOf(base[i], t)
    BY <2>1, Zenon DEF IsStopOf
  <2> QED
    BY <2>2, <2>3
<1>3. \A i, j \in 1..Len(list) : i < j => list[i].at # list[j].at
  BY DEF Takes
<1>4. \A x \in Range(list) : \E t \in S : IsRowOf(x, t) \/ IsStopOf(x, t)
  <2> SUFFICES ASSUME NEW i \in 1..Len(list) PROVE \E t \in S : IsRowOf(list[i], t) \/ IsStopOf(list[i], t)
    BY <1>1
  <2>1. PICK t \in S : IsRowOf(base[i], t) \/ IsStopOf(base[i], t)
    BY <1>1 DEF Takes
  <2> QED
    BY <1>2, <2>1
<1>5. ASSUME NEW t \in S
      PROVE  /\ \A n \in 1..Reach(t) :
                   \E x \in Range(list) : x.row = t.rows[n] /\ x.at = Sql!RowLocator(t, n) /\ IsRowOf(x, t)
             /\ Reach(t) < Len(t.rows) => \E x \in Range(list) : IsStopOf(x, t)
  <2>1. ASSUME NEW n \in 1..Reach(t)
        PROVE  \E x \in Range(list) : x.row = t.rows[n] /\ x.at = Sql!RowLocator(t, n) /\ IsRowOf(x, t)
    <3>1. PICK i \in 1..Len(list) : base[i].row = t.rows[n] /\ base[i].at = Sql!RowLocator(t, n) /\ IsRowOf(base[i], t)
      BY <1>1, SMTT(30) DEF Takes
    <3>2. list[i].row = t.rows[n] /\ list[i].at = Sql!RowLocator(t, n) /\ IsRowOf(list[i], t)
      BY <1>2, <3>1
    <3> QED
      BY <1>1, <3>2
  <2>2. ASSUME Reach(t) < Len(t.rows)
        PROVE  \E x \in Range(list) : IsStopOf(x, t)
    <3>1. PICK i \in 1..Len(list) : IsStopOf(base[i], t)
      BY <1>1, <2>2 DEF Takes
    <3> QED
      BY <1>1, <1>2, <3>1
  <2> QED
    BY <2>1, <2>2
<1> QED
  BY <1>3, <1>4, <1>5 DEF Takes

(* What there is to an item.                                               *)
LEMMA ItemFields ==
    ASSUME NEW t, NEW i \in 1..Len(Sql!RowsOf(t)), ATable(t)
    PROVE  DOMAIN Sql!RowsOf(t)[i] = {"table", "at", "row", "stopped"}
<1> DEFINE stop == [table |-> t.name, at |-> <<t.name, 0>>, row |-> Null, stopped |-> TRUE]
           item(n) == [table |-> t.name, at |-> Sql!RowLocator(t, n), row |-> t.rows[n], stopped |-> FALSE]
           a == [n \in 1..Reach(t) |-> item(n)]
           b == IF Reach(t) < Len(t.rows) THEN <<stop>> ELSE <<>>
           x == Sql!RowsOf(t)[i]
           fields == {"table", "at", "row", "stopped"}
<1>1. Sql!RowsOf(t) = a \o b
  BY DEF Sql!RowsOf, Sql!When, Reach
<1>2. DOMAIN stop = fields /\ \A n : DOMAIN item(n) = fields
  OBVIOUS
<1> HIDE DEF stop, item
<1>3. IsList(a) /\ Len(a) = Reach(t) /\ \A n \in 1..Reach(t) : a[n] = item(n)
  BY Reaching, MadeIsList
<1>4. IsList(b) /\ \A n \in 1..Len(b) : b[n] = stop
  <2>1. IsList(<<stop>>) /\ IsList(<<>>) /\ Len(<<stop>>) = 1 /\ Len(<<>>) = 0 /\ <<stop>>[1] = stop
    BY ShortLists
  <2> QED
    BY <2>1
<1> HIDE DEF a, b
<1>5. DOMAIN x = fields
  <2>1. /\ Len(a) \in Nat /\ Len(b) \in Nat /\ i \in 1..Len(a) + Len(b)
        /\ \A n \in 1..Len(a) : (a \o b)[n] = a[n]
        /\ \A n \in 1..Len(a) + Len(b) : n \in 1..Len(a) \/ (n - Len(a) \in 1..Len(b) /\ (a \o b)[n] = b[n - Len(a)])
    BY <1>1, <1>3, <1>4, ListsJoin, ListFacts
  <2>2. CASE i \in 1..Len(a)
    BY <1>1, <1>2, <1>3, <2>1, <2>2
  <2>3. CASE i - Len(a) \in 1..Len(b) /\ (a \o b)[i] = b[i - Len(a)]
    BY <1>1, <1>2, <1>4, <2>3
  <2> QED
    BY <2>1, <2>2, <2>3
<1> QED
  BY <1>5

(* What the editor's reader takes: each item, with the folder and whether  *)
(* its table is the vendor's.                                              *)
LEMMA EditorTakes ==
    ASSUME NEW f, Tables(Sql!TablesOf(f))
    PROVE  /\ Takes(Edi!StateItems(f), Range(Sql!TablesOf(f)))
           /\ \A x \in Range(Edi!StateItems(f)) : x.folder = Edi!FolderBeside(f) /\ x.vendors \in BOOLEAN
<1> DEFINE tables == Sql!TablesOf(f)
           folder == Edi!FolderBeside(f)
           own(t) == t.name = Edi!ItemTable /\ Edi!ItemColumns(t)
           tell(t) == [n \in DOMAIN Sql!RowsOf(t) |-> With(With(Sql!RowsOf(t)[n], "folder", folder), "vendors", own(t))]
           u == [i \in DOMAIN tables |-> tell(tables[i])]
<1>1. Edi!StateItems(f) = FlattenSeq(u)
  BY EdiShares DEF Edi!StateItems, Edi!With, With
<1>2. \A t : own(t) \in BOOLEAN
  BY DEF Edi!ItemColumns
<1> HIDE DEF own, folder
<1>3. ASSUME NEW t, ATable(t)
      PROVE  Takes(tell(t), {t}) /\ \A x \in Range(tell(t)) : x.folder = folder /\ x.vendors \in BOOLEAN
  <2> DEFINE r == Sql!RowsOf(t)
             list == tell(t)
  <2>1. Takes(r, {t}) /\ IsList(r) /\ DOMAIN r = 1..Len(r) /\ Len(r) \in Nat
    BY <1>3, OneTable, ListFacts DEF Takes
  <2>2. list = [n \in 1..Len(r) |-> list[n]]
    BY <2>1
  <2>3. IsList(list) /\ Len(list) = Len(r)
    BY <2>1, <2>2, MadeIsList
  <2>4. ASSUME NEW n \in 1..Len(r)
        PROVE  /\ list[n].table = r[n].table /\ list[n].at = r[n].at
               /\ list[n].row = r[n].row /\ list[n].stopped = r[n].stopped
               /\ list[n].folder = folder /\ list[n].vendors = own(t)
    <3> DEFINE x == r[n]
               y == With(x, "folder", folder)
               z == With(y, "vendors", own(t))
    <3>1. /\ DOMAIN x = {"table", "at", "row", "stopped"}
          /\ y.table = x.table /\ y.at = x.at /\ y.row = x.row /\ y.stopped = x.stopped /\ y.folder = folder
          /\ DOMAIN y = DOMAIN x \cup {"folder"}
      <4>1. DOMAIN x = {"table", "at", "row", "stopped"}
        BY <1>3, <2>4, ItemFields
      <4> HIDE DEF x
      <4> QED
        BY <4>1 DEF With
    <3>2. list[n] = z
      BY <2>1
    <3> HIDE DEF x, y
    <3>3. DOMAIN y = {"table", "at", "row", "stopped", "folder"}
      BY <3>1
    <3>4. z.table = y.table /\ z.at = y.at /\ z.row = y.row /\ z.stopped = y.stopped /\ z.folder = y.folder
          /\ z.vendors = own(t)
      BY <3>3 DEF With
    <3> HIDE DEF z
    <3> QED
      BY <3>1, <3>2, <3>4 DEF x
  <2> HIDE DEF list, r
  <2>5. Takes(list, {t})
    BY <2>1, <2>3, <2>4, AlikeTakes
  <2>6. Range(list) = {list[n] : n \in 1..Len(list)}
    BY <2>3, ListFacts
  <2> QED
    BY <1>2, <2>3, <2>4, <2>5, <2>6 DEF list
<1>4. DOMAIN tables = 1..Len(tables) /\ Tables(tables) /\ \A i \in 1..Len(tables) : ATable(tables[i])
  <2>1. DOMAIN tables = 1..Len(tables) /\ Tables(tables) /\ \A i \in 1..Len(tables) : tables[i] \in Range(tables)
    BY ListFacts DEF Tables
  <2> QED
    BY <2>1 DEF Tables
<1>5. \A i \in 1..Len(tables) : u[i] = tell(tables[i])
  BY <1>4
<1>6. u = [i \in DOMAIN tables |-> u[i]]
  OBVIOUS
<1> HIDE DEF tell, u, tables
<1>7. \A i \in 1..Len(tables) : Takes(u[i], {tables[i]})
  BY <1>3, <1>4, <1>5
<1>8. Takes(FlattenSeq(u), Range(tables)) /\ Range(FlattenSeq(u)) = UNION {Range(u[i]) : i \in 1..Len(tables)}
  BY <1>4, <1>6, <1>7, EachOfThem
<1>9. \A x \in Range(FlattenSeq(u)) : x.folder = folder /\ x.vendors \in BOOLEAN
  <2> SUFFICES ASSUME NEW i \in 1..Len(tables), NEW x \in Range(u[i]) PROVE x.folder = folder /\ x.vendors \in BOOLEAN
    BY <1>8
  <2> QED
    BY <1>3, <1>4, <1>5
<1> QED
  BY <1>1, <1>8, <1>9 DEF tables, folder

(* What the reader of the sidebar takes.                                   *)
LEMMA SidebarTakes ==
    ASSUME NEW f, Tables(Sql!TablesOf(f))
    PROVE  /\ Takes(Zed!SidebarItems(f), Range(Sql!TablesOf(f)))
           /\ \A x \in Range(Zed!SidebarItems(f)) : x.vendors \in BOOLEAN
<1> DEFINE tables == Sql!TablesOf(f)
           own(t) == t.name = Zed!Sidebar /\ Zed!VendorsTable(t)
           tell(t) == [n \in DOMAIN Sql!RowsOf(t) |-> With(Sql!RowsOf(t)[n], "vendors", own(t))]
           Own0 == {t \in Range(tables) : own(t)}
           Rest == {t \in Range(tables) : ~own(t)}
           y == [i \in DOMAIN tables |-> IF own(tables[i]) THEN <<tables[i]>> ELSE <<>>]
           z == [i \in DOMAIN tables |-> IF ~own(tables[i]) THEN <<tables[i]>> ELSE <<>>]
           all == FlattenSeq(y) \o FlattenSeq(z)
           u == [i \in DOMAIN all |-> tell(all[i])]
<1>1. Zed!SidebarItems(f) = FlattenSeq(u)
  <2>1. Zed!Those(tables, LAMBDA t : t.name = Zed!Sidebar /\ Zed!VendorsTable(t)) = FlattenSeq(y)
    BY ZedShares DEF Zed!Those, Zed!When
  <2>2. Zed!Those(tables, LAMBDA t : ~(t.name = Zed!Sidebar /\ Zed!VendorsTable(t))) = FlattenSeq(z)
    BY ZedShares DEF Zed!Those, Zed!When
  <2> HIDE DEF y, z
  <2> QED
    BY <2>1, <2>2, ZedShares DEF Zed!SidebarItems, Zed!With, With
<1>2. \A t : own(t) \in BOOLEAN
  BY DEF Zed!VendorsTable
<1> HIDE DEF own
<1>3. ASSUME NEW t, ATable(t)
      PROVE  Takes(tell(t), {t}) /\ \A x \in Range(tell(t)) : x.vendors \in BOOLEAN
  <2> DEFINE r == Sql!RowsOf(t)
             list == tell(t)
  <2>1. Takes(r, {t}) /\ IsList(r) /\ DOMAIN r = 1..Len(r) /\ Len(r) \in Nat
    BY <1>3, OneTable, ListFacts DEF Takes
  <2>2. list = [n \in 1..Len(r) |-> list[n]]
    BY <2>1
  <2>3. IsList(list) /\ Len(list) = Len(r)
    BY <2>1, <2>2, MadeIsList
  <2>4. ASSUME NEW n \in 1..Len(r)
        PROVE  /\ list[n].table = r[n].table /\ list[n].at = r[n].at
               /\ list[n].row = r[n].row /\ list[n].stopped = r[n].stopped
               /\ list[n].vendors = own(t)
    <3>1. list[n] = With(r[n], "vendors", own(t))
      BY <2>1
    <3>2. DOMAIN r[n] = {"table", "at", "row", "stopped"}
      BY <1>3, <2>4, ItemFields
    <3> HIDE DEF r, list
    <3> QED
      BY <3>1, <3>2 DEF With
  <2> HIDE DEF list, r
  <2>5. Takes(list, {t})
    BY <2>1, <2>3, <2>4, AlikeTakes
  <2>6. Range(list) = {list[n] : n \in 1..Len(list)}
    BY <2>3, ListFacts
  <2> QED
    BY <1>2, <2>3, <2>4, <2>5, <2>6 DEF list
<1>4. DOMAIN tables = 1..Len(tables) /\ Tables(tables) /\ \A i \in 1..Len(tables) : tables[i] \in Range(tables)
  BY ListFacts DEF Tables
<1>5. Tables(FlattenSeq(y)) /\ Range(FlattenSeq(y)) = Range(tables) \cap Own0
  <2>1. \A i \in DOMAIN tables : tables[i] \in Own0 <=> own(tables[i])
    BY <1>4
  <2>2. y = [i \in DOMAIN tables |-> y[i]] /\ \A i \in DOMAIN tables : y[i] = IF tables[i] \in Own0 THEN <<tables[i]>> ELSE <<>>
    BY <2>1
  <2> HIDE DEF y, Own0, tables
  <2> QED
    BY <1>4, <2>2, SomeOfThem
<1>6. Tables(FlattenSeq(z)) /\ Range(FlattenSeq(z)) = Range(tables) \cap Rest
  <2>1. \A i \in DOMAIN tables : tables[i] \in Rest <=> ~own(tables[i])
    BY <1>4
  <2>2. z = [i \in DOMAIN tables |-> z[i]] /\ \A i \in DOMAIN tables : z[i] = IF tables[i] \in Rest THEN <<tables[i]>> ELSE <<>>
    BY <2>1
  <2> HIDE DEF z, Rest, tables
  <2> QED
    BY <1>4, <2>2, SomeOfThem
<1> DEFINE a == FlattenSeq(y)
           b == FlattenSeq(z)
<1>7. Range(a) \cup Range(b) = Range(tables) /\ \A s \in Range(a), t \in Range(b) : s.name # t.name
  <2>1. \A s, t \in Range(tables) : s.name = t.name => s = t
    <3>1. Range(tables) = {tables[i] : i \in 1..Len(tables)} /\ Len(tables) \in Nat
      BY <1>4, ListFacts DEF Tables
    <3>2. \A i, j \in 1..Len(tables) : i < j => tables[i].name # tables[j].name
      BY <1>4 DEF Tables
    <3> HIDE DEF tables
    <3> QED
      BY <3>1, <3>2
  <2>2. Range(a) = Own0 /\ Range(b) = Rest
    BY <1>5, <1>6
  <2> HIDE DEF a, b, tables
  <2>3. Own0 \cup Rest = Range(tables) /\ \A s \in Own0, t \in Rest : s \in Range(tables) /\ t \in Range(tables) /\ s # t
    OBVIOUS
  <2> HIDE DEF Own0, Rest
  <2> QED
    BY <2>1, <2>2, <2>3
<1>8. Tables(all) /\ Range(all) = Range(tables) /\ DOMAIN all = 1..Len(all) /\ \A i \in 1..Len(all) : ATable(all[i])
  <2> HIDE DEF tables, y, z
  <2>1. IsList(a) /\ IsList(b)
    BY <1>5, <1>6 DEF Tables
  <2>2. /\ IsList(all) /\ Range(all) = Range(a) \cup Range(b) /\ Len(all) = Len(a) + Len(b)
        /\ Len(a) \in Nat /\ Len(b) \in Nat
        /\ \A i \in 1..Len(a) : all[i] = a[i] /\ a[i] \in Range(a)
        /\ \A i \in 1..Len(b) : b[i] \in Range(b)
        /\ \A i \in 1..Len(a) + Len(b) : i \in 1..Len(a) \/ (i - Len(a) \in 1..Len(b) /\ all[i] = b[i - Len(a)])
    BY <2>1, ListsJoin, ListFacts
  <2>3. \A i, j \in 1..Len(a) : i < j => a[i].name # a[j].name
    BY <1>5 DEF Tables
  <2>4. \A i, j \in 1..Len(b) : i < j => b[i].name # b[j].name
    BY <1>6 DEF Tables
  <2>5. ASSUME NEW i \in 1..Len(all), NEW j \in 1..Len(all), i < j
        PROVE  all[i].name # all[j].name
    <3> HIDE DEF all, a, b
    <3>1. CASE i \in 1..Len(a) /\ j \in 1..Len(a)
      BY <2>2, <2>3, <2>5, <3>1
    <3>2. CASE i \in 1..Len(a) /\ j \notin 1..Len(a)
      BY <1>7, <2>2, <2>5, <3>2
    <3>3. CASE i \notin 1..Len(a)
      <4>1. j \notin 1..Len(a)
        BY <2>2, <2>5, <3>3
      <4>2. /\ i - Len(a) \in 1..Len(b) /\ all[i] = b[i - Len(a)]
            /\ j - Len(a) \in 1..Len(b) /\ all[j] = b[j - Len(a)]
        BY <2>2, <3>3, <4>1
      <4>3. i - Len(a) < j - Len(a)
        BY <2>2, <2>5
      <4> QED
        BY <2>4, <4>2, <4>3
    <3> QED
      BY <3>1, <3>2, <3>3
  <2> HIDE DEF all, a, b
  <2>6. \A t \in Range(all) : ATable(t)
    BY <1>4, <1>7, <2>2 DEF Tables
  <2>7. DOMAIN all = 1..Len(all) /\ \A i \in 1..Len(all) : all[i] \in Range(all)
    BY <2>2, ListFacts
  <2> QED
    BY <1>7, <2>2, <2>5, <2>6, <2>7 DEF Tables
<1>9. (\A i \in 1..Len(all) : u[i] = tell(all[i])) /\ u = [i \in DOMAIN all |-> u[i]]
  <2> HIDE DEF all
  <2> QED
    BY <1>8
<1> HIDE DEF tell, u, all, tables
<1>10. \A i \in 1..Len(all) : Takes(u[i], {all[i]})
  BY <1>3, <1>8, <1>9
<1>11. Takes(FlattenSeq(u), Range(all)) /\ Range(FlattenSeq(u)) = UNION {Range(u[i]) : i \in 1..Len(all)}
  BY <1>8, <1>9, <1>10, EachOfThem
<1>12. \A x \in Range(FlattenSeq(u)) : x.vendors \in BOOLEAN
  <2> SUFFICES ASSUME NEW i \in 1..Len(all), NEW x \in Range(u[i]) PROVE x.vendors \in BOOLEAN
    BY <1>11
  <2> QED
    BY <1>3, <1>8, <1>9
<1> QED
  BY <1>1, <1>8, <1>11, <1>12 DEF tables

(* ------------------------------------------------------ what a store is -- *)

(* What there is to a row is what there is to it in its table.             *)
LEMMA NumberedGet ==
    ASSUME NEW row, NEW value, row \notin {Null, Odd}, With(row, "rowid", value) \notin {Null, Odd}
    PROVE  /\ \A key : key # "rowid" => Get(With(row, "rowid", value), key) = Get(row, key)
           /\ With(row, "rowid", value).rowid = value
<1> DEFINE y == With(row, "rowid", value)
<1>1. y.rowid = value
  BY DEF With
<1>2. DOMAIN y = DOMAIN row \cup {"rowid"} /\ \A key \in DOMAIN row : key # "rowid" => y[key] = row[key]
  BY DEF With
<1>3. y \notin {Null, Odd}
  OBVIOUS
<1> HIDE DEF y
<1>4. \A key : key # "rowid" => Get(y, key) = Get(row, key)
  <2> SUFFICES ASSUME NEW key, key # "rowid" PROVE Get(y, key) = Get(row, key)
    OBVIOUS
  <2>1. Get(y, key) = IF key \in DOMAIN y THEN y[key] ELSE Null
    BY <1>3, Zenon DEF Get
  <2>2. Get(row, key) = IF key \in DOMAIN row THEN row[key] ELSE Null
    BY Zenon DEF Get
  <2> QED
    BY <1>2, <2>1, <2>2
<1> QED
  BY <1>1, <1>4 DEF y

(* So it fits when that does.                                              *)
LEMMA NumberedFits ==
    ASSUME NEW f, NEW table, NEW row, NEW value, row \notin {Null, Odd}, With(row, "rowid", value) \notin {Null, Odd},
           Fits(f, table, row)
    PROVE  Fits(f, table, With(row, "rowid", value))
<1> DEFINE y == With(row, "rowid", value)
<1>1. \A key : key # "rowid" => Get(y, key) = Get(row, key)
  BY NumberedGet
<1>2. "content" # "rowid" /\ "data" # "rowid" /\ "tool_calls" # "rowid" /\ "value" # "rowid"
  OBVIOUS
<1>3. /\ Get(y, "content") = Get(row, "content") /\ Get(y, "data") = Get(row, "data")
      /\ Get(y, "tool_calls") = Get(row, "tool_calls") /\ Get(y, "value") = Get(row, "value")
  BY <1>1, <1>2
<1> HIDE DEF y
<1>4. Fits(f, table, y) = Fits(f, table, row)
  BY <1>3, Zenon DEF Fits
<1> QED
  BY <1>4 DEF y

(* What Init says of a store. *)
Chosen(s, n) ==
    /\ format \in DOMAIN Cells \ PageFormats /\ s \in DOMAIN Shapes[format] /\ shape = Shapes[format][s]
    /\ n \in 0..Lengths[format] /\ doc \in [1..n -> DOMAIN Cells[format]] /\ Injective(doc)

(* A table of a store.                                                     *)
LEMMA TableIs ==
    ASSUME NEW s, NEW n, Chosen(s, n), NEW name
    PROVE  /\ ATable(TableOf(name)) /\ TableOf(name).name = name
           /\ \E place :
                 /\ \A i \in 1..Len(TableOf(name).rows) :
                       /\ place[i] \in 1..n /\ Cells[format][doc[place[i]]].table = name
                       /\ TableOf(name).rows[i] = Numbered(Cells[format][doc[place[i]]], place[i])
                 /\ \A i, j \in 1..Len(TableOf(name).rows) : i < j => place[i] < place[j]
<1> DEFINE list == [i \in DOMAIN doc |-> i]
           u == [i \in DOMAIN list |-> IF Cells[format][doc[list[i]]].table = name THEN <<list[i]>> ELSE <<>>]
           places == FlattenSeq(u)
           rows == [k \in DOMAIN places |-> Numbered(Cells[format][doc[places[k]]], places[k])]
           t == [name |-> name, rowid |-> shape.rowids, fails |-> shape.fails, columns |-> shape.columns, rows |-> rows]
<1>1. n \in Nat /\ DOMAIN doc = 1..n /\ (\A i \in 1..n : doc[i] \in DOMAIN Cells[format]) /\ shape.fails \in Nat
      /\ n <= Lengths[format]
  BY Bounds DEF Chosen
<1>2. TableOf(name) = t
  BY ReadersFlatten DEF TableOf, Those, When
<1>3. IsList(list) /\ Len(list) = n /\ DOMAIN list = 1..n /\ \A i \in 1..n : list[i] = i
  <2>1. list = [i \in 1..n |-> list[i]]
    BY <1>1
  <2> QED
    BY <1>1, <2>1, MadeIsList
<1>4. /\ u = [i \in DOMAIN list |-> u[i]]
      /\ \A i \in DOMAIN list : u[i] \in {<<>>, <<list[i]>>} /\ (u[i] # <<>> <=> Cells[format][doc[i]].table = name)
  <2>1. \A i \in DOMAIN list : u[i] = IF Cells[format][doc[i]].table = name THEN <<list[i]>> ELSE <<>>
    BY <1>3
  <2>2. u = [i \in DOMAIN list |-> u[i]]
    OBVIOUS
  <2> HIDE DEF u
  <2> QED
    BY <2>1, <2>2, ShortLists
<1> HIDE DEF u, list
<1>5. PICK place :
         /\ IsList(places)
         /\ \A j \in 1..Len(places) : place[j] \in DOMAIN list /\ u[place[j]] # <<>> /\ places[j] = list[place[j]]
         /\ \A j, k \in 1..Len(places) : j < k => place[j] < place[k]
  <2>1. \A i \in DOMAIN list : u[i] \in {<<>>, <<list[i]>>}
    BY <1>4
  <2> QED
    BY <1>3, <1>4, <2>1, ChosenPlaces
<1> HIDE DEF places
<1>6. /\ DOMAIN places = 1..Len(places) /\ Len(places) \in Nat
      /\ \A j \in 1..Len(places) : places[j] \in 1..n /\ Cells[format][doc[places[j]]].table = name
      /\ \A j, k \in 1..Len(places) : j < k => places[j] < places[k]
  <2>1. DOMAIN places = 1..Len(places) /\ Len(places) \in Nat
    BY <1>5, ListFacts
  <2>2. \A j \in 1..Len(places) : places[j] = place[j] /\ place[j] \in 1..n /\ Cells[format][doc[place[j]]].table = name
    BY <1>3, <1>4, <1>5
  <2> QED
    BY <1>5, <2>1, <2>2
<1>7. IsList(rows) /\ Len(rows) = Len(places)
      /\ \A k \in 1..Len(places) : rows[k] = Numbered(Cells[format][doc[places[k]]], places[k])
  <2>1. rows = [k \in 1..Len(places) |-> rows[k]]
    BY <1>6
  <2>2. \A k \in 1..Len(places) : rows[k] = Numbered(Cells[format][doc[places[k]]], places[k])
    BY <1>6
  <2> HIDE DEF rows
  <2> QED
    BY <1>6, <2>1, <2>2, MadeIsList
<1> HIDE DEF rows
<1>8. t.rows = rows /\ t.name = name /\ t.fails \in Nat
  BY <1>1
<1>9. \A k \in 1..Len(places) : rows[k].rowid = 2 * places[k]
  BY <1>7 DEF Numbered, With
<1>10. ATable(t)
  <2>1. \A k \in 1..Len(places) : rows[k].rowid \in Nat \ {0}
    BY <1>1, <1>6, <1>9
  <2>2. \A j, k \in 1..Len(places) : j < k => rows[j].rowid < rows[k].rowid
    BY <1>1, <1>6, <1>9
  <2> QED
    BY <1>7, <1>8, <2>1, <2>2 DEF ATable
<1> HIDE DEF t
<1> QED
  BY <1>2, <1>6, <1>7, <1>8, <1>10

(* What a reader may take for granted of a store: its tables, and what is  *)
(* in them; and that a session has one row.                                *)
RowsFit(tables) ==
    \A t \in Range(tables) : \A i \in 1..Len(t.rows) : t.rows[i] \notin {Null, Odd} /\ Fits(format, t.name, t.rows[i])
OfSessions(name) == format \in DOMAIN Headers /\ \E of \in DOMAIN Headers[format] : name \in Range(Headers[format][of])
KeysOnce(tables) ==
    \A t \in Range(tables) : OfSessions(t.name) =>
        \A i, j \in 1..Len(t.rows) : i < j =>
            ~Said(Get(t.rows[i], "id")) \/ Get(t.rows[i], "id") # Get(t.rows[j], "id")
Kept(tables) == Tables(tables) /\ RowsFit(tables) /\ KeysOnce(tables)

(* All of that is so.                                                      *)
LEMMA StoreIs ==
    ASSUME NEW s, NEW n, Chosen(s, n)
    PROVE  Kept(Store.tables)
<1> DEFINE names == Names[format]
           tables == [k \in DOMAIN names |-> TableOf(names[k])]
<1>1. Store.tables = tables
  BY DEF Store
<1>2. /\ IsList(names) /\ DOMAIN names = 1..Len(names) /\ Len(names) \in Nat
      /\ \A a, b \in 1..Len(names) : a < b => names[a] # names[b]
  <2>1. names \in Seq(Range(names)) /\ IsInjective(names)
    BY StoresAssumption DEF Chosen
  <2>2. IsList(names)
    BY <2>1 DEF IsList
  <2>3. DOMAIN names = 1..Len(names) /\ Len(names) \in Nat
    BY <2>2, ListFacts
  <2> QED
    BY <2>1, <2>2, <2>3 DEF IsInjective
<1>3. IsList(tables) /\ Len(tables) = Len(names) /\ \A k \in 1..Len(names) : tables[k] = TableOf(names[k])
  <2>1. tables = [k \in 1..Len(names) |-> tables[k]] /\ \A k \in 1..Len(names) : tables[k] = TableOf(names[k])
    BY <1>2
  <2> HIDE DEF tables
  <2> QED
    BY <1>2, <2>1, MadeIsList
<1>4. Range(tables) = {tables[k] : k \in 1..Len(names)}
  BY <1>3, ListFacts
<1> HIDE DEF tables
<1>5. Tables(tables)
  <2>1. \A t \in Range(tables) : ATable(t)
    BY <1>3, <1>4, TableIs
  <2>2. \A k \in 1..Len(names) : tables[k].name = names[k]
    BY <1>3, TableIs
  <2> QED
    BY <1>2, <1>3, <2>1, <2>2 DEF Tables
<1>6. /\ n \in 0..Lengths[format] /\ format \in DOMAIN Cells \ PageFormats /\ n <= Lengths[format] /\ n \in Nat
      /\ DOMAIN doc = 1..n /\ \A i \in 1..n : doc[i] \in DOMAIN Cells[format]
      /\ \A i, j \in 1..n : i < j => doc[i] # doc[j]
  BY Bounds DEF Chosen, Injective
<1>7. ASSUME NEW i \in 1..n
      PROVE  LET cell == Cells[format][doc[i]]
                 row == Numbered(cell, i)
             IN  /\ row \notin {Null, Odd} /\ Fits(format, cell.table, row)
                 /\ Get(row, "id") = Get(cell.row, "id")
  <2> DEFINE cell == Cells[format][doc[i]]
             row == Numbered(cell, i)
  <2>1. i \in 1..Lengths[format]
    BY <1>6, Bounds
  <2>2. cell.row \notin {Null, Odd} /\ Fits(format, cell.table, cell.row) /\ row \notin {Null, Odd}
    BY <1>6, <2>1, StoresAssumption
  <2>3. row = With(cell.row, "rowid", 2 * i)
    BY DEF Numbered
  <2> HIDE DEF cell, row
  <2>4. \A key : key # "rowid" => Get(row, key) = Get(cell.row, key)
    BY <2>2, <2>3, NumberedGet
  <2>5. Get(row, "id") = Get(cell.row, "id")
    BY <2>4
  <2>6. Fits(format, cell.table, row)
    BY <2>2, <2>3, NumberedFits
  <2> QED
    BY <2>2, <2>5, <2>6 DEF cell, row
<1>8. ASSUME NEW t \in Range(tables)
      PROVE  \E place :
                /\ \A i \in 1..Len(t.rows) :
                      /\ place[i] \in 1..n /\ Cells[format][doc[place[i]]].table = t.name
                      /\ t.rows[i] = Numbered(Cells[format][doc[place[i]]], place[i])
                /\ \A i, j \in 1..Len(t.rows) : i < j => place[i] < place[j]
  <2>1. PICK k \in 1..Len(names) : t = TableOf(names[k])
    BY <1>3, <1>4
  <2> DEFINE name == names[k]
  <2> HIDE DEF name
  <2>2. t = TableOf(name)
    BY <2>1 DEF name
  <2>3. /\ TableOf(name).name = name
        /\ \E place :
              /\ \A i \in 1..Len(TableOf(name).rows) :
                    /\ place[i] \in 1..n /\ Cells[format][doc[place[i]]].table = name
                    /\ TableOf(name).rows[i] = Numbered(Cells[format][doc[place[i]]], place[i])
              /\ \A i, j \in 1..Len(TableOf(name).rows) : i < j => place[i] < place[j]
    BY TableIs, SMTT(30)
  <2> QED
    BY <2>2, <2>3
<1>9. RowsFit(tables)
  <2> SUFFICES ASSUME NEW t \in Range(tables), NEW i \in 1..Len(t.rows)
               PROVE  t.rows[i] \notin {Null, Odd} /\ Fits(format, t.name, t.rows[i])
    BY DEF RowsFit
  <2>1. PICK place :
           \A j \in 1..Len(t.rows) :
              /\ place[j] \in 1..n /\ Cells[format][doc[place[j]]].table = t.name
              /\ t.rows[j] = Numbered(Cells[format][doc[place[j]]], place[j])
    BY <1>8
  <2>2. place[i] \in 1..n /\ Cells[format][doc[place[i]]].table = t.name
        /\ t.rows[i] = Numbered(Cells[format][doc[place[i]]], place[i])
    BY <2>1
  <2>3. /\ Numbered(Cells[format][doc[place[i]]], place[i]) \notin {Null, Odd}
        /\ Fits(format, Cells[format][doc[place[i]]].table, Numbered(Cells[format][doc[place[i]]], place[i]))
    BY <1>7, <2>2
  <2> QED
    BY <2>2, <2>3
<1>10. KeysOnce(tables)
  <2> SUFFICES ASSUME NEW t \in Range(tables), OfSessions(t.name),
                      NEW i \in 1..Len(t.rows), NEW j \in 1..Len(t.rows), i < j,
                      Said(Get(t.rows[i], "id"))
               PROVE  Get(t.rows[i], "id") # Get(t.rows[j], "id")
    BY DEF KeysOnce
  <2>1. PICK place :
           /\ \A k \in 1..Len(t.rows) :
                 /\ place[k] \in 1..n /\ Cells[format][doc[place[k]]].table = t.name
                 /\ t.rows[k] = Numbered(Cells[format][doc[place[k]]], place[k])
           /\ \A k, m \in 1..Len(t.rows) : k < m => place[k] < place[m]
    BY <1>8
  <2> DEFINE a == doc[place[i]]
             b == doc[place[j]]
  <2>2. place[i] \in 1..n /\ place[j] \in 1..n /\ place[i] < place[j]
    BY <2>1
  <2>3. a \in DOMAIN Cells[format] /\ b \in DOMAIN Cells[format] /\ a # b
    BY <1>6, <2>2
  <2>4. Cells[format][a].table = t.name /\ Cells[format][b].table = t.name
    BY <2>1
  <2>5. Get(t.rows[i], "id") = Get(Cells[format][a].row, "id") /\ Get(t.rows[j], "id") = Get(Cells[format][b].row, "id")
    BY <1>7, <2>1, <2>2
  <2>6. format \in DOMAIN Headers \cap DOMAIN Cells /\ \E of \in DOMAIN Headers[format] : t.name \in Range(Headers[format][of])
    BY <1>6 DEF OfSessions
  <2> HIDE DEF a, b
  <2>7. ~Said(Get(Cells[format][a].row, "id")) \/ Get(Cells[format][a].row, "id") # Get(Cells[format][b].row, "id")
    BY <2>3, <2>4, <2>6, KeysAssumption
  <2> QED
    BY <2>5, <2>7
<1> QED
  BY <1>1, <1>5, <1>9, <1>10 DEF Kept

(* -------------------------------------------------- what there is to take -- *)

(* The formats whose tables are read in an order of their own.             *)
MappedOf ==
    [goose |-> Goo!Mapped, opencode |-> Ope!Mapped, amazonq |-> Ama!Mapped, hermes |-> Her!Mapped, zed |-> Zed!Mapped]

(* No table is in such an order twice.                                     *)
LEMMA MappedOnce ==
    ASSUME NEW f \in DOMAIN MappedOf
    PROVE  IsList(MappedOf[f]) /\ \A a, b \in 1..Len(MappedOf[f]) : a < b => MappedOf[f][a] # MappedOf[f][b]
<1>2. IsList(Goo!Mapped) /\ \A a, b \in 1..Len(Goo!Mapped) : a < b => Goo!Mapped[a] # Goo!Mapped[b]
  <2> DEFINE m == Goo!Mapped
  <2>1. m \in Seq({"sessions", "threads", "messages", "thread_messages"}) /\ Len(m) = 4
    BY DEF Goo!Mapped
  <2>2. m[1] = "sessions" /\ m[2] = "threads" /\ m[3] = "messages" /\ m[4] = "thread_messages"
    BY DEF Goo!Mapped
  <2> HIDE DEF m
  <2>3. \A a, b \in 1..4 : a < b => m[a] # m[b]
    BY <2>2
  <2> QED
    BY <2>1, <2>3, SeqIsList DEF m
<1>3. IsList(Ope!Mapped) /\ \A a, b \in 1..Len(Ope!Mapped) : a < b => Ope!Mapped[a] # Ope!Mapped[b]
  <2> DEFINE m == Ope!Mapped
  <2>1. m \in Seq({"session", "session_input", "session_message"}) /\ Len(m) = 3
    BY DEF Ope!Mapped
  <2>2. m[1] = "session" /\ m[2] = "session_input" /\ m[3] = "session_message"
    BY DEF Ope!Mapped
  <2> HIDE DEF m
  <2>3. \A a, b \in 1..3 : a < b => m[a] # m[b]
    BY <2>2
  <2> QED
    BY <2>1, <2>3, SeqIsList DEF m
<1>4. IsList(Ama!Mapped) /\ \A a, b \in 1..Len(Ama!Mapped) : a < b => Ama!Mapped[a] # Ama!Mapped[b]
  <2> DEFINE m == Ama!Mapped
  <2>1. m \in Seq({"conversations", "history", "state", "auth_kv"}) /\ Len(m) = 4
    BY DEF Ama!Mapped
  <2>2. m[1] = "conversations" /\ m[2] = "history" /\ m[3] = "state" /\ m[4] = "auth_kv"
    BY DEF Ama!Mapped
  <2> HIDE DEF m
  <2>3. \A a, b \in 1..4 : a < b => m[a] # m[b]
    BY <2>2
  <2> QED
    BY <2>1, <2>3, SeqIsList DEF m
<1>5. IsList(Her!Mapped) /\ \A a, b \in 1..Len(Her!Mapped) : a < b => Her!Mapped[a] # Her!Mapped[b]
  <2> DEFINE m == Her!Mapped
  <2>1. m \in Seq({"sessions", "messages"}) /\ Len(m) = 2
    BY DEF Her!Mapped
  <2>2. m[1] = "sessions" /\ m[2] = "messages"
    BY DEF Her!Mapped
  <2> HIDE DEF m
  <2>3. \A a, b \in 1..2 : a < b => m[a] # m[b]
    BY <2>2
  <2> QED
    BY <2>1, <2>3, SeqIsList DEF m
<1>6. IsList(Zed!Mapped) /\ \A a, b \in 1..Len(Zed!Mapped) : a < b => Zed!Mapped[a] # Zed!Mapped[b]
  <2> DEFINE m == Zed!Mapped
  <2>1. m \in Seq({"threads"}) /\ Len(m) = 1
    BY DEF Zed!Mapped
  <2>2. m[1] = "threads"
    BY DEF Zed!Mapped
  <2> HIDE DEF m
  <2>3. \A a, b \in 1..1 : a < b => m[a] # m[b]
    BY <2>2
  <2> QED
    BY <2>1, <2>3, SeqIsList DEF m
<1>7. f \in {"goose", "opencode", "amazonq", "hermes", "zed"}
  BY DEF MappedOf
<1>8. MappedOf[f] \in {Goo!Mapped, Ope!Mapped, Ama!Mapped, Her!Mapped, Zed!Mapped}
  BY <1>7 DEF MappedOf
<1> QED
  BY <1>2, <1>3, <1>4, <1>5, <1>6, <1>8

(* The tables that a reader sees.                                          *)
LEMMA SeenTables ==
    ASSUME NEW f, Tables(f.tables)
    PROVE  Tables(Sql!TablesOf(f)) /\ (Sql!TablesOf(f) # <<>> => Sql!TablesOf(f) = f.tables)
           /\ Range(Sql!TablesOf(f)) \subseteq Range(f.tables)
<1>1. Tables(<<>>) /\ Range(<<>>) = {}
  <2>1. 1..Len(<<>>) = {}
    BY ShortLists
  <2> QED
    BY <2>1, ShortLists DEF Tables
<1>2. Sql!TablesOf(f) = <<>> \/ Sql!TablesOf(f) = f.tables
  BY DEF Sql!TablesOf
<1> QED
  BY <1>1, <1>2

(* What there is to take of a store is what its tables have, once; an      *)
(* index has nothing.                                                      *)
LEMMA ItemsTake ==
    ASSUME format \notin PageFormats, Tables(file.tables)
    PROVE  /\ Takes(Items, Range(Sql!TablesOf(file))) \/ (file.index = TRUE /\ Items = <<>>)
           /\ format \in DOMAIN MappedOf => Ordered(Items, MappedOf[format])
           /\ format = "editor" =>
                \A x \in Range(Items) : x.folder = Edi!FolderBeside(file) /\ x.vendors \in BOOLEAN
           /\ format = "sidebar" => \A x \in Range(Items) : x.vendors \in BOOLEAN
<1> DEFINE tables == Sql!TablesOf(file)
<1>1. Tables(tables)
  BY SeenTables
<1>2. DOMAIN MappedOf = {"goose", "opencode", "amazonq", "hermes", "zed"} /\ PageFormats = {"lmdb", "prompts"}
  BY DEF MappedOf, PageFormats
<1>3. CASE format \in DOMAIN MappedOf
  <2>1. Items = Sql!InOrder(tables, MappedOf[format])
    <3>1. CASE format = "goose"
      BY <3>1, GooInOrder, GooShares DEF Items, Goo!Items, MappedOf
    <3>2. CASE format = "opencode"
      BY <3>2, OpeInOrder, OpeShares DEF Items, Ope!Items, MappedOf
    <3>3. CASE format = "amazonq"
      BY <3>3, AmaInOrder, AmaShares DEF Items, Ama!Items, MappedOf
    <3>4. CASE format = "hermes"
      BY <3>4, HerInOrder, HerShares DEF Items, Her!Items, MappedOf
    <3>5. CASE format = "zed"
      BY <3>5, ZedInOrder, ZedShares DEF Items, Zed!Items, MappedOf
    <3> QED
      BY <1>2, <1>3, <3>1, <3>2, <3>3, <3>4, <3>5
  <2>2. IsList(MappedOf[format]) /\ \A a, b \in 1..Len(MappedOf[format]) : a < b => MappedOf[format][a] # MappedOf[format][b]
    BY <1>3, MappedOnce
  <2> DEFINE names == MappedOf[format]
  <2> HIDE DEF names, tables
  <2>3. Takes(Sql!InOrder(tables, names), Range(tables)) /\ Ordered(Sql!InOrder(tables, names), names)
    BY <1>1, <2>2, InOrderTakes DEF names
  <2>4. format # "editor" /\ format # "sidebar"
    BY <1>2, <1>3
  <2> QED
    BY <2>1, <2>3, <2>4 DEF names, tables
<1>4. CASE format = "editor"
  <2>1. Items = Edi!StateItems(file)
    BY <1>4 DEF Items
  <2>2. format \notin DOMAIN MappedOf /\ format # "sidebar"
    BY <1>2, <1>4
  <2> QED
    BY <1>1, <2>1, <2>2, EditorTakes
<1>5. CASE format = "sidebar"
  <2>1. Items = Zed!SidebarItems(file)
    BY <1>5 DEF Items
  <2>2. format \notin DOMAIN MappedOf /\ format # "editor"
    BY <1>2, <1>5
  <2> QED
    BY <1>1, <2>1, <2>2, SidebarTakes
<1>6. CASE format = "threads"
  <2>1. Items = Sql!RowsOfAll(tables)
    <3>1. \A u : Thr!RowsOfAll(u) = FlattenSeq([i \in DOMAIN u |-> Sql!RowsOf(u[i])])
      BY ThrShares DEF Thr!RowsOfAll
    <3>2. \A u : Sql!RowsOfAll(u) = FlattenSeq([i \in DOMAIN u |-> Sql!RowsOf(u[i])])
      BY ReadersFlatten DEF Sql!RowsOfAll
    <3>3. Items = Thr!RowsOfAll(Thr!TablesOf(file))
      BY <1>6 DEF Items, Thr!StateItems
    <3> QED
      BY <3>1, <3>2, <3>3, ThrShares
  <2>2. format \notin DOMAIN MappedOf /\ format # "editor" /\ format # "sidebar"
    BY <1>2, <1>6
  <2> QED
    BY <1>1, <2>1, <2>2, AllOfThem
<1>7. CASE format \notin DOMAIN MappedOf \cup {"editor", "sidebar", "threads"}
  <2>1. Items = Sql!GenericItems(file)
    <3>1. format \notin {"goose", "opencode", "amazonq", "hermes", "zed", "editor", "sidebar", "threads", "lmdb", "prompts"}
      BY <1>2, <1>7
    <3> QED
      BY <3>1 DEF Items
  <2>2. Items = IF file.index THEN <<>> ELSE Sql!RowsOfAll(tables)
    BY <2>1 DEF Sql!GenericItems
  <2>3. Takes(Sql!RowsOfAll(tables), Range(tables))
    BY <1>1, AllOfThem
  <2>4. CASE file.index = TRUE
    BY <1>7, <2>2, <2>4
  <2> QED
    BY <1>7, <2>2, <2>3
<1> QED
  BY <1>3, <1>4, <1>5, <1>6, <1>7

(* -------------------------------------------------- what readers answer -- *)

(* The events of an item are at its place, no two have one identity, and   *)
(* there is one.                                                           *)
IsAnswer(evs, x) == Own(evs, x.at) /\ evs # <<>>

(* One event answers.                                                      *)
LEMMA OneAnswers ==
    ASSUME NEW x, NEW e, e.loc[1] = x.at
    PROVE  IsAnswer(<<e>>, x)
BY OwnShort, ShortLists DEF IsAnswer

(* What is read of a row that nobody maps, or of a table that was not read *)
(* to its end.                                                             *)
LEMMA CommonAnswers ==
    ASSUME NEW x
    PROVE  /\ IsAnswer(Sql!Stopped(x), x) /\ IsAnswer(Sql!RowAsEvent(x), x)
           /\ Len(Sql!Stopped(x)) = 1 /\ Sql!Stopped(x)[1].loc[2] = "stopped"
           /\ \A e \in Range(Sql!Stopped(x)) : e.kind = "unparsed.record"
           /\ \A e \in Range(Sql!RowAsEvent(x)) : e.kind = "unparsed.record"
<1> DEFINE a == Sql!Unparsed(x.at, "stopped", 0, x.row, Sql!NoStamp)
           b == Sql!Unparsed(x.at, "self", 0, x.row,
                    [session |-> Sql!Literal(x.row, Sql!SessionColumns),
                     cwd |-> Sql!Literal(x.row, Sql!ProjectColumns), branch |-> Null])
<1>1. Sql!Stopped(x) = <<a>> /\ Sql!RowAsEvent(x) = <<b>>
  BY DEF Sql!Stopped, Sql!RowAsEvent
<1>2. /\ a.loc[1] = x.at /\ a.loc[2] = "stopped" /\ a.kind = "unparsed.record"
      /\ b.loc[1] = x.at /\ b.kind = "unparsed.record"
  BY DEF Sql!Unparsed, Sql!Ev
<1> HIDE DEF a, b
<1> QED
  BY <1>1, <1>2, OneAnswers, ShortLists

(* What Goose's reader takes of values, as any reader.                     *)
LEMMA GooReads ==
    /\ \A r, key : Goo!Get(r, key) = Get(r, key)
    /\ \A v : Goo!Given(v) = Given(v) /\ Goo!Said(v) = Said(v) /\ Goo!Filled(v) = Filled(v)
    /\ \A c, s : Goo!When(c, s) = IF c THEN s ELSE <<>>
    /\ \A x, y : Goo!Or(x, y) = Or(x, y)
<1>1. \A r, key : Goo!Get(r, key) = Get(r, key)
  BY DEF Goo!Get, Get
<1>2. \A v : Goo!Given(v) = Given(v) /\ Goo!Said(v) = Said(v) /\ Goo!Filled(v) = Filled(v)
  BY Zenon DEF Goo!Given, Given, Goo!Said, Said, Goo!Filled, Filled
<1>3. \A c, s : Goo!When(c, s) = IF c THEN s ELSE <<>>
  BY DEF Goo!When
<1>4. \A x, y : Goo!Or(x, y) = Or(x, y)
  BY DEF Goo!Or, Or, Goo!Said, Said
<1> QED
  BY <1>1, <1>2, <1>3, <1>4

(* A list that a reader takes for granted is one.                          *)
LEMMA AListIs == \A v : AList(v) /\ Given(v) => IsList(v)
BY DEF AList, Members, IsList, Range

(* A request for a tool: the call, its server, and what it did.            *)
LEMMA GooRequest ==
    ASSUME NEW at0, NEW i, NEW block, NEW header
    PROVE  /\ TellsOf(Goo!ToolRequest(at0, i, block, header), at0, {"content"}, i, Goo!Stamp(header))
           /\ Goo!ToolRequest(at0, i, block, header) # <<>>
<1> DEFINE ev(kind) == Goo!Ev(at0, "content", i, kind, block, Goo!Stamp(header), Goo!Call(block.tool, block.id))
           stamp == Goo!Stamp(header)
           facet == Goo!Facet(block)
           one(kind) == <<ev(kind)>>
           mcp == Goo!Said(block.extension) /\ block.extension \in header.servers
           a == one("tool.call")
           b == IF mcp THEN one("mcp.call") ELSE <<>>
           c == IF facet # Null THEN one(facet) ELSE <<>>
<1>1. Goo!ToolRequest(at0, i, block, header) = (a \o b) \o c
  BY DEF Goo!ToolRequest, Goo!When
<1>2. \A kind : ev(kind).loc = <<at0, "content", i>> /\ ev(kind).kind = kind /\ ev(kind).stamp = stamp
  BY DEF Goo!Ev
<1>3. facet \in {"command.exec", "file.write", "file.read", "network.request", Null}
  BY DEF Goo!Facet
<1> HIDE DEF ev, stamp, facet, mcp
<1>4. \A kind : TellsOf(one(kind), at0, {"content"}, i, stamp) /\ Tells(one(kind), at0, {"content"}, stamp)
                /\ one(kind) # <<>> /\ Range(one(kind)) = {ev(kind)}
  BY <1>2, TellsOne, ShortLists
<1>5. /\ TellsOf(b, at0, {"content"}, i, stamp) /\ Tells(b, at0, {"content"}, stamp) /\ Range(b) \subseteq {ev("mcp.call")}
      /\ TellsOf(c, at0, {"content"}, i, stamp) /\ Tells(c, at0, {"content"}, stamp)
      /\ Range(c) \subseteq {ev(facet)} /\ (facet = Null => Range(c) = {})
  BY <1>4, TellsNone, ShortLists
<1>6. Range(a) = {ev("tool.call")} /\ TellsOf(a, at0, {"content"}, i, stamp) /\ Tells(a, at0, {"content"}, stamp) /\ a # <<>>
  BY <1>4
<1>7. Identity(ev("tool.call")) # Identity(ev("mcp.call"))
  BY <1>2 DEF Identity
<1>8. facet # Null => Identity(ev("tool.call")) # Identity(ev(facet)) /\ Identity(ev("mcp.call")) # Identity(ev(facet))
  <2> SUFFICES ASSUME facet # Null
               PROVE  Identity(ev("tool.call")) # Identity(ev(facet)) /\ Identity(ev("mcp.call")) # Identity(ev(facet))
    OBVIOUS
  <2>1. facet # "tool.call" /\ facet # "mcp.call"
    BY <1>3
  <2> QED
    BY <1>2, <2>1 DEF Identity
<1> DEFINE ab == a \o b
           P == {"content"}
<1> HIDE DEF a, b, c
<1>9. /\ Tells(ab, at0, P \cup P, stamp) /\ ab # <<>> /\ TellsOf(ab, at0, P \cup P, i, stamp)
      /\ Range(ab) = Range(a) \cup Range(b)
  <2>1. \A x \in Range(a), y \in Range(b) : Identity(x) # Identity(y)
    BY <1>5, <1>6, <1>7
  <2> QED
    BY <1>5, <1>6, <2>1, TellsApart
<1>10. P \cup P = P
  OBVIOUS
<1> HIDE DEF ab, P
<1>11. Tells(ab, at0, P, stamp) /\ TellsOf(ab, at0, P, i, stamp)
  BY <1>9, <1>10
<1>12. TellsOf(c, at0, P, i, stamp) /\ Tells(c, at0, P, stamp)
  BY <1>5 DEF P
<1>13. \A x \in Range(ab), y \in Range(c) : Identity(x) # Identity(y)
  BY <1>5, <1>6, <1>8, <1>9
<1>14. TellsOf(ab \o c, at0, P \cup P, i, stamp) /\ ab \o c # <<>>
  BY <1>9, <1>11, <1>12, <1>13, TellsApart
<1> QED
  BY <1>1, <1>10, <1>14 DEF ab, P, stamp

(* A block of a message.                                                   *)
LEMMA GooBlock ==
    ASSUME NEW at0, NEW i, NEW block, NEW message, NEW header
    PROVE  /\ TellsOf(Goo!Block(at0, i, block, message, header), at0, {"content"}, i, Goo!Stamp(header))
           /\ Goo!Block(at0, i, block, message, header) # <<>>
<1> DEFINE stamp == Goo!Stamp(header)
           ev(kind) == Goo!Ev(at0, "content", i, kind, block, stamp, Null)
           result == Goo!Ev(at0, "content", i, "tool.result", block, stamp, Goo!Call(Null, block.id))
           evs == Goo!Block(at0, i, block, message, header)
           Good(s) == TellsOf(s, at0, {"content"}, i, stamp) /\ s # <<>>
<1>1. \A kind : ev(kind).loc = <<at0, "content", i>> /\ ev(kind).stamp = stamp
  BY DEF Goo!Ev
<1>2. result.loc = <<at0, "content", i>> /\ result.stamp = stamp
  BY DEF Goo!Ev
<1>3. \/ \E kind : evs = <<ev(kind)>>
      \/ evs = Goo!ToolRequest(at0, i, block, header)
      \/ evs = <<result>>
  BY DEF Goo!Block, Goo!ToolResponse
<1> HIDE DEF ev, result, evs, stamp
<1>4. (\A kind : Good(<<ev(kind)>>)) /\ Good(<<result>>)
  BY <1>1, <1>2, TellsOne
<1>5. Good(Goo!ToolRequest(at0, i, block, header))
  BY GooRequest DEF stamp
<1> QED
  BY <1>3, <1>4, <1>5 DEF evs, stamp

(* A message: every event has the stamp of its header.                     *)
LEMMA GooMessage ==
    ASSUME NEW x, NEW headers, NEW id, AList(Get(x.row, "content"))
    PROVE  LET header == IF id \in DOMAIN headers THEN headers[id] ELSE Goo!Conversation(id, Null, {})
               evs == Goo!MessageRow(x, headers, id)
           IN  /\ Tells(evs, x.at, {"self", "content"}, Goo!Stamp(header)) /\ evs # <<>>
<1> DEFINE header == IF id \in DOMAIN headers THEN headers[id] ELSE Goo!Conversation(id, Null, {})
           stamp == Goo!Stamp(header)
           whole == Goo!Unparsed(x.at, "self", 0, x.row, stamp)
           content == Get(x.row, "content")
           u == [i \in DOMAIN content |-> Goo!Block(x.at, i - 1, content[i], x.row, header)]
           evs == Goo!MessageRow(x, headers, id)
<1>1. \/ evs = <<whole>>
      \/ Given(content) /\ content # <<>> /\ evs = FlattenSeq(u)
  <2>1. CASE ~Given(content)
    BY <2>1, GooReads DEF Goo!MessageRow
  <2>2. CASE Given(content)
    <3>1. evs = Goo!MessageEvents(x.at, x.row, header)
      BY <2>2, GooReads DEF Goo!MessageRow
    <3>2. CASE Goo!Get(x.row, "role") \notin {"user", "assistant"} \/ ~Goo!Filled(content)
      BY <3>1, <3>2, GooReads DEF Goo!MessageEvents
    <3>3. CASE ~(Goo!Get(x.row, "role") \notin {"user", "assistant"} \/ ~Goo!Filled(content))
      <4>1. content # <<>>
        BY <3>3, GooReads DEF Filled
      <4>2. evs = Goo!Flattened(u)
        BY <3>1, <3>3, GooReads DEF Goo!MessageEvents, Goo!Each
      <4> QED
        BY <2>2, <4>1, <4>2, GooShares
    <3> QED
      BY <3>2, <3>3
  <2> QED
    BY <2>1, <2>2
<1>2. whole.loc = <<x.at, "self", 0>> /\ whole.kind = "unparsed.record"
  BY DEF Goo!Unparsed, Goo!Ev
<1> HIDE DEF evs, stamp, header, whole
<1>3. Tells(<<whole>>, x.at, {"self"}, stamp) /\ <<whole>> # <<>>
  BY <1>2, TellsOne
<1>4. ASSUME Given(content), content # <<>>
      PROVE  Tells(FlattenSeq(u), x.at, {"content"}, stamp) /\ FlattenSeq(u) # <<>>
  <2>1. IsList(content)
    BY <1>4, AListIs
  <2>2. DOMAIN content = 1..Len(content)
    BY <2>1, ListFacts
  <2>3. \A i \in 1..Len(content) : TellsOf(u[i], x.at, {"content"}, i - 1, stamp) /\ u[i] # <<>>
    BY <2>2, GooBlock DEF stamp
  <2>4. u = [i \in DOMAIN content |-> u[i]]
    OBVIOUS
  <2> HIDE DEF content, u
  <2> QED
    BY <1>4, <2>1, <2>3, <2>4, EachTells
<1>5. {"self"} \subseteq {"self", "content"} /\ {"content"} \subseteq {"self", "content"}
  OBVIOUS
<1> HIDE DEF content, u
<1>6. Tells(evs, x.at, {"self", "content"}, stamp) /\ evs # <<>>
  BY <1>1, <1>3, <1>4, <1>5, TellsMore
<1> QED
  BY <1>6 DEF evs, stamp, header

(* Three events at parts of their own. *)
Trio(a, b, c, n) ==
    /\ a.loc[1] = n /\ b.loc[1] = n /\ c.loc[1] = n
    /\ a.loc[2] # b.loc[2] /\ a.loc[2] # c.loc[2] /\ b.loc[2] # c.loc[2]

(* The first of them, and the others or not.                               *)
LEMMA UpToThree ==
    ASSUME NEW n, NEW a, NEW b, NEW c, Trio(a, b, c, n), NEW s, NEW t, s \in {<<>>, <<b>>}, t \in {<<>>, <<c>>}
    PROVE  /\ Own((<<a>> \o s) \o t, n) /\ (<<a>> \o s) \o t # <<>> /\ Range((<<a>> \o s) \o t) \subseteq {a, b, c}
           /\ Own(<<a>> \o t, n) /\ <<a>> \o t # <<>> /\ Range(<<a>> \o t) \subseteq {a, c}
<1>1. Own(<<a>>, n) /\ Range(<<a>>) = {a} /\ <<a>> # <<>>
  BY OwnShort, ShortLists DEF Trio
<1>2. Own(s, n) /\ Range(s) \subseteq {b} /\ Own(t, n) /\ Range(t) \subseteq {c}
  BY OwnShort, ShortLists DEF Trio
<1>3. Apart(<<a>>, s) /\ Apart(<<a>>, t) /\ Apart(s, t)
  <2>1. Identity(a) # Identity(b) /\ Identity(a) # Identity(c) /\ Identity(b) # Identity(c)
    BY DEF Identity, Trio
  <2> QED
    BY <1>1, <1>2, <2>1 DEF Apart
<1> DEFINE as == <<a>> \o s
<1>4. Own(as, n) /\ Range(as) = Range(<<a>>) \cup Range(s) /\ as # <<>>
  BY <1>1, <1>2, <1>3, OwnJoin
<1>5. Own(<<a>> \o t, n) /\ Range(<<a>> \o t) = Range(<<a>>) \cup Range(t) /\ <<a>> \o t # <<>>
  BY <1>1, <1>2, <1>3, OwnJoin
<1> HIDE DEF as
<1>6. Apart(as, t)
  BY <1>3, <1>4 DEF Apart
<1>7. Own(as \o t, n) /\ Range(as \o t) = Range(as) \cup Range(t) /\ as \o t # <<>>
  BY <1>2, <1>4, <1>6, OwnJoin
<1> QED
  BY <1>1, <1>2, <1>4, <1>5, <1>7 DEF as

(* Goose's reader answers every item.                                      *)
LEMMA GooAnswers ==
    ASSUME NEW x, NEW c, x.stopped \in BOOLEAN, ~x.stopped => AList(Get(x.row, "content"))
    PROVE  IsAnswer(Goo!Take(x, c).events, x)
<1> DEFINE evs == Goo!Take(x, c).events
           session == Goo!Get(x.row, "session_id")
<1>1. CASE x.stopped
  <2>1. evs = Sql!Stopped(x)
    BY <1>1, GooShares DEF Goo!Take
  <2> QED
    BY <2>1, CommonAnswers
<1>2. CASE ~x.stopped /\ x.table = "sessions"
  <2> DEFINE header == Goo!Conversation(Goo!Get(x.row, "id"), Goo!Get(x.row, "working_dir"),
                           IF Goo!Given(Goo!Get(x.row, "servers")) THEN x.row.servers ELSE {})
             ev(part, kind) == Goo!Ev(x.at, part, 0, kind, x.row, Goo!Stamp(header), Null)
             a == ev("self", "session.start")
             b == ev("recipe", "instruction.source")
             d == ev("archived", "session.end")
             s == IF Goo!Get(x.row, "recipe") = "yes" THEN <<b>> ELSE <<>>
             t == IF Goo!Get(x.row, "archived") = "yes" THEN <<d>> ELSE <<>>
  <2>1. evs = (<<a>> \o s) \o t
    BY <1>2 DEF Goo!Take, Goo!SessionRow, Goo!SessionEvents, Goo!When
  <2>2. Trio(a, b, d, x.at)
    BY DEF Goo!Ev, Trio
  <2>3. s \in {<<>>, <<b>>} /\ t \in {<<>>, <<d>>}
    OBVIOUS
  <2> HIDE DEF evs, a, b, d, s, t
  <2>4. Own((<<a>> \o s) \o t, x.at) /\ (<<a>> \o s) \o t # <<>>
    BY <2>2, <2>3, UpToThree
  <2> QED
    BY <2>1, <2>4 DEF IsAnswer, evs
<1>3. CASE ~x.stopped /\ x.table = "threads"
  <2> DEFINE header == Goo!Conversation(Goo!Get(x.row, "id"), Goo!Get(x.row, "working_dir"), {})
             ev(part, kind) == Goo!Ev(x.at, part, 0, kind, x.row, Goo!Stamp(header), Null)
             a == ev("self", "session.start")
             b == ev("recipe", "instruction.source")
             d == ev("archived", "session.end")
             t == IF Goo!Get(x.row, "archived") = "yes" THEN <<d>> ELSE <<>>
  <2>1. evs = <<a>> \o t
    BY <1>3 DEF Goo!Take, Goo!ThreadRow, Goo!When
  <2>2. Trio(a, b, d, x.at)
    BY DEF Goo!Ev, Trio
  <2>3. <<>> \in {<<>>, <<b>>} /\ t \in {<<>>, <<d>>}
    OBVIOUS
  <2> HIDE DEF evs, a, b, d, t
  <2>4. Own(<<a>> \o t, x.at) /\ <<a>> \o t # <<>>
    BY <2>2, <2>3, UpToThree
  <2> QED
    BY <2>1, <2>4 DEF IsAnswer, evs
<1>4. CASE ~x.stopped /\ x.table \in {"messages", "thread_messages"}
  <2>1. \E headers, id : evs = Goo!MessageRow(x, headers, id)
    BY <1>4 DEF Goo!Take
  <2>2. AList(Get(x.row, "content"))
    BY <1>4
  <2>3. \A headers, id : Own(Goo!MessageRow(x, headers, id), x.at) /\ Goo!MessageRow(x, headers, id) # <<>>
    BY <2>2, GooMessage DEF Tells
  <2> HIDE DEF evs
  <2> QED
    BY <2>1, <2>3 DEF IsAnswer, evs
<1>5. CASE ~x.stopped /\ x.table \notin {"sessions", "threads", "messages", "thread_messages"}
  <2>1. evs = Sql!RowAsEvent(x)
    BY <1>5, GooShares DEF Goo!Take
  <2> QED
    BY <2>1, CommonAnswers
<1> QED
  BY <1>1, <1>2, <1>3, <1>4, <1>5

(* What opencode's reader takes of values, as any reader.                  *)
LEMMA OpeReads ==
    /\ \A r, key : Ope!Get(r, key) = Get(r, key)
    /\ \A v : Ope!Given(v) = Given(v) /\ Ope!Said(v) = Said(v) /\ Ope!Filled(v) = Filled(v)
    /\ \A c, s : Ope!When(c, s) = IF c THEN s ELSE <<>>
    /\ \A x, y : Ope!Or(x, y) = Or(x, y)
    /\ \A v : Ope!Listed(v) = IF Given(v) THEN v ELSE <<>>
<1>1. \A r, key : Ope!Get(r, key) = Get(r, key)
  BY DEF Ope!Get, Get
<1>2. \A v : Ope!Given(v) = Given(v) /\ Ope!Said(v) = Said(v) /\ Ope!Filled(v) = Filled(v)
  BY Zenon DEF Ope!Given, Given, Ope!Said, Said, Ope!Filled, Filled
<1>3. \A c, s : Ope!When(c, s) = IF c THEN s ELSE <<>>
  BY DEF Ope!When
<1>4. \A x, y : Ope!Or(x, y) = Or(x, y)
  BY DEF Ope!Or, Or, Ope!Said, Said
<1>5. \A v : Ope!Listed(v) = IF Given(v) THEN v ELSE <<>>
  BY DEF Ope!Listed, Ope!Given, Given
<1> QED
  BY <1>1, <1>2, <1>3, <1>4, <1>5

(* What should be a list, or is nothing, as one.                           *)
LEMMA ListedIs == \A v : AList(v) => IsList(IF Given(v) THEN v ELSE <<>>)
BY AListIs, ShortLists

(* A call of a tool, what it did and what came of it.                      *)
LEMMA OpeTool ==
    ASSUME NEW at0, NEW i, NEW block, NEW stamp
    PROVE  /\ TellsOf(Ope!Tool(at0, i, block, stamp), at0, {"content", "result"}, i, stamp)
           /\ Ope!Tool(at0, i, block, stamp) # <<>>
<1> DEFINE ev(kind) == Ope!Ev(at0, "content", i, kind, block, stamp, Ope!Call(block.name, block.id))
           result == Ope!Ev(at0, "result", i, "tool.result", block.state, stamp, Ope!Call(block.name, block.id))
           facet == Ope!Facet(block)
           one(kind) == <<ev(kind)>>
           over == block.state \in {"completed", "error"}
           a == one("tool.call")
           b == IF facet # Null THEN one(facet) ELSE <<>>
           c == IF over THEN <<result>> ELSE <<>>
<1>1. Ope!Tool(at0, i, block, stamp) = (a \o b) \o c
  BY DEF Ope!Tool, Ope!When
<1>2. (\A kind : ev(kind).loc = <<at0, "content", i>> /\ ev(kind).kind = kind /\ ev(kind).stamp = stamp)
      /\ result.loc = <<at0, "result", i>> /\ result.stamp = stamp
  BY DEF Ope!Ev
<1>3. facet \in {"command.exec", "file.write", "file.read", "network.request", Null}
  BY DEF Ope!Facet
<1> HIDE DEF ev, result, facet, over
<1>4. \A kind : TellsOf(one(kind), at0, {"content"}, i, stamp) /\ Tells(one(kind), at0, {"content"}, stamp)
                /\ one(kind) # <<>> /\ Range(one(kind)) = {ev(kind)}
  <2>1. \A kind : ev(kind).loc = <<at0, "content", i>> /\ ev(kind).stamp = stamp
    BY <1>2
  <2> QED
    BY <2>1, TellsOne, ShortLists
<1>5. TellsOf(<<result>>, at0, {"result"}, i, stamp) /\ Tells(<<result>>, at0, {"result"}, stamp)
  BY <1>2, TellsOne
<1>6. /\ TellsOf(b, at0, {"content"}, i, stamp) /\ Tells(b, at0, {"content"}, stamp)
      /\ Range(b) \subseteq {ev(facet)} /\ (facet = Null => Range(b) = {})
      /\ TellsOf(c, at0, {"result"}, i, stamp) /\ Tells(c, at0, {"result"}, stamp)
  BY <1>4, <1>5, TellsNone, ShortLists
<1>7. Range(a) = {ev("tool.call")} /\ TellsOf(a, at0, {"content"}, i, stamp) /\ Tells(a, at0, {"content"}, stamp) /\ a # <<>>
  BY <1>4
<1>8. \A x \in Range(a), y \in Range(b) : Identity(x) # Identity(y)
  <2>1. facet # Null => facet # "tool.call"
    BY <1>3
  <2>2. facet # Null => Identity(ev("tool.call")) # Identity(ev(facet))
    BY <1>2, <2>1 DEF Identity
  <2> QED
    BY <1>6, <1>7, <2>2
<1> DEFINE ab == a \o b
           P == {"content"}
           Q == {"result"}
<1> HIDE DEF a, b, c
<1>9. Tells(ab, at0, P \cup P, stamp) /\ ab # <<>> /\ TellsOf(ab, at0, P \cup P, i, stamp)
  BY <1>6, <1>7, <1>8, TellsApart
<1>10. P \cup P = P /\ P \cup Q = {"content", "result"} /\ P \cap Q = {}
  OBVIOUS
<1> HIDE DEF ab, P
<1>11. Tells(ab, at0, P, stamp) /\ TellsOf(ab, at0, P, i, stamp)
  BY <1>9, <1>10
<1>12. TellsOf(ab \o c, at0, P \cup Q, i, stamp) /\ ab \o c # <<>>
  BY <1>6, <1>9, <1>10, <1>11, TellsJoin
<1> HIDE DEF Q
<1> QED
  BY <1>1, <1>10, <1>12 DEF ab

(* A block of an answer.                                                   *)
LEMMA OpeBlock ==
    ASSUME NEW at0, NEW i, NEW block, NEW stamp
    PROVE  /\ TellsOf(Ope!Block(at0, i, block, stamp), at0, {"content", "result"}, i, stamp)
           /\ Ope!Block(at0, i, block, stamp) # <<>>
<1> DEFINE ev(kind) == Ope!Ev(at0, "content", i, kind, block, stamp, Null)
           evs == Ope!Block(at0, i, block, stamp)
           Good(s) == TellsOf(s, at0, {"content", "result"}, i, stamp) /\ s # <<>>
<1>1. \A kind : ev(kind).loc = <<at0, "content", i>> /\ ev(kind).stamp = stamp
  BY DEF Ope!Ev
<1>2. (\E kind : evs = <<ev(kind)>>) \/ evs = Ope!Tool(at0, i, block, stamp)
  BY DEF Ope!Block
<1> HIDE DEF ev, evs
<1>3. \A kind : TellsOf(<<ev(kind)>>, at0, {"content"}, i, stamp) /\ <<ev(kind)>> # <<>>
  BY <1>1, TellsOne
<1>4. {"content"} \subseteq {"content", "result"}
  OBVIOUS
<1>5. \A kind : Good(<<ev(kind)>>)
  BY <1>3, <1>4, TellsMore
<1>6. Good(Ope!Tool(at0, i, block, stamp))
  BY OpeTool
<1> QED
  BY <1>2, <1>5, <1>6 DEF evs

(* A message: every event has its stamp.                                   *)
LEMMA OpeMessage ==
    ASSUME NEW x, NEW headers, AList(Get(Get(x.row, "data"), "content"))
    PROVE  /\ Tells(Ope!Message(x, headers), x.at, {"self", "content", "result"},
                    Ope!Stamp(Get(x.row, "session_id"), headers))
           /\ Ope!Message(x, headers) # <<>>
<1> DEFINE data == Get(x.row, "data")
           stamp == Ope!Stamp(Get(x.row, "session_id"), headers)
           whole == Ope!Unparsed(x.at, "self", 0, x.row, stamp)
           part == Ope!Unparsed(x.at, "self", 0, data, stamp)
           ev(kind) == Ope!Ev(x.at, "self", 0, kind, data, stamp, Null)
           content == IF Given(Get(data, "content")) THEN Get(data, "content") ELSE <<>>
           u == [i \in DOMAIN content |-> IF Given(content[i]) THEN <<content[i]>> ELSE <<>>]
           blocks == FlattenSeq(u)
           v == [i \in DOMAIN blocks |-> Ope!Block(x.at, i - 1, blocks[i], stamp)]
           evs == Ope!Message(x, headers)
<1>1. IsList(content)
  BY ListedIs
<1>2. Ope!Those(content, Ope!Given) = blocks
  BY OpeReads, OpeShares DEF Ope!Those
<1>3. \/ evs = <<whole>> \/ evs = <<part>> \/ \E kind : evs = <<ev(kind)>>
      \/ blocks # <<>> /\ evs = FlattenSeq(v)
  <2> HIDE DEF content, u, blocks
  <2>1. Ope!Assistant(x.at, data, stamp) =
            IF blocks = <<>> THEN <<ev("assistant.text")>> ELSE FlattenSeq(v)
    <3>1. Ope!Listed(Ope!Get(data, "content")) = content
      BY OpeReads DEF content
    <3>2. Ope!Those(Ope!Listed(Ope!Get(data, "content")), Ope!Given) = blocks
      BY <1>2, <3>1
    <3> QED
      BY <3>2, OpeShares DEF Ope!Assistant, Ope!Each
  <2> HIDE DEF v
  <2>2. CASE ~Given(data)
    BY <2>2, OpeReads DEF Ope!Message
  <2>3. CASE Given(data)
    <3>1. \E type : evs = Ope!MessageEvents(x.at, data, type, stamp)
      BY <2>3, OpeReads DEF Ope!Message
    <3> HIDE DEF evs, data, stamp, ev, part
    <3>2. ASSUME NEW type
          PROVE  \/ Ope!MessageEvents(x.at, data, type, stamp) \in {Ope!Assistant(x.at, data, stamp), <<part>>}
                 \/ \E kind : Ope!MessageEvents(x.at, data, type, stamp) = <<ev(kind)>>
      <4>1. CASE type = "assistant"
        <5>1. "assistant" \notin DOMAIN Ope!KindOf
          BY DEF Ope!KindOf
        <5>2. Ope!MessageEvents(x.at, data, type, stamp) = Ope!Assistant(x.at, data, stamp)
          BY <4>1, <5>1 DEF Ope!MessageEvents
        <5> QED
          BY <5>2, Zenon
      <4>2. CASE type # "assistant" /\ type \in DOMAIN Ope!KindOf
        BY <4>2 DEF Ope!MessageEvents, ev
      <4>3. CASE type # "assistant" /\ type \notin DOMAIN Ope!KindOf
        BY <4>3 DEF Ope!MessageEvents, part
      <4> QED
        BY <4>1, <4>2, <4>3
    <3> QED
      BY <2>1, <3>1, <3>2
  <2> QED
    BY <2>2, <2>3
<1>4. /\ whole.loc = <<x.at, "self", 0>> /\ whole.kind = "unparsed.record"
      /\ part.loc = <<x.at, "self", 0>> /\ part.kind = "unparsed.record"
      /\ \A kind : ev(kind).loc = <<x.at, "self", 0>> /\ ev(kind).stamp = stamp
  BY DEF Ope!Unparsed, Ope!Ev
<1> DEFINE all == {"self", "content", "result"}
<1>5. {"self"} \subseteq all /\ {"content", "result"} \subseteq all
  OBVIOUS
<1>6. IsList(blocks)
  <2>1. u = [i \in DOMAIN content |-> u[i]] /\ \A i \in DOMAIN content : u[i] \in {<<>>, <<content[i]>>}
    OBVIOUS
  <2> HIDE DEF u, content
  <2> QED
    BY <1>1, <2>1, ChosenFacts
<1> HIDE DEF whole, part, ev, evs, blocks, all
<1>7. /\ Tells(<<whole>>, x.at, all, stamp) /\ <<whole>> # <<>>
      /\ Tells(<<part>>, x.at, all, stamp) /\ <<part>> # <<>>
      /\ \A kind : Tells(<<ev(kind)>>, x.at, all, stamp) /\ <<ev(kind)>> # <<>>
  <2>1. Tells(<<whole>>, x.at, {"self"}, stamp) /\ <<whole>> # <<>>
    BY <1>4, TellsOne
  <2>2. Tells(<<part>>, x.at, {"self"}, stamp) /\ <<part>> # <<>>
    BY <1>4, TellsOne
  <2>3. \A kind : Tells(<<ev(kind)>>, x.at, {"self"}, stamp) /\ <<ev(kind)>> # <<>>
    BY <1>4, TellsOne
  <2> QED
    BY <1>5, <2>1, <2>2, <2>3, TellsMore
<1>8. ASSUME blocks # <<>>
      PROVE  Tells(FlattenSeq(v), x.at, all, stamp) /\ FlattenSeq(v) # <<>>
  <2>1. DOMAIN blocks = 1..Len(blocks)
    BY <1>6, ListFacts
  <2>2. \A i \in 1..Len(blocks) : TellsOf(v[i], x.at, {"content", "result"}, i - 1, stamp) /\ v[i] # <<>>
    BY <2>1, OpeBlock
  <2>3. v = [i \in DOMAIN blocks |-> v[i]]
    OBVIOUS
  <2> DEFINE P == {"content", "result"}
  <2> HIDE DEF v, stamp, P
  <2>4. Tells(FlattenSeq(v), x.at, P, stamp) /\ FlattenSeq(v) # <<>>
    BY <1>6, <1>8, <2>2, <2>3, EachTells DEF P
  <2> QED
    BY <1>5, <2>4, TellsMore DEF P
<1> HIDE DEF v, stamp
<1>9. Tells(evs, x.at, all, stamp) /\ evs # <<>>
  BY <1>3, <1>7, <1>8
<1> QED
  BY <1>9 DEF evs, all, stamp

(* opencode's reader answers every item.                                   *)
LEMMA OpeAnswers ==
    ASSUME NEW x, NEW c, x.stopped \in BOOLEAN, ~x.stopped => AList(Get(Get(x.row, "data"), "content"))
    PROVE  IsAnswer(Ope!Take(x, c).events, x)
<1> DEFINE evs == Ope!Take(x, c).events
<1>1. CASE x.stopped
  <2>1. evs = Sql!Stopped(x)
    BY <1>1, OpeShares DEF Ope!Take
  <2> QED
    BY <2>1, CommonAnswers
<1>2. CASE ~x.stopped /\ x.table = "session"
  <2> DEFINE stamp == [session |-> Ope!Or(Ope!Get(x.row, "id"), Null), cwd |-> Ope!Get(x.row, "directory"), branch |-> Null]
             ev(part, kind) == Ope!Ev(x.at, part, 0, kind, x.row, stamp, Null)
             a == ev("self", "session.start")
             b == ev("other", "instruction.source")
             d == ev("archived", "session.end")
             t == IF Ope!Get(x.row, "archived") = "yes" THEN <<d>> ELSE <<>>
  <2>1. evs = <<a>> \o t
    BY <1>2 DEF Ope!Take, Ope!Session, Ope!When
  <2>2. Trio(a, b, d, x.at)
    BY DEF Ope!Ev, Trio
  <2>3. <<>> \in {<<>>, <<b>>} /\ t \in {<<>>, <<d>>}
    OBVIOUS
  <2> HIDE DEF evs, a, b, d, t
  <2>4. Own(<<a>> \o t, x.at) /\ <<a>> \o t # <<>>
    BY <2>2, <2>3, UpToThree
  <2> QED
    BY <2>1, <2>4 DEF IsAnswer, evs
<1>3. CASE ~x.stopped /\ x.table = "session_input"
  <2> DEFINE e == Ope!Ev(x.at, "self", 0, "user.prompt", x.row, Ope!Stamp(Ope!Get(x.row, "session_id"), c), Null)
  <2>1. evs = <<e>>
    BY <1>3 DEF Ope!Take, Ope!Input
  <2>2. e.loc[1] = x.at
    BY DEF Ope!Ev
  <2> HIDE DEF e
  <2> QED
    BY <2>1, <2>2, OneAnswers
<1>4. CASE ~x.stopped /\ x.table = "session_message"
  <2>1. evs = Ope!Message(x, c)
    BY <1>4 DEF Ope!Take
  <2>2. Own(Ope!Message(x, c), x.at) /\ Ope!Message(x, c) # <<>>
    BY <1>4, OpeMessage DEF Tells
  <2> QED
    BY <2>1, <2>2 DEF IsAnswer
<1>5. CASE ~x.stopped /\ x.table \notin {"session", "session_input", "session_message"}
  <2>1. evs = Sql!RowAsEvent(x)
    BY <1>5, OpeShares DEF Ope!Take
  <2> QED
    BY <2>1, CommonAnswers
<1> QED
  BY <1>1, <1>2, <1>3, <1>4, <1>5

(* What Amazon Q's reader takes of values, as any reader.                  *)
LEMMA AmaReads ==
    /\ \A r, key : Ama!Get(r, key) = Get(r, key)
    /\ \A v : Ama!Given(v) = Given(v) /\ Ama!Said(v) = Said(v) /\ Ama!Filled(v) = Filled(v)
    /\ \A c, s : Ama!When(c, s) = IF c THEN s ELSE <<>>
    /\ \A x, y : Ama!Or(x, y) = Or(x, y)
    /\ \A v : Ama!Listed(v) = IF Given(v) THEN v ELSE <<>>
<1>1. \A r, key : Ama!Get(r, key) = Get(r, key)
  BY DEF Ama!Get, Get
<1>2. \A v : Ama!Given(v) = Given(v) /\ Ama!Said(v) = Said(v) /\ Ama!Filled(v) = Filled(v)
  BY Zenon DEF Ama!Given, Given, Ama!Said, Said, Ama!Filled, Filled
<1>3. \A c, s : Ama!When(c, s) = IF c THEN s ELSE <<>>
  BY DEF Ama!When
<1>4. \A x, y : Ama!Or(x, y) = Or(x, y)
  BY DEF Ama!Or, Or, Ama!Said, Said
<1>5. \A v : Ama!Listed(v) = IF Given(v) THEN v ELSE <<>>
  BY DEF Ama!Listed, Ama!Given, Given
<1> QED
  BY <1>1, <1>2, <1>3, <1>4, <1>5

(* The events of every item of a list, apart from those of the others.     *)
LEMMA EachApart ==
    ASSUME NEW items0, IsList(items0), NEW u, u = [i \in DOMAIN items0 |-> u[i]],
           NEW n, NEW parts, NEW stamp,
           \A i \in 1..Len(items0) : Tells(u[i], n, parts, stamp),
           \A i, j \in 1..Len(items0) : i < j => Apart(u[i], u[j])
    PROVE  /\ Tells(FlattenSeq(u), n, parts, stamp)
           /\ \A e \in Range(FlattenSeq(u)) : \E i \in 1..Len(items0) : e \in Range(u[i])
<1> DEFINE F == FlattenSeq(u)
<1>1. DOMAIN items0 = 1..Len(items0) /\ Len(items0) \in Nat
  BY ListFacts
<1>2. IsList(u) /\ Len(u) = Len(items0)
  BY <1>1, MadeIsList
<1>3. Own(F, n) /\ Range(F) = UNION {Range(u[i]) : i \in 1..Len(u)}
  <2>1. \A i \in 1..Len(u) : Own(u[i], n)
    BY <1>2 DEF Tells
  <2> QED
    BY <1>2, <2>1, OwnEach
<1> HIDE DEF F
<1>4. \A e \in Range(F) : \E i \in 1..Len(items0) : e \in Range(u[i])
  BY <1>2, <1>3
<1>5. \A e \in Range(F) : e.loc[2] \in parts /\ (e.kind = "unparsed.record" \/ e.stamp = stamp)
  BY <1>4 DEF Tells
<1> QED
  BY <1>3, <1>4, <1>5 DEF Tells, F

(* Events of some parts, and events of others after them.                  *)
LEMMA TellsBoth ==
    ASSUME NEW s, NEW t, NEW n, NEW p, NEW q, NEW stamp,
           Tells(s, n, p, stamp), Tells(t, n, q, stamp), p \cap q = {}
    PROVE  /\ Tells(s \o t, n, p \cup q, stamp)
           /\ (s # <<>> \/ t # <<>>) => s \o t # <<>>
           /\ Range(s \o t) = Range(s) \cup Range(t)
<1>1. IsList(s) /\ IsList(t)
  BY DEF Tells, Own
<1>2. Range(s \o t) = Range(s) \cup Range(t)
  BY <1>1, ListsJoin
<1>3. /\ Tells(s \o t, n, p \cup q, stamp)
      /\ (s # <<>> \/ t # <<>>) => s \o t # <<>>
  BY TellsJoin
<1> QED
  BY <1>2, <1>3

(* Two keys and a number after them.                                       *)
LEMMA AppendedTo ==
    /\ \A i, j, k : Append(<<i, j>>, k)[1] = i /\ Append(<<i, j>>, k)[2] = j /\ Append(<<i, j>>, k)[3] = k
    /\ \A i, k : Append(<<i>>, k)[1] = i /\ Append(<<i>>, k)[2] = k
    /\ \A k : Append(<<>>, k)[1] = k
<1>1. ASSUME NEW i, NEW j, NEW k
      PROVE  Append(<<i, j>>, k)[1] = i /\ Append(<<i, j>>, k)[2] = j /\ Append(<<i, j>>, k)[3] = k
  <2> DEFINE a == <<i, j>>
  <2>1. a \in Seq({i, j}) /\ Len(a) = 2 /\ a[1] = i /\ a[2] = j
    OBVIOUS
  <2>2. IsList(a)
    BY <2>1, SeqIsList
  <2> HIDE DEF a
  <2> DEFINE b == Append(a, k)
  <2>3. Len(a) = 2 /\ b[Len(a) + 1] = k /\ \A m \in 1..Len(a) : b[m] = a[m]
    BY <2>1, <2>2, ListAppends, ZenonT(30)
  <2> HIDE DEF b
  <2>4. b[1] = i /\ b[2] = j /\ b[3] = k
    BY <2>1, <2>3
  <2> QED
    BY <2>4 DEF a, b
<1>2. ASSUME NEW i, NEW k
      PROVE  Append(<<i>>, k)[1] = i /\ Append(<<i>>, k)[2] = k
  <2>1. Append(<<i>>, k) = <<i, k>>
    BY Appended
  <2> QED
    BY <2>1
<1>3. ASSUME NEW k
      PROVE  Append(<<>>, k)[1] = k
  <2> DEFINE a == <<>>
  <2>1. IsList(a) /\ Len(a) = 0
    BY ShortLists
  <2> HIDE DEF a
  <2> DEFINE b == Append(a, k)
  <2>2. b[Len(a) + 1] = k
    BY <2>1, ListAppends
  <2>3. Len(a) + 1 = 1
    BY <2>1
  <2> HIDE DEF b
  <2>4. b[1] = k
    BY <2>2, <2>3
  <2> QED
    BY <2>4 DEF a, b
<1> QED
  BY <1>1, <1>2, <1>3

(* A call of a tool and what it did.                                       *)
LEMMA AmaToolUse ==
    ASSUME NEW at0, NEW i, NEW j, NEW use, NEW stamp
    PROVE  LET evs == Ama!ToolUse(at0, <<i, j>>, use, stamp)
           IN  /\ Tells(evs, at0, {"tool", "facet"}, stamp)
               /\ \A e \in Range(evs) : e.loc[3][1] = i /\ e.loc[3][2] = j
<1> DEFINE n == <<i, j>>
           facets == Ama!Facets(use)
           says == Ama!Call(use.name, use.id)
           call == Ama!Ev(at0, "tool", n, "tool.call", use, stamp, says)
           num(k) == Append(n, k - 1)
           facet(k) == Ama!Ev(at0, "facet", num(k), facets[k], use, stamp, says)
           u == [k \in DOMAIN facets |-> <<facet(k)>>]
           a == <<call>>
           P == {"tool"}
           Q == {"facet"}
<1>1. Ama!ToolUse(at0, <<i, j>>, use, stamp) = a \o FlattenSeq(u)
  <2>1. Ama!ToolUse(at0, <<i, j>>, use, stamp) = a \o Ama!Flattened(u)
    BY DEF Ama!ToolUse, Ama!Each
  <2> QED
    BY <2>1, AmaShares
<1>2. IsList(facets)
  <2>1. facets = <<>> \/ \E kind : facets = <<kind>>
    BY DEF Ama!Facets
  <2> QED
    BY <2>1, ShortLists
<1>3. call.loc = <<at0, "tool", n>> /\ call.stamp = stamp
  BY DEF Ama!Ev
<1>4. \A k : facet(k).loc = <<at0, "facet", num(k)>> /\ facet(k).stamp = stamp
  BY DEF Ama!Ev
<1>5. n[1] = i /\ n[2] = j /\ \A k : num(k)[1] = i /\ num(k)[2] = j /\ num(k)[3] = k - 1
  BY AppendedTo
<1> HIDE DEF n, num, facets, call, facet
<1>6. Tells(a, at0, P, stamp) /\ \A e \in Range(a) : e.loc[3][1] = i /\ e.loc[3][2] = j
  <2>1. Range(a) = {call}
    BY ShortLists
  <2>2. call.loc[3] = n
    BY <1>3
  <2> QED
    BY <1>3, <1>5, <2>1, <2>2, TellsOne
<1>7. Tells(FlattenSeq(u), at0, Q, stamp) /\ \A e \in Range(FlattenSeq(u)) : e.loc[3][1] = i /\ e.loc[3][2] = j
  <2>1. DOMAIN facets = 1..Len(facets) /\ Len(facets) \in Nat
    BY <1>2, ListFacts
  <2>2. ASSUME NEW k
        PROVE  Tells(<<facet(k)>>, at0, Q, stamp) /\ Range(<<facet(k)>>) = {facet(k)}
    <3>1. facet(k).loc = <<at0, "facet", num(k)>> /\ facet(k).stamp = stamp
      BY <1>4
    <3>2. Tells(<<facet(k)>>, at0, Q, stamp)
      BY <3>1, TellsOne
    <3> QED
      BY <3>2, ShortLists
  <2>3. u = [k \in DOMAIN facets |-> u[k]] /\ \A k \in 1..Len(facets) : u[k] = <<facet(k)>>
    BY <2>1
  <2> HIDE DEF u, Q
  <2>4. \A k \in 1..Len(facets) : Tells(u[k], at0, Q, stamp) /\ Range(u[k]) = {facet(k)}
    BY <2>2, <2>3
  <2>5. ASSUME NEW k \in 1..Len(facets), NEW m \in 1..Len(facets), k < m
        PROVE  Apart(u[k], u[m])
    <3>1. facet(k).loc[3] = num(k) /\ facet(m).loc[3] = num(m)
      BY <1>4
    <3>2. facet(k).loc[3][3] = k - 1 /\ facet(m).loc[3][3] = m - 1
      BY <1>5, <3>1
    <3>3. k - 1 # m - 1
      BY <2>1, <2>5
    <3>4. facet(k).loc # facet(m).loc
      BY <3>2, <3>3
    <3> QED
      BY <2>4, <3>4 DEF Apart, Identity
  <2>6. /\ Tells(FlattenSeq(u), at0, Q, stamp)
        /\ \A e \in Range(FlattenSeq(u)) : \E k \in 1..Len(facets) : e \in Range(u[k])
    BY <1>2, <2>3, <2>4, <2>5, EachApart
  <2>7. ASSUME NEW e \in Range(FlattenSeq(u))
        PROVE  e.loc[3][1] = i /\ e.loc[3][2] = j
    <3>1. PICK k \in 1..Len(facets) : e = facet(k)
      BY <2>4, <2>6
    <3>2. e.loc[3] = num(k)
      BY <1>4, <3>1
    <3> QED
      BY <1>5, <3>2
  <2> QED
    BY <2>6, <2>7
<1>8. P \cap Q = {} /\ P \cup Q = {"tool", "facet"}
  OBVIOUS
<1> HIDE DEF a, u, P, Q
<1>9. Tells(a \o FlattenSeq(u), at0, P \cup Q, stamp) /\ Range(a \o FlattenSeq(u)) = Range(a) \cup Range(FlattenSeq(u))
  BY <1>6, <1>7, <1>8, TellsBoth
<1> QED
  BY <1>1, <1>6, <1>7, <1>8, <1>9

(* The number of the message, if it has one. *)
Numbers(m, first) == m = <<>> \/ m = <<first>>

(* Events that all have that number first, if there is one. *)
NumberedAs(evs, m, first) == m = <<first>> => \A e \in Range(evs) : e.loc[3][1] = first

(* The parts of a row that such a message and its results are in. *)
PartsOf(part) == {part, Ama!ResultsOf[part]}

(* What a message of the person says, and the results that it carries.     *)
LEMMA AmaUser ==
    ASSUME NEW at0, NEW part, part \in {"user", "next"}, NEW m, NEW first, Numbers(m, first),
           NEW message, NEW stamp, NEW sent, NEW outside,
           AList(Get(Get(message, "content"), "tool_use_results"))
    PROVE  LET evs == Ama!UserMessage(at0, part, m, message, stamp, sent, outside)
           IN  Tells(evs, at0, PartsOf(part), stamp) /\ NumberedAs(evs, m, first)
<1> DEFINE content == Get(message, "content")
           results == IF Given(Get(content, "tool_use_results")) THEN Get(content, "tool_use_results") ELSE <<>>
           says == [sent |-> sent, outside |-> outside]
           prompt == Ama!Ev(at0, part, m, "user.prompt", message, stamp, says)
           whole == Ama!Unparsed(at0, part, m, message, stamp)
           num(k) == Append(m, k - 1)
           other == Ama!ResultsOf[part]
           result(k) == Ama!Ev(at0, other, num(k), "tool.result", results[k], stamp,
                               Ama!Call(Null, results[k].tool_use_id))
           u == [k \in DOMAIN results |-> IF Given(results[k]) THEN <<result(k)>> ELSE <<>>]
           evs == Ama!UserMessage(at0, part, m, message, stamp, sent, outside)
           P == {part}
           Q == {other}
<1>1. \E a, b : a \in {<<>>, <<prompt>>} /\ b \in {<<>>, <<whole>>} /\ evs = (a \o FlattenSeq(u)) \o b
  <2> DEFINE tag == Ama!Get(content, "tag")
             prompted == tag = "Prompt" \/ (tag = "CancelledToolUses" /\ Ama!Said(Ama!Get(content, "prompt")))
             a == IF prompted THEN <<prompt>> ELSE <<>>
             b == IF content = Odd THEN <<whole>> ELSE <<>>
  <2>1. evs = (a \o Ama!Flattened(u)) \o b
    BY AmaReads DEF Ama!UserMessage, Ama!Each
  <2>2. Ama!Flattened(u) = FlattenSeq(u)
    BY AmaShares
  <2>3. a \in {<<>>, <<prompt>>} /\ b \in {<<>>, <<whole>>}
    OBVIOUS
  <2> HIDE DEF a, b, evs, u
  <2> QED
    BY <2>1, <2>2, <2>3
<1>2. IsList(results)
  BY ListedIs
<1>3. /\ prompt.loc = <<at0, part, m>> /\ prompt.stamp = stamp /\ prompt.kind = "user.prompt"
      /\ whole.loc = <<at0, part, m>> /\ whole.kind = "unparsed.record"
  BY DEF Ama!Ev, Ama!Unparsed
<1>4. \A k : result(k).loc = <<at0, other, num(k)>> /\ result(k).stamp = stamp
  BY DEF Ama!Ev
<1>5. other # part
  BY DEF Ama!ResultsOf
<1>6. \E place : \A k : num(k)[place] = k - 1
  <2>0. m = <<>> \/ m = <<first>>
    BY DEF Numbers
  <2>1. CASE m = <<>>
    <3>1. \A k : num(k)[1] = k - 1
      BY <2>1, AppendedTo
    <3> QED
      BY <3>1
  <2>2. CASE m = <<first>>
    <3>1. \A k : num(k)[2] = k - 1
      BY <2>2, AppendedTo
    <3> QED
      BY <3>1
  <2> QED
    BY <2>0, <2>1, <2>2
<1>7. m = <<first>> => m[1] = first /\ \A k : num(k)[1] = first
  BY AppendedTo
<1> HIDE DEF content, results, prompt, whole, num, other, result, evs
<1>8. PICK place : \A k : num(k)[place] = k - 1
  BY <1>6
<1>9. /\ Tells(FlattenSeq(u), at0, Q, stamp)
      /\ \A e \in Range(FlattenSeq(u)) : \E k : e = result(k)
  <2>1. DOMAIN results = 1..Len(results) /\ Len(results) \in Nat
    BY <1>2, ListFacts
  <2>2. u = [k \in DOMAIN results |-> u[k]] /\ \A k \in 1..Len(results) : u[k] \in {<<>>, <<result(k)>>}
    BY <2>1
  <2> HIDE DEF u, Q
  <2>3. ASSUME NEW k \in 1..Len(results)
        PROVE  Tells(u[k], at0, Q, stamp) /\ Range(u[k]) \subseteq {result(k)}
    <3>1. result(k).loc = <<at0, other, num(k)>> /\ result(k).stamp = stamp
      BY <1>4
    <3>2. Tells(<<result(k)>>, at0, Q, stamp) /\ Range(<<result(k)>>) = {result(k)}
      BY <3>1, TellsOne, ShortLists DEF Q
    <3>3. Tells(<<>>, at0, Q, stamp) /\ Range(<<>>) = {}
      BY TellsNone, ShortLists
    <3> QED
      BY <2>2, <3>2, <3>3
  <2>4. ASSUME NEW k \in 1..Len(results), NEW l \in 1..Len(results), k < l
        PROVE  Apart(u[k], u[l])
    <3>1. result(k).loc[3] = num(k) /\ result(l).loc[3] = num(l)
      BY <1>4
    <3>2. result(k).loc[3][place] = k - 1 /\ result(l).loc[3][place] = l - 1
      BY <1>8, <3>1
    <3>3. k - 1 # l - 1
      BY <2>1, <2>4
    <3>4. result(k).loc # result(l).loc
      BY <3>2, <3>3
    <3> QED
      BY <2>3, <3>4 DEF Apart, Identity
  <2>5. \A k \in 1..Len(results) : Tells(u[k], at0, Q, stamp)
    BY <2>3
  <2>6. /\ Tells(FlattenSeq(u), at0, Q, stamp)
        /\ \A e \in Range(FlattenSeq(u)) : \E k \in 1..Len(results) : e \in Range(u[k])
    BY <1>2, <2>2, <2>4, <2>5, EachApart
  <2> QED
    BY <2>3, <2>6
<1>10. PICK a, b : a \in {<<>>, <<prompt>>} /\ b \in {<<>>, <<whole>>} /\ evs = (a \o FlattenSeq(u)) \o b
  BY <1>1
<1>11. Tells(a, at0, P, stamp) /\ Range(a) \subseteq {prompt}
  <2>1. Tells(<<prompt>>, at0, P, stamp) /\ Range(<<prompt>>) = {prompt}
    BY <1>3, TellsOne, ShortLists
  <2>2. Tells(<<>>, at0, P, stamp) /\ Range(<<>>) = {}
    BY TellsNone, ShortLists
  <2>3. a = <<>> \/ a = <<prompt>>
    BY <1>10
  <2> HIDE DEF P
  <2> QED
    BY <2>1, <2>2, <2>3
<1>12. Tells(b, at0, P, stamp) /\ Range(b) \subseteq {whole}
  <2>1. Tells(<<whole>>, at0, P, stamp) /\ Range(<<whole>>) = {whole}
    BY <1>3, TellsOne, ShortLists
  <2>2. Tells(<<>>, at0, P, stamp) /\ Range(<<>>) = {}
    BY TellsNone, ShortLists
  <2>3. b = <<>> \/ b = <<whole>>
    BY <1>10
  <2> HIDE DEF P
  <2> QED
    BY <2>1, <2>2, <2>3
<1> DEFINE r == FlattenSeq(u)
           ar == a \o r
<1>13. P \cap Q = {}
  BY <1>5
<1> HIDE DEF u, P, Q, r
<1>14. Tells(ar, at0, P \cup Q, stamp) /\ Range(ar) = Range(a) \cup Range(r)
  BY <1>9, <1>11, <1>13, TellsBoth DEF r
<1> HIDE DEF ar
<1>15. \A x \in Range(ar), y \in Range(b) : Identity(x) # Identity(y)
  <2> SUFFICES ASSUME NEW x \in Range(ar), NEW y \in Range(b) PROVE Identity(x) # Identity(y)
    OBVIOUS
  <2>1. y = whole
    BY <1>12
  <2>2. CASE x \in Range(a)
    <3>1. x = prompt
      BY <1>11, <2>2
    <3>2. x.kind # y.kind
      BY <1>3, <2>1, <3>1
    <3> QED
      BY <3>2 DEF Identity
  <2>3. CASE x \in Range(r)
    <3>1. PICK k : x = result(k)
      BY <1>9, <2>3 DEF r
    <3>2. x.loc[2] = other /\ y.loc[2] = part
      BY <1>3, <1>4, <2>1, <3>1
    <3>3. x.loc # y.loc
      BY <1>5, <3>2
    <3> QED
      BY <3>3 DEF Identity
  <2> QED
    BY <1>14, <2>2, <2>3
<1>16. Tells(ar \o b, at0, (P \cup Q) \cup P, stamp) /\ Range(ar \o b) = Range(ar) \cup Range(b)
  BY <1>12, <1>14, <1>15, TellsApart
<1>17. (P \cup Q) \cup P = PartsOf(part)
  BY DEF P, Q, PartsOf, other
<1>18. ASSUME m = <<first>>, NEW e \in Range(ar \o b)
       PROVE  e.loc[3][1] = first
  <2>1. e \in {prompt, whole} \/ \E k : e = result(k)
    BY <1>9, <1>11, <1>12, <1>14, <1>16, <1>18 DEF r
  <2>2. prompt.loc[3] = m /\ whole.loc[3] = m /\ \A k : result(k).loc[3] = num(k)
    BY <1>3, <1>4
  <2>3. CASE e \in {prompt, whole}
    <3>1. e.loc[3] = m
      BY <2>2, <2>3
    <3> QED
      BY <1>7, <1>18, <3>1
  <2>4. CASE \E k : e = result(k)
    <3>1. PICK k : e = result(k)
      BY <2>4
    <3>2. e.loc[3] = num(k)
      BY <2>2, <3>1
    <3> QED
      BY <1>7, <1>18, <3>2
  <2> QED
    BY <2>1, <2>3, <2>4
<1>19. evs = ar \o b
  BY <1>10 DEF ar, r
<1> QED
  BY <1>16, <1>17, <1>18, <1>19 DEF evs, NumberedAs

(* What the assistant said, and the tools that it called.                  *)
LEMMA AmaAssistant ==
    ASSUME NEW at0, NEW i, NEW message, NEW stamp, NEW outside,
           AList(Get(Get(message, "body"), "tool_uses"))
    PROVE  LET evs == Ama!AssistantMessage(at0, i, message, stamp, outside)
           IN  /\ Tells(evs, at0, {"assistant", "tool", "facet"}, stamp) /\ evs # <<>>
               /\ \A e \in Range(evs) : e.loc[3][1] = i
<1> DEFINE body == Get(message, "body")
           uses == IF Given(Get(body, "tool_uses")) THEN Get(body, "tool_uses") ELSE <<>>
           whole == Ama!Unparsed(at0, "assistant", <<i>>, message, stamp)
           text == Ama!Ev(at0, "assistant", <<i>>, "assistant.text", body, stamp,
                          [sent |-> TRUE, outside |-> outside])
           calls(k) == Ama!ToolUse(at0, <<i, k - 1>>, uses[k], stamp)
           u == [k \in DOMAIN uses |-> IF Given(uses[k]) THEN calls(k) ELSE <<>>]
           evs == Ama!AssistantMessage(at0, i, message, stamp, outside)
           P == {"assistant"}
           Q == {"tool", "facet"}
<1>1. evs = <<whole>> \/ evs = <<text>> \o FlattenSeq(u)
  <2>1. evs = <<whole>> \/ evs = <<text>> \o Ama!Flattened(u)
    BY AmaReads DEF Ama!AssistantMessage, Ama!Each
  <2> QED
    BY <2>1, AmaShares
<1>2. IsList(uses)
  BY ListedIs
<1>3. /\ whole.loc = <<at0, "assistant", <<i>>>> /\ whole.kind = "unparsed.record"
      /\ text.loc = <<at0, "assistant", <<i>>>> /\ text.stamp = stamp
  BY DEF Ama!Ev, Ama!Unparsed
<1>4. \A k : /\ Tells(calls(k), at0, Q, stamp)
             /\ \A e \in Range(calls(k)) : e.loc[3][1] = i /\ e.loc[3][2] = k - 1
  BY AmaToolUse
<1> HIDE DEF body, uses, whole, text, calls, evs
<1>5. /\ Tells(<<whole>>, at0, P, stamp) /\ Range(<<whole>>) = {whole} /\ <<whole>> # <<>>
      /\ Tells(<<text>>, at0, P, stamp) /\ Range(<<text>>) = {text} /\ <<text>> # <<>>
  BY <1>3, TellsOne, ShortLists
<1>6. /\ Tells(FlattenSeq(u), at0, Q, stamp)
      /\ \A e \in Range(FlattenSeq(u)) : e.loc[3][1] = i
  <2>1. DOMAIN uses = 1..Len(uses) /\ Len(uses) \in Nat
    BY <1>2, ListFacts
  <2>2. u = [k \in DOMAIN uses |-> u[k]] /\ \A k \in 1..Len(uses) : u[k] \in {<<>>, calls(k)}
    BY <2>1
  <2>3. Tells(<<>>, at0, Q, stamp) /\ Range(<<>>) = {}
    BY TellsNone, ShortLists
  <2> HIDE DEF u, Q
  <2>4. \A k \in 1..Len(uses) : Tells(u[k], at0, Q, stamp)
    BY <1>4, <2>2, <2>3
  <2>5. \A k \in 1..Len(uses) : Range(u[k]) \subseteq Range(calls(k))
    BY <2>2, <2>3
  <2>6. ASSUME NEW k \in 1..Len(uses), NEW l \in 1..Len(uses), k < l
        PROVE  Apart(u[k], u[l])
    <3> SUFFICES ASSUME NEW x \in Range(u[k]), NEW y \in Range(u[l]) PROVE Identity(x) # Identity(y)
      BY DEF Apart
    <3>1. x.loc[3][2] = k - 1 /\ y.loc[3][2] = l - 1
      BY <1>4, <2>5
    <3>2. k - 1 # l - 1
      BY <2>1, <2>6
    <3>3. x.loc # y.loc
      BY <3>1, <3>2
    <3> QED
      BY <3>3 DEF Identity
  <2>7. /\ Tells(FlattenSeq(u), at0, Q, stamp)
        /\ \A e \in Range(FlattenSeq(u)) : \E k \in 1..Len(uses) : e \in Range(u[k])
    BY <1>2, <2>2, <2>4, <2>6, EachApart
  <2>8. \A k : \A e \in Range(calls(k)) : e.loc[3][1] = i
    BY <1>4
  <2> QED
    BY <2>5, <2>7, <2>8
<1>7. <<i>>[1] = i
  OBVIOUS
<1>8. whole.loc[3] = <<i>> /\ text.loc[3] = <<i>>
  BY <1>3
<1>9. P \cap Q = {} /\ P \cup Q = {"assistant", "tool", "facet"}
  OBVIOUS
<1> DEFINE all == {"assistant", "tool", "facet"}
<1>10. P \subseteq all
  OBVIOUS
<1> HIDE DEF u, P, Q, all
<1>11. CASE evs = <<whole>>
  <2>1. Tells(evs, at0, all, stamp) /\ evs # <<>>
    BY <1>5, <1>10, <1>11, TellsMore
  <2>2. \A e \in Range(evs) : e.loc[3] = <<i>>
    BY <1>5, <1>8, <1>11
  <2> QED
    BY <1>7, <2>1, <2>2 DEF all, evs
<1>12. CASE evs = <<text>> \o FlattenSeq(u)
  <2> DEFINE a == <<text>>
             F == FlattenSeq(u)
  <2>0. Tells(a, at0, P, stamp) /\ a # <<>> /\ Tells(F, at0, Q, stamp)
    BY <1>5, <1>6
  <2> HIDE DEF a, F
  <2>1. Tells(a \o F, at0, P \cup Q, stamp) /\ a \o F # <<>> /\ Range(a \o F) = Range(a) \cup Range(F)
    BY <1>9, <2>0, TellsBoth
  <2>2. evs = a \o F
    BY <1>12 DEF a, F
  <2>3. \A e \in Range(a) : e.loc[3] = <<i>>
    BY <1>5, <1>8 DEF a
  <2>4. \A e \in Range(F) : e.loc[3][1] = i
    BY <1>6 DEF F
  <2>5. \A e \in Range(evs) : e.loc[3][1] = i
    BY <1>7, <2>1, <2>2, <2>3, <2>4
  <2> QED
    BY <1>9, <2>1, <2>2, <2>5 DEF evs
<1> QED
  BY <1>1, <1>11, <1>12 DEF evs

(* What the reader takes for granted of an entry of the history. *)
EntryFits(entry) ==
    /\ AList(Get(Get(Get(entry, "user"), "content"), "tool_use_results"))
    /\ AList(Get(Get(Get(entry, "assistant"), "body"), "tool_uses"))

(* The parts of a row that an entry of the history is in. *)
EntryParts == ({"user", "user_result"} \cup {"assistant", "tool", "facet"}) \cup {"entry"}

(* An entry of the history.                                                *)
LEMMA AmaEntry ==
    ASSUME NEW at0, NEW i, NEW entry, NEW stamp, NEW range, EntryFits(entry)
    PROVE  LET evs == Ama!Entry(at0, i, entry, stamp, range)
           IN  Tells(evs, at0, EntryParts, stamp) /\ \A e \in Range(evs) : e.loc[3][1] = i
<1> DEFINE user == Get(entry, "user")
           assistant == Get(entry, "assistant")
           outside == Ama!Outside(range, i)
           whole == Ama!Unparsed(at0, "entry", <<i>>, entry, stamp)
           m == <<i>>
           sent == TRUE
           said == Ama!UserMessage(at0, "user", m, user, stamp, sent, outside)
           replied == Ama!AssistantMessage(at0, i, assistant, stamp, outside)
           a == IF Given(user) THEN said ELSE <<>>
           b == IF Given(assistant) THEN replied ELSE <<>>
           c == IF ~Given(user) /\ ~Given(assistant) THEN <<whole>> ELSE <<>>
           evs == Ama!Entry(at0, i, entry, stamp, range)
           P == {"user", "user_result"}
           Q == {"assistant", "tool", "facet"}
           R == {"entry"}
           Of(s) == \A e \in Range(s) : e.loc[3][1] = i
<1>1. evs = (a \o b) \o c
  BY AmaReads DEF Ama!Entry
<1>2. Tells(said, at0, P, stamp) /\ Of(said)
  <2>1. PartsOf("user") = P
    BY DEF PartsOf, Ama!ResultsOf
  <2>2. AList(Get(Get(user, "content"), "tool_use_results"))
    BY DEF EntryFits
  <2>3. m = <<i>> /\ "user" \in {"user", "next"} /\ Numbers(m, i)
    BY DEF Numbers
  <2> HIDE DEF user, outside, m, sent
  <2>4. Tells(said, at0, PartsOf("user"), stamp) /\ NumberedAs(said, m, i)
    BY <2>2, <2>3, AmaUser
  <2>5. Of(said)
    BY <2>3, <2>4 DEF NumberedAs
  <2> QED
    BY <2>1, <2>4, <2>5
<1>3. Tells(replied, at0, Q, stamp) /\ Of(replied)
  BY AmaAssistant DEF EntryFits
<1>4. Tells(<<whole>>, at0, R, stamp) /\ Of(<<whole>>)
  <2>1. whole.loc = <<at0, "entry", <<i>>>> /\ whole.kind = "unparsed.record"
    BY DEF Ama!Unparsed, Ama!Ev
  <2>2. whole.loc[3] = <<i>> /\ <<i>>[1] = i
    BY <2>1
  <2> HIDE DEF whole
  <2>3. Tells(<<whole>>, at0, {"entry"}, stamp)
    BY <2>1, TellsOne
  <2>4. Range(<<whole>>) = {whole}
    BY ShortLists
  <2> QED
    BY <2>2, <2>3, <2>4
<1>5. \A p : Tells(<<>>, at0, p, stamp)
  BY TellsNone
<1>6. Of(<<>>)
  BY ShortLists
<1> HIDE DEF evs, said, replied, whole, P, Q, R
<1>7. Tells(a, at0, P, stamp) /\ Tells(b, at0, Q, stamp) /\ Tells(c, at0, R, stamp)
  BY <1>2, <1>3, <1>4, <1>5
<1>8. Of(a) /\ Of(b) /\ Of(c)
  BY <1>2, <1>3, <1>4, <1>6
<1>9. P \cap Q = {} /\ (P \cup Q) \cap R = {} /\ (P \cup Q) \cup R = EntryParts
  BY DEF P, Q, R, EntryParts
<1> DEFINE ab == a \o b
           pq == P \cup Q
<1> HIDE DEF a, b, c
<1>10. Tells(ab, at0, pq, stamp) /\ Range(ab) = Range(a) \cup Range(b)
  BY <1>7, <1>9, TellsBoth
<1> HIDE DEF ab, pq
<1>11. Tells(ab \o c, at0, pq \cup R, stamp) /\ Range(ab \o c) = Range(ab) \cup Range(c)
  BY <1>7, <1>9, <1>10, TellsBoth DEF pq
<1>12. Of(ab \o c)
  BY <1>8, <1>10, <1>11
<1> QED
  BY <1>1, <1>9, <1>11, <1>12 DEF ab, pq, evs

(* What the document of a conversation has, for its reader.                *)
LEMMA AmaDocument ==
    ASSUME NEW state, Ama!DocumentFits(state)
    PROVE  LET history == IF Given(Get(state, "history")) THEN Get(state, "history") ELSE <<>>
               wrote == IF Given(Get(state, "file_line_tracker")) THEN Get(state, "file_line_tracker") ELSE <<>>
           IN  /\ IsList(history) /\ \A i \in DOMAIN history : EntryFits(history[i])
               /\ AList(Get(Get(Get(state, "next_message"), "content"), "tool_use_results"))
               /\ IsList(wrote) /\ \A i, j \in DOMAIN wrote : i # j => wrote[i] # wrote[j]
<1>1. \A v : Ama!AList(v) = AList(v)
  BY DEF Ama!AList, AList, Ama!Given, Given, Ama!Members, Members
<1>2. /\ AList(Get(state, "history")) /\ AList(Get(state, "file_line_tracker"))
      /\ AList(Get(Get(Get(state, "next_message"), "content"), "tool_use_results"))
  BY <1>1, AmaReads DEF Ama!DocumentFits
<1> DEFINE history == IF Given(Get(state, "history")) THEN Get(state, "history") ELSE <<>>
           wrote == IF Given(Get(state, "file_line_tracker")) THEN Get(state, "file_line_tracker") ELSE <<>>
<1>3. Ama!Listed(Ama!Get(state, "history")) = history /\ Ama!Listed(Ama!Get(state, "file_line_tracker")) = wrote
  BY AmaReads
<1>4. \A i, j \in DOMAIN wrote : i # j => wrote[i] # wrote[j]
  <2> DEFINE told == Ama!Get(state, "file_line_tracker")
             listed == Ama!Listed(told)
  <2>1. \A i, j \in DOMAIN listed : i # j => told[i] # told[j]
    BY DEF Ama!DocumentFits
  <2>2. wrote = <<>> \/ wrote = told
    BY AmaReads
  <2>3. DOMAIN <<>> = {}
    OBVIOUS
  <2>4. listed = wrote
    BY <1>3
  <2> HIDE DEF told, listed, wrote
  <2> QED
    BY <2>1, <2>2, <2>3, <2>4
<1>5. ASSUME NEW i \in DOMAIN history
      PROVE  EntryFits(history[i])
  <2> HIDE DEF history
  <2>1. /\ Ama!AList(Ama!Get(Ama!Get(Ama!Get(history[i], "user"), "content"), "tool_use_results"))
        /\ Ama!AList(Ama!Get(Ama!Get(Ama!Get(history[i], "assistant"), "body"), "tool_uses"))
    <3> DEFINE listed == Ama!Listed(Ama!Get(state, "history"))
    <3>1. \A k \in DOMAIN listed :
             /\ Ama!AList(Ama!Get(Ama!Get(Ama!Get(Ama!Get(state, "history")[k], "user"), "content"), "tool_use_results"))
             /\ Ama!AList(Ama!Get(Ama!Get(Ama!Get(Ama!Get(state, "history")[k], "assistant"), "body"), "tool_uses"))
      BY DEF Ama!DocumentFits
    <3>2. history = Ama!Get(state, "history")
      <4>1. history = <<>> \/ history = Get(state, "history")
        BY DEF history
      <4>2. DOMAIN <<>> = {}
        OBVIOUS
      <4> QED
        BY <4>1, <4>2, AmaReads
    <3>3. i \in DOMAIN listed
      BY <1>3
    <3> HIDE DEF listed
    <3> QED
      BY <3>1, <3>2, <3>3
  <2> QED
    BY <1>1, <2>1, AmaReads DEF EntryFits
<1>6. IsList(history) /\ IsList(wrote)
  BY <1>2, ListedIs
<1> QED
  BY <1>2, <1>4, <1>5, <1>6

(* The history of a conversation, entry by entry.                          *)
LEMMA AmaHistory ==
    ASSUME NEW at0, NEW history, IsList(history), \A i \in DOMAIN history : EntryFits(history[i]),
           NEW stamp, NEW range
    PROVE  LET u == [i \in DOMAIN history |-> IF Given(history[i]) THEN <<history[i]>> ELSE <<>>]
               entries == FlattenSeq(u)
               v == [i \in DOMAIN entries |-> Ama!Entry(at0, i - 1, entries[i], stamp, range)]
           IN  Tells(FlattenSeq(v), at0, EntryParts, stamp)
<1> DEFINE u == [i \in DOMAIN history |-> IF Given(history[i]) THEN <<history[i]>> ELSE <<>>]
           entries == FlattenSeq(u)
           shown(i) == Ama!Entry(at0, i - 1, entries[i], stamp, range)
           v == [i \in DOMAIN entries |-> shown(i)]
<1>1. IsList(entries) /\ Range(entries) \subseteq Range(history)
  <2>1. u = [i \in DOMAIN history |-> u[i]] /\ \A i \in DOMAIN history : u[i] \in {<<>>, <<history[i]>>}
    OBVIOUS
  <2> HIDE DEF u
  <2> QED
    BY <2>1, ChosenFacts
<1>2. Range(history) = {history[i] : i \in DOMAIN history}
  BY DEF Range
<1> HIDE DEF entries
<1>3. /\ DOMAIN entries = 1..Len(entries) /\ Len(entries) \in Nat
      /\ \A i \in 1..Len(entries) : entries[i] \in Range(entries)
  BY <1>1, ListFacts
<1>4. \A i \in 1..Len(entries) : EntryFits(entries[i])
  BY <1>1, <1>2, <1>3
<1>5. \A i \in 1..Len(entries) :
         /\ Tells(shown(i), at0, EntryParts, stamp)
         /\ \A e \in Range(shown(i)) : e.loc[3][1] = i - 1
  BY <1>4, AmaEntry
<1>6. v = [i \in DOMAIN entries |-> v[i]] /\ \A i \in 1..Len(entries) : v[i] = shown(i)
  BY <1>3
<1> HIDE DEF v, shown
<1>7. ASSUME NEW i \in 1..Len(entries), NEW j \in 1..Len(entries), i < j
      PROVE  Apart(v[i], v[j])
  <2> SUFFICES ASSUME NEW x \in Range(v[i]), NEW y \in Range(v[j]) PROVE Identity(x) # Identity(y)
    BY DEF Apart
  <2>1. x.loc[3][1] = i - 1 /\ y.loc[3][1] = j - 1
    BY <1>5, <1>6
  <2>2. i - 1 # j - 1
    BY <1>3, <1>7
  <2>3. x.loc # y.loc
    BY <2>1, <2>2
  <2> QED
    BY <2>3 DEF Identity
<1>8. \A i \in 1..Len(entries) : Tells(v[i], at0, EntryParts, stamp)
  BY <1>5, <1>6
<1>9. Tells(FlattenSeq(v), at0, EntryParts, stamp)
  BY <1>1, <1>6, <1>7, <1>8, EachApart
<1> QED
  BY <1>9 DEF v, entries, shown

(* The files that the agent wrote, each once.                              *)
LEMMA AmaTracker ==
    ASSUME NEW at0, NEW wrote, IsList(wrote), \A i, j \in DOMAIN wrote : i # j => wrote[i] # wrote[j],
           NEW stamp
    PROVE  LET u == [i \in DOMAIN wrote |-> <<Ama!Ev(at0, "tracker", wrote[i], "file.write", wrote[i], stamp, Null)>>]
           IN  Tells(FlattenSeq(u), at0, {"tracker"}, stamp)
<1> DEFINE ev(path) == Ama!Ev(at0, "tracker", path, "file.write", path, stamp, Null)
           u == [i \in DOMAIN wrote |-> <<ev(wrote[i])>>]
<1>1. \A path : ev(path).loc = <<at0, "tracker", path>> /\ ev(path).stamp = stamp
  BY DEF Ama!Ev
<1> HIDE DEF ev
<1>2. \A path : TellsOf(<<ev(path)>>, at0, {"tracker"}, path, stamp)
  BY <1>1, TellsOne
<1>3. DOMAIN wrote = 1..Len(wrote) /\ Len(wrote) \in Nat
  BY ListFacts
<1>4. u = [i \in 1..Len(wrote) |-> u[i]] /\ \A i \in 1..Len(wrote) : u[i] = <<ev(wrote[i])>>
  BY <1>3
<1> HIDE DEF u
<1>5. IsList(u) /\ Len(u) = Len(wrote)
  BY <1>3, <1>4, MadeIsList
<1> DEFINE P == {"tracker"}
<1> HIDE DEF P
<1>6. \A i \in 1..Len(u) : TellsOf(u[i], at0, P, wrote[i], stamp)
  <2> TAKE i \in 1..Len(u)
  <2>1. u[i] = <<ev(wrote[i])>>
    BY <1>4, <1>5
  <2>2. TellsOf(<<ev(wrote[i])>>, at0, P, wrote[i], stamp)
    BY <1>2 DEF P
  <2> QED
    BY <2>1, <2>2
<1>8. \A i, j \in 1..Len(u) : i < j => wrote[i] # wrote[j]
  BY <1>3, <1>5
<1>7. Tells(FlattenSeq(u), at0, P, stamp)
  BY <1>5, <1>6, <1>8, TellsEach
<1> QED
  BY <1>7 DEF u, ev, P

(* A conversation.                                                         *)
LEMMA AmaConversation ==
    ASSUME NEW at0, NEW state, NEW cwd, Ama!DocumentFits(state)
    PROVE  Own(Ama!Conversation(at0, state, cwd), at0) /\ Ama!Conversation(at0, state, cwd) # <<>>
<1> DEFINE stamp == [session |-> Ama!Or(Ama!Get(state, "conversation_id"), Null), cwd |-> cwd, branch |-> Null]
           history == IF Given(Get(state, "history")) THEN Get(state, "history") ELSE <<>>
           wrote == IF Given(Get(state, "file_line_tracker")) THEN Get(state, "file_line_tracker") ELSE <<>>
           entries == FlattenSeq([i \in DOMAIN history |-> IF Given(history[i]) THEN <<history[i]>> ELSE <<>>])
           range == Ama!Range0(Ama!Get(state, "valid_history_range"), Len(entries))
           header == [key \in DOMAIN state \ {"history"} |-> state[key]]
           queued == Get(state, "next_message")
           m == <<>>
           no == FALSE
           start == Ama!Ev(at0, "self", 0, "session.start", header, stamp, range)
           summary == Ama!Ev(at0, "summary", 0, "session.end", state.summary, stamp, Null)
           tangent == Ama!Unparsed(at0, "tangent", 0, state.tangent, stamp)
           said == Ama!UserMessage(at0, "next", m, queued, stamp, no, no)
           a == <<start>>
           b == IF Ama!Said(Ama!Get(state, "summary")) THEN <<summary>> ELSE <<>>
           c == IF Given(queued) THEN said ELSE <<>>
           d == FlattenSeq([i \in DOMAIN entries |-> Ama!Entry(at0, i - 1, entries[i], stamp, range)])
           f == FlattenSeq([i \in DOMAIN wrote |-> <<Ama!Ev(at0, "tracker", wrote[i], "file.write", wrote[i], stamp, Null)>>])
           g == IF Ama!Given(Ama!Get(state, "tangent")) THEN <<tangent>> ELSE <<>>
           evs == Ama!Conversation(at0, state, cwd)
<1>1. evs = ((((a \o b) \o c) \o d) \o f) \o g
  <2>1. Ama!Listed(Ama!Get(state, "history")) = history /\ Ama!Listed(Ama!Get(state, "file_line_tracker")) = wrote
    BY AmaReads
  <2>2. Ama!Those(history, Ama!Given) = entries
    <3> HIDE DEF history
    <3> QED
      BY AmaReads, AmaShares DEF Ama!Those
  <2>3. Ama!Get(state, "next_message") = queued /\ (Ama!Given(queued) <=> Given(queued))
    BY AmaReads
  <2> HIDE DEF history, wrote, queued
  <2>4. entries = Ama!Those(Ama!Listed(Ama!Get(state, "history")), Ama!Given)
    BY <2>1, <2>2
  <2> HIDE DEF entries
  <2>5. /\ \A s : Ama!Flattened(s) = FlattenSeq(s)
        /\ \A x, s : Ama!When(x, s) = IF x THEN s ELSE <<>>
    BY AmaReads, AmaShares
  <2> QED
    BY <2>1, <2>3, <2>4, <2>5 DEF Ama!Conversation, Ama!Each
<1>2. /\ IsList(history) /\ \A i \in DOMAIN history : EntryFits(history[i])
      /\ AList(Get(Get(queued, "content"), "tool_use_results"))
      /\ IsList(wrote) /\ \A i, j \in DOMAIN wrote : i # j => wrote[i] # wrote[j]
  BY AmaDocument
<1>3. /\ start.loc = <<at0, "self", 0>> /\ start.stamp = stamp
      /\ summary.loc = <<at0, "summary", 0>> /\ summary.stamp = stamp
      /\ tangent.loc = <<at0, "tangent", 0>> /\ tangent.kind = "unparsed.record"
  BY DEF Ama!Ev, Ama!Unparsed
<1> HIDE DEF evs, stamp, range, start, summary, tangent, queued, history, wrote
<1>4. Tells(a, at0, {"self"}, stamp) /\ a # <<>>
  BY <1>3, TellsOne
<1>5. Tells(b, at0, {"summary"}, stamp)
  <2>1. Tells(<<summary>>, at0, {"summary"}, stamp) /\ Tells(<<>>, at0, {"summary"}, stamp)
    BY <1>3, TellsOne, TellsNone
  <2> QED
    BY <2>1
<1>6. Tells(c, at0, PartsOf("next"), stamp)
  <2>1. Numbers(m, 0) /\ "next" \in {"user", "next"}
    BY DEF Numbers
  <2> HIDE DEF m, no
  <2>2. Tells(said, at0, PartsOf("next"), stamp)
    BY <1>2, <2>1, AmaUser
  <2>3. Tells(<<>>, at0, PartsOf("next"), stamp)
    BY TellsNone
  <2> HIDE DEF said
  <2> QED
    BY <2>2, <2>3
<1>7. Tells(d, at0, EntryParts, stamp)
  BY <1>2, AmaHistory
<1>8. Tells(f, at0, {"tracker"}, stamp)
  BY <1>2, AmaTracker
<1>9. Tells(g, at0, {"tangent"}, stamp)
  <2>1. Tells(<<tangent>>, at0, {"tangent"}, stamp) /\ Tells(<<>>, at0, {"tangent"}, stamp)
    BY <1>3, TellsOne, TellsNone
  <2> QED
    BY <2>1
<1> DEFINE A == {"self"}
           B == {"summary"}
           C == PartsOf("next")
           D == EntryParts
           F == {"tracker"}
           G == {"tangent"}
           AC == (A \cup B) \cup C
           ac == (a \o b) \o c
<1>10. /\ A \cap B = {} /\ (A \cup B) \cap C = {} /\ AC \cap D = {} /\ (AC \cup D) \cap F = {}
       /\ ((AC \cup D) \cup F) \cap G = {}
  <2>1. C = {"next", "next_message_result"}
    BY DEF PartsOf, Ama!ResultsOf
  <2> HIDE DEF C
  <2> QED
    BY <2>1 DEF EntryParts
<1> HIDE DEF a, b, c, d, f, g, A, B, C, D, F, G
<1>11. Tells(ac, at0, AC, stamp) /\ ac # <<>>
  <2>1. Tells(a, at0, A, stamp) /\ Tells(b, at0, B, stamp) /\ Tells(c, at0, C, stamp)
    BY <1>4, <1>5, <1>6 DEF A, B, C
  <2> QED
    BY <1>4, <1>10, <2>1, TellsThree
<1> HIDE DEF ac, AC
<1>12. Tells((ac \o d) \o f, at0, (AC \cup D) \cup F, stamp) /\ (ac \o d) \o f # <<>>
  <2>1. Tells(d, at0, D, stamp) /\ Tells(f, at0, F, stamp)
    BY <1>7, <1>8 DEF D, F
  <2> QED
    BY <1>10, <1>11, <2>1, TellsThree
<1> DEFINE most == (ac \o d) \o f
           AF == (AC \cup D) \cup F
<1>13. AF \cap G = {}
  BY <1>10
<1> HIDE DEF most, AF
<1>14. Tells(most \o g, at0, AF \cup G, stamp) /\ most \o g # <<>>
  <2>1. Tells(g, at0, G, stamp)
    BY <1>9 DEF G
  <2>2. Tells(most, at0, AF, stamp) /\ most # <<>>
    BY <1>12 DEF most, AF
  <2> QED
    BY <1>13, <2>1, <2>2, TellsJoin
<1>15. evs = most \o g
  BY <1>1 DEF most, ac
<1> QED
  BY <1>14, <1>15 DEF evs, Tells

(* Amazon Q's reader answers every item.                                   *)
LEMMA AmaAnswers ==
    ASSUME NEW x, NEW c, x.stopped \in BOOLEAN,
           ~x.stopped /\ x.table = "conversations" => Ama!DocumentFits(Get(x.row, "value"))
    PROVE  IsAnswer(Ama!Take(x, c).events, x)
<1> DEFINE evs == Ama!Take(x, c).events
<1>1. CASE x.stopped
  <2>1. evs = Sql!Stopped(x)
    BY <1>1, AmaShares DEF Ama!Take
  <2> QED
    BY <2>1, CommonAnswers
<1>2. CASE ~x.stopped /\ x.table = "conversations"
  <2> DEFINE cwd == Ama!Or(Ama!Get(x.row, "key"), Null)
             state == Get(x.row, "value")
             e == Ama!Unparsed(x.at, "self", 0, x.row, [Ama!NoStamp EXCEPT !.cwd = cwd])
  <2>1. evs = <<e>> \/ evs = Ama!Conversation(x.at, state, cwd)
    BY <1>2, AmaReads DEF Ama!Take, Ama!ConversationRow
  <2>2. e.loc[1] = x.at
    BY DEF Ama!Unparsed, Ama!Ev
  <2>3. Ama!DocumentFits(state)
    BY <1>2
  <2> HIDE DEF e, state, cwd, evs
  <2>4. IsAnswer(<<e>>, x)
    BY <2>2, OneAnswers
  <2>5. IsAnswer(Ama!Conversation(x.at, state, cwd), x)
    BY <2>3, AmaConversation DEF IsAnswer
  <2> QED
    BY <2>1, <2>4, <2>5 DEF evs
<1>3. CASE ~x.stopped /\ x.table \in {"history", "state", "auth_kv"}
  <2> DEFINE stamp == [session |-> Ama!Or(Ama!Get(x.row, "session_id"), Null),
                       cwd |-> Ama!Or(Ama!Get(x.row, "cwd"), Null), branch |-> Null]
             a == Ama!Ev(x.at, "self", 0, "command.exec", x.row, stamp, Null)
             b == Ama!Ev(x.at, "self", 0, "config.snapshot", x.row, Ama!NoStamp, [credential |-> x.table = "auth_kv"])
  <2>1. evs = <<a>> \/ evs = <<b>>
    <3>1. CASE x.table = "history"
      BY <1>3, <3>1 DEF Ama!Take, Ama!ShellCommand
    <3>2. CASE x.table \in {"state", "auth_kv"}
      BY <1>3, <3>2 DEF Ama!Take, Ama!Setting
    <3> QED
      BY <1>3, <3>1, <3>2
  <2>2. a.loc[1] = x.at /\ b.loc[1] = x.at
    BY DEF Ama!Ev
  <2> HIDE DEF a, b, evs
  <2> QED
    BY <2>1, <2>2, OneAnswers DEF evs
<1>4. CASE ~x.stopped /\ x.table \notin {"conversations", "history", "state", "auth_kv"}
  <2>1. evs = Sql!RowAsEvent(x)
    BY <1>4, AmaShares DEF Ama!Take
  <2> QED
    BY <2>1, CommonAnswers
<1> QED
  BY <1>1, <1>2, <1>3, <1>4


(* What Hermes's reader takes of values, as any reader.                    *)
LEMMA HerReads ==
    /\ \A r, key : Her!Get(r, key) = Get(r, key)
    /\ \A v : Her!Given(v) = Given(v) /\ Her!Said(v) = Said(v) /\ Her!Filled(v) = Filled(v)
    /\ \A c, s : Her!When(c, s) = IF c THEN s ELSE <<>>
    /\ \A x, y : Her!Or(x, y) = Or(x, y)
    /\ \A v : Her!Listed(v) = IF Given(v) THEN v ELSE <<>>
<1>1. \A r, key : Her!Get(r, key) = Get(r, key)
  BY DEF Her!Get, Get
<1>2. \A v : Her!Given(v) = Given(v) /\ Her!Said(v) = Said(v) /\ Her!Filled(v) = Filled(v)
  BY Zenon DEF Her!Given, Given, Her!Said, Said, Her!Filled, Filled
<1>3. \A c, s : Her!When(c, s) = IF c THEN s ELSE <<>>
  BY DEF Her!When
<1>4. \A x, y : Her!Or(x, y) = Or(x, y)
  BY DEF Her!Or, Or, Her!Said, Said
<1>5. \A v : Her!Listed(v) = IF Given(v) THEN v ELSE <<>>
  BY DEF Her!Listed, Her!Given, Given
<1> QED
  BY <1>1, <1>2, <1>3, <1>4, <1>5

(* A reply: what it says, what was thought, and the calls.                 *)
LEMMA HerAssistant ==
    ASSUME NEW at0, NEW row, NEW stamp, Get(row, "tool_calls") # Torn => AList(Get(row, "tool_calls"))
    PROVE  LET evs == Her!Assistant(at0, row, stamp)
           IN  /\ Tells(evs, at0, {"self", "items", "reasoning", "calls", "call"}, stamp)
               /\ Get(row, "role") = "assistant" /\ ~Wordless(row) => evs # <<>>
<1> DEFINE ev(part, n, kind) == Her!Ev(at0, part, n, kind, row, stamp, Her!Generation(row))
           one(part, n, kind) == <<ev(part, n, kind)>>
           replied == Said(Get(row, "content"))
           calls == IF Get(row, "tool_calls") = Torn THEN <<>>
                    ELSE IF Given(Get(row, "tool_calls")) THEN Get(row, "tool_calls") ELSE <<>>
           u == [i \in DOMAIN calls |-> one("call", i - 1, "tool.call")]
           a == IF replied THEN one("self", 0, "assistant.text") ELSE <<>>
           b == IF ~replied /\ Said(Get(row, "items")) THEN one("items", 0, "assistant.text") ELSE <<>>
           c == IF Said(Get(row, "reasoning")) THEN one("reasoning", 0, "assistant.thinking") ELSE <<>>
           d == IF Get(row, "tool_calls") = Torn THEN one("calls", 0, "tool.call") ELSE <<>>
           f == FlattenSeq(u)
           evs == Her!Assistant(at0, row, stamp)
<1>1. evs = (((a \o b) \o c) \o d) \o f
  <2>1. Her!CallsOf(row) = calls
    BY HerReads DEF Her!CallsOf
  <2>2. /\ \A s : Her!Flattened(s) = FlattenSeq(s)
        /\ \A x, s : Her!When(x, s) = IF x THEN s ELSE <<>>
    BY HerReads, HerShares
  <2> HIDE DEF calls
  <2> QED
    BY <2>1, <2>2, HerReads DEF Her!Assistant, Her!Each
<1>2. IsList(calls)
  BY ListedIs, ShortLists
<1>3. \A part, n, kind : ev(part, n, kind).loc = <<at0, part, n>> /\ ev(part, n, kind).stamp = stamp
  BY DEF Her!Ev
<1> HIDE DEF ev, evs, replied, calls
<1>4. ASSUME NEW part, NEW n, NEW kind
      PROVE  /\ TellsOf(one(part, n, kind), at0, {part}, n, stamp) /\ Tells(one(part, n, kind), at0, {part}, stamp)
             /\ one(part, n, kind) # <<>>
  BY <1>3, TellsOne
<1>5. ASSUME NEW part
      PROVE  Tells(<<>>, at0, {part}, stamp)
  BY TellsNone
<1> HIDE DEF one
<1>6. /\ Tells(a, at0, {"self"}, stamp) /\ Tells(b, at0, {"items"}, stamp)
      /\ Tells(c, at0, {"reasoning"}, stamp) /\ Tells(d, at0, {"calls"}, stamp)
  BY <1>4, <1>5
<1>7. /\ replied => a # <<>>
      /\ Said(Get(row, "items")) => a # <<>> \/ b # <<>>
      /\ Said(Get(row, "reasoning")) => c # <<>>
      /\ Get(row, "tool_calls") = Torn => d # <<>>
  BY <1>4
<1>8. Tells(f, at0, {"call"}, stamp) /\ (calls # <<>> => f # <<>>)
  <2>1. DOMAIN calls = 1..Len(calls) /\ Len(calls) \in Nat
    BY <1>2, ListFacts
  <2>2. \A i \in 1..Len(calls) : TellsOf(u[i], at0, {"call"}, i - 1, stamp) /\ u[i] # <<>>
    BY <1>4, <2>1
  <2>3. u = [i \in DOMAIN calls |-> u[i]]
    OBVIOUS
  <2> DEFINE P == {"call"}
  <2> HIDE DEF u, P
  <2>4. /\ \A i \in 1..Len(calls) : TellsOf(u[i], at0, P, i - 1, stamp)
        /\ \A i \in 1..Len(calls) : u[i] # <<>>
    BY <2>2 DEF P
  <2>5. Tells(FlattenSeq(u), at0, P, stamp) /\ (calls # <<>> => FlattenSeq(u) # <<>>)
    BY <1>2, <2>3, <2>4, EachTells
  <2> QED
    BY <2>5 DEF P
<1> DEFINE A == {"self"}
           B == {"items"}
           C == {"reasoning"}
           D == {"calls"}
           F == {"call"}
           ac == (a \o b) \o c
           AC == (A \cup B) \cup C
<1>9. /\ A \cap B = {} /\ (A \cup B) \cap C = {} /\ AC \cap D = {} /\ (AC \cup D) \cap F = {}
      /\ (AC \cup D) \cup F = {"self", "items", "reasoning", "calls", "call"}
  OBVIOUS
<1> HIDE DEF a, b, c, d, f, A, B, C, D, F
<1>10. Tells(ac, at0, AC, stamp) /\ ((a # <<>> \/ b # <<>> \/ c # <<>>) => ac # <<>>)
  <2>1. Tells(a, at0, A, stamp) /\ Tells(b, at0, B, stamp) /\ Tells(c, at0, C, stamp)
    BY <1>6 DEF A, B, C
  <2> QED
    BY <1>9, <2>1, TellsThree
<1> HIDE DEF ac, AC
<1>11. /\ Tells((ac \o d) \o f, at0, (AC \cup D) \cup F, stamp)
       /\ (ac # <<>> \/ d # <<>> \/ f # <<>>) => (ac \o d) \o f # <<>>
  <2>1. Tells(d, at0, D, stamp) /\ Tells(f, at0, F, stamp)
    BY <1>6, <1>8 DEF D, F
  <2> QED
    BY <1>9, <1>10, <2>1, TellsThree
<1>12. evs = (ac \o d) \o f
  BY <1>1 DEF ac
<1>13. ASSUME Get(row, "role") = "assistant", ~Wordless(row)
       PROVE  replied \/ Said(Get(row, "items")) \/ Said(Get(row, "reasoning"))
              \/ Get(row, "tool_calls") = Torn \/ calls # <<>>
  <2>1. \/ Said(Get(row, "content")) \/ Said(Get(row, "items")) \/ Said(Get(row, "reasoning"))
        \/ Get(row, "tool_calls") = Torn \/ Filled(Get(row, "tool_calls"))
    BY <1>13 DEF Wordless
  <2>2. Filled(Get(row, "tool_calls")) /\ Get(row, "tool_calls") # Torn => calls # <<>>
    BY DEF Filled, calls
  <2> QED
    BY <2>1, <2>2 DEF replied
<1>14. Get(row, "role") = "assistant" /\ ~Wordless(row) => evs # <<>>
  BY <1>7, <1>8, <1>10, <1>11, <1>12, <1>13
<1>15. Tells(evs, at0, {"self", "items", "reasoning", "calls", "call"}, stamp)
  BY <1>9, <1>11, <1>12
<1> QED
  BY <1>14, <1>15 DEF evs

(* A message: every event has its stamp.                                   *)
LEMMA HerMessage ==
    ASSUME NEW x, NEW headers, Get(x.row, "tool_calls") # Torn => AList(Get(x.row, "tool_calls"))
    PROVE  LET evs == Her!Message(x, headers)
           IN  /\ Tells(evs, x.at, {"self", "items", "reasoning", "calls", "call"},
                        Her!Stamp(Get(x.row, "session_id"), headers))
               /\ ~Wordless(x.row) => evs # <<>>
<1> DEFINE stamp == Her!Stamp(Get(x.row, "session_id"), headers)
           role == Get(x.row, "role")
           ev(kind) == Her!Ev(x.at, "self", 0, kind, x.row, stamp, Her!Generation(x.row))
           whole == Her!Unparsed(x.at, "self", 0, x.row, [stamp EXCEPT !.branch = Null])
           evs == Her!Message(x, headers)
           P == {"self", "items", "reasoning", "calls", "call"}
<1>1. CASE role = "assistant"
  <2>1. "assistant" \notin DOMAIN Her!RoleKind
    BY DEF Her!RoleKind
  <2>2. evs = Her!Assistant(x.at, x.row, stamp)
    BY <1>1, <2>1, HerReads DEF Her!Message
  <2> HIDE DEF evs, stamp
  <2>3. Tells(evs, x.at, P, stamp) /\ (~Wordless(x.row) => evs # <<>>)
    BY <1>1, <2>2, HerAssistant
  <2> QED
    BY <2>3 DEF evs, stamp
<1>2. CASE role # "assistant"
  <2>1. evs = <<whole>> \/ \E kind : evs = <<ev(kind)>>
    BY <1>2, HerReads DEF Her!Message
  <2>2. /\ whole.loc = <<x.at, "self", 0>> /\ whole.kind = "unparsed.record"
        /\ \A kind : ev(kind).loc = <<x.at, "self", 0>> /\ ev(kind).stamp = stamp
    BY DEF Her!Unparsed, Her!Ev
  <2>3. {"self"} \subseteq P
    OBVIOUS
  <2> HIDE DEF evs, stamp, whole, ev, P
  <2>4. Tells(<<whole>>, x.at, {"self"}, stamp) /\ <<whole>> # <<>>
    BY <2>2, TellsOne
  <2>5. \A kind : Tells(<<ev(kind)>>, x.at, {"self"}, stamp) /\ <<ev(kind)>> # <<>>
    <3> TAKE kind
    <3>1. ev(kind).loc = <<x.at, "self", 0>> /\ ev(kind).stamp = stamp
      BY <2>2
    <3> QED
      BY <3>1, TellsOne
  <2>6. Tells(evs, x.at, {"self"}, stamp) /\ evs # <<>>
    BY <2>1, <2>4, <2>5
  <2>7. Tells(evs, x.at, P, stamp)
    BY <2>3, <2>6, TellsMore
  <2> QED
    BY <2>6, <2>7 DEF evs, stamp, P
<1> QED
  BY <1>1, <1>2

(* Hermes's reader answers every item but a reply without words.           *)
LEMMA HerAnswers ==
    ASSUME NEW x, NEW c, x.stopped \in BOOLEAN,
           ~x.stopped => (Get(x.row, "tool_calls") # Torn => AList(Get(x.row, "tool_calls")))
    PROVE  /\ Own(Her!Take(x, c).events, x.at)
           /\ x.stopped \/ x.table # "messages" \/ ~Wordless(x.row) => Her!Take(x, c).events # <<>>
<1> DEFINE evs == Her!Take(x, c).events
<1>1. CASE x.stopped
  <2>1. evs = Sql!Stopped(x)
    BY <1>1, HerShares DEF Her!Take
  <2> QED
    BY <2>1, CommonAnswers DEF IsAnswer
<1>2. CASE ~x.stopped /\ x.table = "sessions"
  <2> DEFINE id == Her!Get(x.row, "id")
             stamp == [session |-> Her!Or(id, Null), cwd |-> Her!Or(Her!Get(x.row, "cwd"), Null),
                       branch |-> Her!Or(Her!Get(x.row, "git_branch"), Null)]
             a == Her!Ev(x.at, "self", 0, "session.start", x.row, stamp, Null)
             b == Her!Ev(x.at, "system_prompt", 0, "instruction.source", x.row.system_prompt, stamp, Null)
             d == Her!Ev(x.at, "end", 0, "session.end", x.row, stamp, Null)
             s == IF Her!Said(Her!Get(x.row, "system_prompt")) THEN <<b>> ELSE <<>>
             t == IF Her!Said(Her!Get(x.row, "ended_at")) THEN <<d>> ELSE <<>>
  <2>1. evs = (<<a>> \o s) \o t
    BY <1>2 DEF Her!Take, Her!Session, Her!SystemPrompt, Her!When
  <2>2. Trio(a, b, d, x.at)
    BY DEF Her!Ev, Trio
  <2>3. s \in {<<>>, <<b>>} /\ t \in {<<>>, <<d>>}
    OBVIOUS
  <2> HIDE DEF evs, a, b, d, s, t
  <2>4. Own((<<a>> \o s) \o t, x.at) /\ (<<a>> \o s) \o t # <<>>
    BY <2>2, <2>3, UpToThree
  <2> QED
    BY <2>1, <2>4 DEF evs
<1>3. CASE ~x.stopped /\ x.table = "messages"
  <2>1. evs = Her!Message(x, c)
    BY <1>3 DEF Her!Take
  <2>2. Own(Her!Message(x, c), x.at) /\ (~Wordless(x.row) => Her!Message(x, c) # <<>>)
    BY <1>3, HerMessage DEF Tells
  <2> QED
    BY <1>3, <2>1, <2>2
<1>4. CASE ~x.stopped /\ x.table \notin {"sessions", "messages"}
  <2>1. evs = Sql!RowAsEvent(x)
    BY <1>4, HerShares DEF Her!Take
  <2> QED
    BY <2>1, CommonAnswers DEF IsAnswer
<1> QED
  BY <1>1, <1>2, <1>3, <1>4


(* What Zed's reader takes of values, as any reader.                       *)
LEMMA ZedReads ==
    /\ \A r, key : Zed!Get(r, key) = Get(r, key)
    /\ \A v : Zed!Given(v) = Given(v) /\ Zed!Said(v) = Said(v) /\ Zed!Filled(v) = Filled(v)
    /\ \A c, s : Zed!When(c, s) = IF c THEN s ELSE <<>>
    /\ \A x, y : Zed!Or(x, y) = Or(x, y)
    /\ \A v : Zed!Listed(v) = IF Given(v) THEN v ELSE <<>>
<1>1. \A r, key : Zed!Get(r, key) = Get(r, key)
  BY DEF Zed!Get, Get
<1>2. \A v : Zed!Given(v) = Given(v) /\ Zed!Said(v) = Said(v) /\ Zed!Filled(v) = Filled(v)
  BY Zenon DEF Zed!Given, Given, Zed!Said, Said, Zed!Filled, Filled
<1>3. \A c, s : Zed!When(c, s) = IF c THEN s ELSE <<>>
  BY DEF Zed!When
<1>4. \A x, y : Zed!Or(x, y) = Or(x, y)
  BY DEF Zed!Or, Or, Zed!Said, Said
<1>5. \A v : Zed!Listed(v) = IF Given(v) THEN v ELSE <<>>
  BY DEF Zed!Listed, Zed!Given, Given
<1> QED
  BY <1>1, <1>2, <1>3, <1>4, <1>5

(* What the reader takes for granted of a message of a thread. *)
MessageFits(message) ==
    Get(message, "tag") = "Agent" =>
        LET results == IF Given(Get(message.body, "tool_results")) THEN Get(message.body, "tool_results") ELSE <<>>
        IN  /\ AList(Get(message.body, "content")) /\ AList(Get(message.body, "tool_results"))
            /\ \A m, n \in DOMAIN results : m # n => results[m].of # results[n].of

(* One event for every item of a list, each numbered by the message and a  *)
(* second key that no other has. *)
Keyed(u, list, ev, key, at0, part, i, stamp) ==
    /\ IsList(list) /\ u = [j \in DOMAIN list |-> u[j]]
    /\ \A j \in 1..Len(list) : u[j] = <<ev[j]>>
    /\ \A j \in 1..Len(list) : ev[j].loc = <<at0, part, <<i, key[j]>>>> /\ ev[j].stamp = stamp
    /\ \A j, k \in 1..Len(list) : j < k => key[j] # key[k]

(* Such events, one after the other.                                       *)
LEMMA EachKeyed ==
    ASSUME NEW u, NEW list, NEW ev, NEW key, NEW at0, NEW part, NEW i, NEW stamp,
           Keyed(u, list, ev, key, at0, part, i, stamp)
    PROVE  /\ Tells(FlattenSeq(u), at0, {part}, stamp)
           /\ \A e \in Range(FlattenSeq(u)) : e.loc[3][1] = i
<1>0. /\ IsList(list) /\ u = [j \in DOMAIN list |-> u[j]]
      /\ \A j \in 1..Len(list) : u[j] = <<ev[j]>>
      /\ \A j \in 1..Len(list) : ev[j].loc = <<at0, part, <<i, key[j]>>>> /\ ev[j].stamp = stamp
      /\ \A j, k \in 1..Len(list) : j < k => key[j] # key[k]
  BY DEF Keyed
<1>1. DOMAIN list = 1..Len(list) /\ Len(list) \in Nat
  BY <1>0, ListFacts
<1> DEFINE P == {part}
<1>2. ASSUME NEW j \in 1..Len(list)
      PROVE  /\ Tells(u[j], at0, P, stamp)
             /\ \A e \in Range(u[j]) : e.loc[3][1] = i /\ e.loc[3][2] = key[j]
  <2>1. ev[j].loc = <<at0, part, <<i, key[j]>>>> /\ ev[j].stamp = stamp
    BY <1>0
  <2>2. ev[j].loc[3] = <<i, key[j]>>
    BY <2>1
  <2>3. <<i, key[j]>>[1] = i /\ <<i, key[j]>>[2] = key[j]
    OBVIOUS
  <2>4. Tells(<<ev[j]>>, at0, P, stamp)
    BY <2>1, TellsOne
  <2>5. Range(<<ev[j]>>) = {ev[j]}
    BY ShortLists
  <2>6. u[j] = <<ev[j]>>
    BY <1>0
  <2> HIDE DEF P
  <2> QED
    BY <2>2, <2>3, <2>4, <2>5, <2>6
<1> HIDE DEF P
<1>3. ASSUME NEW j \in 1..Len(list), NEW k \in 1..Len(list), j < k
      PROVE  Apart(u[j], u[k])
  <2> SUFFICES ASSUME NEW x \in Range(u[j]), NEW y \in Range(u[k]) PROVE Identity(x) # Identity(y)
    BY DEF Apart
  <2>1. x.loc[3][2] = key[j] /\ y.loc[3][2] = key[k] /\ key[j] # key[k]
    BY <1>0, <1>2, <1>3
  <2>2. x.loc # y.loc
    BY <2>1
  <2> QED
    BY <2>2 DEF Identity
<1>4. /\ Tells(FlattenSeq(u), at0, P, stamp)
      /\ \A e \in Range(FlattenSeq(u)) : \E j \in 1..Len(list) : e \in Range(u[j])
  <2>1. \A j \in 1..Len(list) : Tells(u[j], at0, P, stamp)
    BY <1>2
  <2> QED
    BY <1>0, <1>3, <2>1, EachApart
<1>5. \A e \in Range(FlattenSeq(u)) : e.loc[3][1] = i
  BY <1>2, <1>4
<1> QED
  BY <1>4, <1>5 DEF P

(* What the agent said, and what came of the tools that it called.         *)
LEMMA ZedAgent ==
    ASSUME NEW at0, NEW i, NEW body, NEW stamp, AList(Get(body, "content")), AList(Get(body, "tool_results")),
           LET results == IF Given(Get(body, "tool_results")) THEN Get(body, "tool_results") ELSE <<>>
           IN  \A m, n \in DOMAIN results : m # n => results[m].of # results[n].of
    PROVE  LET evs == Zed!Agent(at0, i, body, stamp)
           IN  Tells(evs, at0, {"content", "result"}, stamp) /\ \A e \in Range(evs) : e.loc[3][1] = i
<1> DEFINE content == IF Given(Get(body, "content")) THEN Get(body, "content") ELSE <<>>
           results == IF Given(Get(body, "tool_results")) THEN Get(body, "tool_results") ELSE <<>>
           tag(piece) == Zed!Get(piece, "tag")
           kind(piece) == IF tag(piece) \in DOMAIN Zed!KindOf THEN Zed!KindOf[tag(piece)] ELSE "unparsed.record"
           told(j) == Zed!Ev(at0, "content", <<i, j - 1>>, kind(content[j]), content[j], stamp,
                             Zed!Call(Null, Zed!Get(content[j], "id")))
           came(j) == Zed!Ev(at0, "result", <<i, results[j].of>>, "tool.result", results[j], stamp,
                             Zed!Call(Null, results[j].of))
           one == [j \in DOMAIN content |-> told(j)]
           two == [j \in DOMAIN results |-> came(j)]
           u == [j \in DOMAIN content |-> <<told(j)>>]
           v == [j \in DOMAIN results |-> <<came(j)>>]
           nth == [j \in DOMAIN content |-> j - 1]
           of == [j \in DOMAIN results |-> results[j].of]
           evs == Zed!Agent(at0, i, body, stamp)
           P == {"content"}
           Q == {"result"}
<1>1. evs = FlattenSeq(u) \o FlattenSeq(v)
  <2>1. Zed!Listed(Zed!Get(body, "content")) = content /\ Zed!Listed(Zed!Get(body, "tool_results")) = results
    BY ZedReads
  <2>2. \A s : Zed!Flattened(s) = FlattenSeq(s)
    BY ZedShares
  <2> HIDE DEF content, results
  <2> QED
    BY <2>1, <2>2 DEF Zed!Agent, Zed!Each
<1>2. IsList(content) /\ IsList(results)
  BY ListedIs
<1>3. \A m, n \in DOMAIN results : m # n => results[m].of # results[n].of
  OBVIOUS
<1> HIDE DEF content, results, evs
<1>4. /\ DOMAIN content = 1..Len(content) /\ Len(content) \in Nat
      /\ DOMAIN results = 1..Len(results) /\ Len(results) \in Nat
  BY <1>2, ListFacts
<1>5. \A j : /\ told(j).loc = <<at0, "content", <<i, j - 1>>>> /\ told(j).stamp = stamp
             /\ came(j).loc = <<at0, "result", <<i, results[j].of>>>> /\ came(j).stamp = stamp
  BY DEF Zed!Ev
<1> HIDE DEF told, came
<1>6. Tells(FlattenSeq(u), at0, P, stamp) /\ \A e \in Range(FlattenSeq(u)) : e.loc[3][1] = i
  <2>1. \A j \in 1..Len(content) : one[j] = told(j) /\ nth[j] = j - 1 /\ u[j] = <<told(j)>>
    BY <1>4
  <2>2. u = [j \in DOMAIN content |-> u[j]]
    OBVIOUS
  <2> HIDE DEF one, nth, u
  <2>3. \A j \in 1..Len(content) : one[j].loc = <<at0, "content", <<i, nth[j]>>>> /\ one[j].stamp = stamp
    BY <1>5, <2>1
  <2>4. \A j, k \in 1..Len(content) : j < k => nth[j] # nth[k]
    BY <1>4, <2>1
  <2>5. \A j \in 1..Len(content) : u[j] = <<one[j]>>
    BY <2>1
  <2> QED
    <3>1. Keyed(u, content, one, nth, at0, "content", i, stamp)
      BY <1>2, <2>2, <2>3, <2>4, <2>5 DEF Keyed
    <3> QED
      BY <3>1, EachKeyed
<1>7. Tells(FlattenSeq(v), at0, Q, stamp) /\ \A e \in Range(FlattenSeq(v)) : e.loc[3][1] = i
  <2>1. \A j \in 1..Len(results) : two[j] = came(j) /\ of[j] = results[j].of /\ v[j] = <<came(j)>>
    BY <1>4
  <2>2. v = [j \in DOMAIN results |-> v[j]]
    OBVIOUS
  <2> HIDE DEF two, of, v
  <2>3. \A j \in 1..Len(results) : two[j].loc = <<at0, "result", <<i, of[j]>>>> /\ two[j].stamp = stamp
    BY <1>5, <2>1
  <2>4. \A j, k \in 1..Len(results) : j < k => of[j] # of[k]
    BY <1>3, <1>4, <2>1
  <2>5. \A j \in 1..Len(results) : v[j] = <<two[j]>>
    BY <2>1
  <2> QED
    <3>1. Keyed(v, results, two, of, at0, "result", i, stamp)
      BY <1>2, <2>2, <2>3, <2>4, <2>5 DEF Keyed
    <3> QED
      BY <3>1, EachKeyed
<1>8. P \cap Q = {} /\ P \cup Q = {"content", "result"}
  OBVIOUS
<1> DEFINE U == FlattenSeq(u)
           V == FlattenSeq(v)
<1> HIDE DEF U, V, P, Q, u, v
<1>9. /\ Tells(U, at0, P, stamp) /\ Tells(V, at0, Q, stamp)
      /\ \A e \in Range(U) : e.loc[3][1] = i
      /\ \A e \in Range(V) : e.loc[3][1] = i
  BY <1>6, <1>7 DEF U, V
<1>10. Tells(U \o V, at0, P \cup Q, stamp) /\ Range(U \o V) = Range(U) \cup Range(V)
  BY <1>8, <1>9, TellsBoth, ZenonT(30)
<1>11. \A e \in Range(U \o V) : e.loc[3][1] = i
  BY <1>9, <1>10
<1>12. evs = U \o V
  BY <1>1 DEF U, V
<1> QED
  BY <1>8, <1>10, <1>11, <1>12 DEF evs

(* A message of a thread.                                                  *)
LEMMA ZedMessage ==
    ASSUME NEW at0, NEW i, NEW message, NEW stamp, MessageFits(message)
    PROVE  LET evs == Zed!Message(at0, i, message, stamp)
           IN  Tells(evs, at0, {"message", "content", "result"}, stamp) /\ \A e \in Range(evs) : e.loc[3][1] = i
<1> DEFINE ev(kind, raw) == Zed!Ev(at0, "message", <<i>>, kind, raw, stamp, Null)
           evs == Zed!Message(at0, i, message, stamp)
           all == {"message", "content", "result"}
<1>1. CASE Get(message, "tag") = "Agent"
  <2>1. evs = Zed!Agent(at0, i, message.body, stamp)
    BY <1>1, ZedReads DEF Zed!Message
  <2> DEFINE body == message.body
             P == {"content", "result"}
  <2>2. /\ AList(Get(body, "content")) /\ AList(Get(body, "tool_results"))
        /\ LET results == IF Given(Get(body, "tool_results")) THEN Get(body, "tool_results") ELSE <<>>
           IN  \A m, n \in DOMAIN results : m # n => results[m].of # results[n].of
    BY <1>1 DEF MessageFits
  <2> HIDE DEF body
  <2>3. Tells(Zed!Agent(at0, i, body, stamp), at0, P, stamp)
        /\ \A e \in Range(Zed!Agent(at0, i, body, stamp)) : e.loc[3][1] = i
    BY <2>2, ZedAgent
  <2>4. P \subseteq all
    OBVIOUS
  <2> HIDE DEF P, all, evs
  <2>5. evs = Zed!Agent(at0, i, body, stamp)
    BY <2>1 DEF body
  <2>6. Tells(evs, at0, all, stamp)
    BY <2>3, <2>4, <2>5, TellsMore
  <2> QED
    BY <2>3, <2>5, <2>6 DEF all, evs
<1>2. CASE Get(message, "tag") # "Agent"
  <2>1. \E kind, raw : evs = <<ev(kind, raw)>>
    BY <1>2, ZedReads DEF Zed!Message, Zed!User
  <2>2. \A kind, raw : ev(kind, raw).loc = <<at0, "message", <<i>>>> /\ ev(kind, raw).stamp = stamp
    BY DEF Zed!Ev
  <2>3. {"message"} \subseteq all
    OBVIOUS
  <2> HIDE DEF ev, evs, all
  <2>4. PICK kind, raw : evs = <<ev(kind, raw)>>
    BY <2>1
  <2> DEFINE e == ev(kind, raw)
  <2>5. e.loc = <<at0, "message", <<i>>>> /\ e.stamp = stamp
    BY <2>2
  <2>6. e.loc[3] = <<i>> /\ <<i>>[1] = i
    BY <2>5
  <2> HIDE DEF e
  <2>7. Tells(<<e>>, at0, {"message"}, stamp)
    BY <2>5, TellsOne
  <2>8. Tells(<<e>>, at0, all, stamp)
    BY <2>3, <2>7, TellsMore
  <2>9. Range(<<e>>) = {e}
    BY ShortLists
  <2>10. evs = <<e>>
    BY <2>4 DEF e
  <2> QED
    BY <2>6, <2>8, <2>9, <2>10 DEF all, evs
<1> QED
  BY <1>1, <1>2

(* What the document of a thread has, for its reader.                      *)
LEMMA ZedDocument ==
    ASSUME NEW document, Zed!DocumentFits(document), document \notin {Null, Odd, Torn}
    PROVE  LET messages == IF Given(Get(document, "messages")) THEN Get(document, "messages") ELSE <<>>
           IN  IsList(messages) /\ \A i \in DOMAIN messages : MessageFits(messages[i])
<1>1. \A v : Zed!AList(v) = AList(v)
  BY DEF Zed!AList, AList, Zed!Given, Given, Zed!Members, Members
<1> DEFINE told == Zed!Get(document, "messages")
           listed == Zed!Listed(told)
           messages == IF Given(Get(document, "messages")) THEN Get(document, "messages") ELSE <<>>
<1>2. /\ AList(Get(document, "messages"))
      /\ \A i \in DOMAIN listed : Zed!Get(told[i], "tag") = "Agent" =>
            LET results == Zed!Get(told[i].body, "tool_results")
            IN  /\ Zed!AList(Zed!Get(told[i].body, "content")) /\ Zed!AList(results)
                /\ \A m, n \in DOMAIN Zed!Listed(results) : m # n => results[m].of # results[n].of
  <2>1. told = Get(document, "messages")
    BY ZedReads
  <2>2. Zed!AList(told)
    BY DEF Zed!DocumentFits
  <2> QED
    BY <1>1, <2>1, <2>2 DEF Zed!DocumentFits
<1>3. listed = messages /\ (messages = <<>> \/ messages = told) /\ DOMAIN <<>> = {}
  BY ZedReads
<1>4. IsList(messages)
  BY <1>2, ListedIs
<1> HIDE DEF told, listed, messages
<1>5. ASSUME NEW i \in DOMAIN messages
      PROVE  MessageFits(messages[i])
  <2> DEFINE message == messages[i]
             came == Zed!Get(message.body, "tool_results")
             results == IF Given(Get(message.body, "tool_results")) THEN Get(message.body, "tool_results") ELSE <<>>
  <2>1. message = told[i] /\ i \in DOMAIN listed
    BY <1>3
  <2>2. ASSUME Get(message, "tag") = "Agent"
        PROVE  /\ AList(Get(message.body, "content")) /\ AList(Get(message.body, "tool_results"))
               /\ \A m, n \in DOMAIN results : m # n => results[m].of # results[n].of
    <3>1. Zed!Get(told[i], "tag") = "Agent"
      BY <2>1, <2>2, ZedReads
    <3> HIDE DEF message
    <3>2. /\ Zed!AList(Zed!Get(message.body, "content")) /\ Zed!AList(came)
          /\ \A m, n \in DOMAIN Zed!Listed(came) : m # n => came[m].of # came[n].of
      BY <1>2, <2>1, <3>1
    <3>3. Zed!Listed(came) = results /\ (results = <<>> \/ results = came) /\ came = Get(message.body, "tool_results")
      BY ZedReads
    <3>4. \A m, n \in DOMAIN results : m # n => results[m].of # results[n].of
      <4> HIDE DEF came, results
      <4> QED
        BY <1>3, <3>2, <3>3
    <3>5. AList(Get(message.body, "content")) /\ AList(Get(message.body, "tool_results"))
      BY <1>1, <3>2, <3>3, ZedReads
    <3> QED
      BY <3>4, <3>5
  <2> QED
    BY <2>2 DEF MessageFits
<1> QED
  BY <1>4, <1>5 DEF messages

(* A thread.                                                               *)
LEMMA ZedThread ==
    ASSUME NEW x, Zed!DocumentFits(Get(x.row, "data"))
    PROVE  IsAnswer(Zed!Thread(x), x)
<1> DEFINE row == x.row
           document == Get(row, "data")
           readable == document \notin {Null, Odd, Torn}
           opened == Zed!Folders(Zed!Listed(Zed!Get(row, "paths")), Zed!Listed(Zed!Get(row, "order")))
           stamp == [session |-> Zed!Or(Zed!Get(row, "id"), Null),
                     cwd |-> IF opened = <<>> THEN Null ELSE opened[1], branch |-> Null]
           header == [key \in DOMAIN row \ (IF readable THEN {} ELSE {"data"}) |->
                        IF key = "data" THEN [k \in DOMAIN document \ {"messages"} |-> document[k]] ELSE row[key]]
           start == Zed!Ev(x.at, "self", 0, "session.start", header, stamp, Null)
           messages == IF Given(Get(document, "messages")) THEN Get(document, "messages") ELSE <<>>
           shown(i) == Zed!Message(x.at, i - 1, messages[i], stamp)
           v == [i \in DOMAIN messages |-> shown(i)]
           t == IF readable THEN FlattenSeq(v) ELSE <<>>
           evs == Zed!Thread(x)
           P == {"self"}
           Q == {"message", "content", "result"}
<1>1. evs = <<start>> \o t
  <2>1. Zed!Get(row, "data") = document /\ Zed!Listed(Zed!Get(document, "messages")) = messages
    BY ZedReads
  <2>2. /\ \A s : Zed!Flattened(s) = FlattenSeq(s)
        /\ \A c, s : Zed!When(c, s) = IF c THEN s ELSE <<>>
    BY ZedReads, ZedShares
  <2> HIDE DEF messages, document
  <2> QED
    BY <2>1, <2>2 DEF Zed!Thread, Zed!Each
<1>2. start.loc = <<x.at, "self", 0>> /\ start.stamp = stamp
  BY DEF Zed!Ev
<1>3. readable => IsList(messages) /\ \A i \in DOMAIN messages : MessageFits(messages[i])
  BY ZedDocument
<1> HIDE DEF evs, start, stamp, document, messages, shown, readable
<1>4. Tells(<<start>>, x.at, P, stamp) /\ <<start>> # <<>>
  BY <1>2, TellsOne
<1>5. ASSUME readable
      PROVE  Tells(FlattenSeq(v), x.at, Q, stamp)
  <2>1. IsList(messages) /\ DOMAIN messages = 1..Len(messages) /\ Len(messages) \in Nat
    BY <1>3, <1>5, ListFacts
  <2>2. \A i \in 1..Len(messages) : Tells(shown(i), x.at, Q, stamp) /\ \A e \in Range(shown(i)) : e.loc[3][1] = i - 1
    BY <1>3, <1>5, <2>1, ZedMessage DEF shown
  <2>3. v = [i \in DOMAIN messages |-> v[i]] /\ \A i \in 1..Len(messages) : v[i] = shown(i)
    BY <2>1
  <2> HIDE DEF v, Q
  <2>4. ASSUME NEW i \in 1..Len(messages), NEW j \in 1..Len(messages), i < j
        PROVE  Apart(v[i], v[j])
    <3> SUFFICES ASSUME NEW y \in Range(v[i]), NEW z \in Range(v[j]) PROVE Identity(y) # Identity(z)
      BY DEF Apart
    <3>1. y.loc[3][1] = i - 1 /\ z.loc[3][1] = j - 1
      BY <2>2, <2>3
    <3>2. i - 1 # j - 1
      BY <2>1, <2>4
    <3>3. y.loc # z.loc
      BY <3>1, <3>2
    <3> QED
      BY <3>3 DEF Identity
  <2>5. \A i \in 1..Len(messages) : Tells(v[i], x.at, Q, stamp)
    BY <2>2, <2>3
  <2> QED
    BY <2>1, <2>3, <2>4, <2>5, EachApart
<1>6. Tells(t, x.at, Q, stamp)
  BY <1>5, TellsNone
<1>7. P \cap Q = {}
  OBVIOUS
<1> DEFINE s == <<start>>
<1>8. evs = s \o t /\ Tells(s, x.at, P, stamp) /\ s # <<>>
  BY <1>1, <1>4
<1> HIDE DEF s, t, P, Q
<1>9. Tells(s \o t, x.at, P \cup Q, stamp) /\ s \o t # <<>>
  BY <1>6, <1>7, <1>8, TellsJoin
<1> QED
  BY <1>8, <1>9 DEF evs, IsAnswer, Tells

(* Zed's readers answer every item.                                        *)
LEMMA ZedAnswers ==
    ASSUME NEW x, NEW c, x.stopped \in BOOLEAN,
           ~x.stopped /\ x.table = "threads" => Zed!DocumentFits(Get(x.row, "data"))
    PROVE  IsAnswer(Zed!Take(x, c).events, x)
<1> DEFINE evs == Zed!Take(x, c).events
<1>1. CASE x.stopped
  <2>1. evs = Sql!Stopped(x)
    BY <1>1, ZedShares DEF Zed!Take
  <2> QED
    BY <2>1, CommonAnswers
<1>2. CASE ~x.stopped /\ x.table = "threads"
  <2>1. evs = Zed!Thread(x)
    BY <1>2 DEF Zed!Take
  <2> QED
    BY <1>2, <2>1, ZedThread
<1>3. CASE ~x.stopped /\ x.table # "threads"
  <2>1. evs = Sql!RowAsEvent(x)
    BY <1>3, ZedShares DEF Zed!Take
  <2> QED
    BY <2>1, CommonAnswers
<1> QED
  BY <1>1, <1>2, <1>3

(* And so does the reader of its sidebar.                                  *)
LEMMA SidebarAnswers ==
    ASSUME NEW x, NEW c, x.stopped \in BOOLEAN, x.vendors \in BOOLEAN
    PROVE  IsAnswer(Zed!TakeSidebar(x, c).events, x)
<1> DEFINE evs == Zed!TakeSidebar(x, c).events
           opened == Zed!Folders(Zed!Listed(Zed!Get(x.row, "paths")), Zed!Listed(Zed!Get(x.row, "order")))
           stamp == [session |-> Zed!Or(Zed!Get(x.row, "session_id"), Null),
                     cwd |-> IF opened = <<>> THEN Null ELSE opened[1], branch |-> Null]
           e == Zed!Ev(x.at, "self", 0, "session.start", x.row, stamp, Zed!SidebarTime(x.row))
<1>1. evs = IF x.stopped THEN Sql!Stopped(x) ELSE IF ~x.vendors THEN Sql!RowAsEvent(x) ELSE <<e>>
  BY ZedShares DEF Zed!TakeSidebar
<1>2. e.loc[1] = x.at
  BY DEF Zed!Ev
<1> HIDE DEF e, evs
<1>3. IsAnswer(<<e>>, x) /\ IsAnswer(Sql!Stopped(x), x) /\ IsAnswer(Sql!RowAsEvent(x), x)
  BY <1>2, OneAnswers, CommonAnswers
<1> QED
  BY <1>1, <1>3 DEF evs

(* The reader of Codex's stores answers every item.                        *)
LEMMA ThrAnswers ==
    ASSUME NEW x, NEW c, x.stopped \in BOOLEAN
    PROVE  IsAnswer(Thr!TakeState(file, x, c).events, x)
<1> DEFINE evs == Thr!TakeState(file, x, c).events
           reading == Thr!Reading(Thr!TableOf(file, x.table))
           turn == Thr!Unparsed(x.at, "self", 0, x.row, Thr!Thread(x.row))
<1>1. turn.loc[1] = x.at
  BY DEF Thr!Unparsed, Thr!Ev
<1>2. \A b : Thr!Item(x, b)[1].loc[1] = x.at /\ \E e : Thr!Item(x, b) = <<e>>
  BY DEF Thr!Item, Thr!Ev
<1>3. \/ evs = <<turn>> \/ evs = Sql!Stopped(x) \/ evs = Sql!RowAsEvent(x)
      \/ evs = Thr!Item(x, x.table = "thread_items")
  <2>1. reading \in {"items", "turns", "rows"}
    BY DEF Thr!Reading
  <2>2. evs = (CASE reading = "turns" -> Thr!TurnRow(x)
                 [] x.stopped -> Thr!Stopped(x)
                 [] reading = "items" -> Thr!Item(x, x.table = "thread_items")
                 [] OTHER -> Thr!RowAsEvent(x))
    BY DEF Thr!TakeState
  <2>3. /\ Thr!TurnRow(x) = <<turn>> /\ Thr!Stopped(x) = Sql!Stopped(x)
        /\ Thr!RowAsEvent(x) = Sql!RowAsEvent(x)
    BY ThrShares DEF Thr!TurnRow
  <2> HIDE DEF evs, reading, turn
  <2> QED
    BY <2>2, <2>3
<1> HIDE DEF evs, turn
<1>4. IsAnswer(<<turn>>, x) /\ IsAnswer(Sql!Stopped(x), x) /\ IsAnswer(Sql!RowAsEvent(x), x)
  BY <1>1, OneAnswers, CommonAnswers
<1>5. IsAnswer(Thr!Item(x, x.table = "thread_items"), x)
  <2> DEFINE b == x.table = "thread_items"
             item == Thr!Item(x, b)
  <2>1. item[1].loc[1] = x.at /\ \E e : item = <<e>>
    BY <1>2
  <2> HIDE DEF item
  <2>2. PICK e : item = <<e>>
    BY <2>1
  <2>3. e.loc[1] = x.at
    BY <2>1, <2>2
  <2>4. IsAnswer(<<e>>, x)
    BY <2>3, OneAnswers
  <2> QED
    BY <2>2, <2>4 DEF item
<1> QED
  BY <1>3, <1>4, <1>5 DEF evs

(* The reader of a store that nobody maps answers every item, and says     *)
(* where it stopped that it did.                                           *)
LEMMA GenericAnswers ==
    ASSUME NEW x, NEW c, x.stopped \in BOOLEAN
    PROVE  LET evs == Sql!TakeGeneric(x, c).events
           IN  IsAnswer(evs, x) /\ (x.stopped => \A e \in Range(evs) : e.loc[2] = "stopped")
<1> DEFINE evs == Sql!TakeGeneric(x, c).events
           a == Sql!Unparsed(x.at, "stopped", 0, x.row, Sql!NoStamp)
<1>1. evs = IF x.stopped THEN Sql!Stopped(x) ELSE Sql!RowAsEvent(x)
  BY DEF Sql!TakeGeneric
<1>2. Sql!Stopped(x) = <<a>>
  BY DEF Sql!Stopped
<1>3. a.loc[2] = "stopped"
  BY DEF Sql!Unparsed, Sql!Ev
<1> HIDE DEF evs, a
<1>4. \A e \in Range(Sql!Stopped(x)) : e.loc[2] = "stopped"
  BY <1>2, <1>3, ShortLists
<1>5. IsAnswer(Sql!Stopped(x), x) /\ IsAnswer(Sql!RowAsEvent(x), x)
  BY CommonAnswers
<1> QED
  BY <1>1, <1>4, <1>5 DEF evs

(* The folder that a row of an editor's store is stamped with. *)
InItsFolder(e, folder) ==
    e.stamp.cwd = IF e.kind = "config.snapshot" \/ e.raw = Null THEN folder
                  ELSE Or(Sql!Literal(e.raw, Sql!ProjectColumns), folder)

(* An event of which the folder is known where its record tells none.      *)
LEMMA OneRestamped ==
    ASSUME NEW e, NEW v, NEW loc, NEW kind, NEW raw, NEW session, NEW cwd, NEW says,
           e = [loc |-> loc, kind |-> kind, raw |-> raw, says |-> says,
                stamp |-> [session |-> session, cwd |-> cwd, branch |-> Null]]
    PROVE  LET s == [<<e>> EXCEPT ![1].stamp.cwd = v]
           IN  \E f : s = <<f>> /\ f.loc = loc /\ f.kind = kind /\ f.raw = raw /\ f.stamp.cwd = v
<1> DEFINE f == [loc |-> loc, kind |-> kind, raw |-> raw, says |-> says,
                 stamp |-> [session |-> session, cwd |-> v, branch |-> Null]]
           s == [<<e>> EXCEPT ![1].stamp.cwd = v]
<1>1. s[1] = f /\ Len(s) = 1 /\ DOMAIN s = 1..1
  OBVIOUS
<1>2. s = <<f>>
  <2>1. s = [i \in 1..1 |-> s[i]]
    BY <1>1
  <2> HIDE DEF s, f
  <2>2. IsList(s) /\ Len(s) = 1
    BY <2>1, MadeIsList
  <2>3. IsList(<<f>>) /\ Len(<<f>>) = 1 /\ <<f>>[1] = f
    BY ShortLists
  <2>4. \A i \in 1..Len(s) : s[i] = <<f>>[i]
    BY <1>1, <2>2, <2>3
  <2> QED
    BY <2>2, <2>3, <2>4, SameLists
<1>3. f.loc = loc /\ f.kind = kind /\ f.raw = raw /\ f.stamp.cwd = v
  OBVIOUS
<1> QED
  BY <1>2, <1>3

(* The editor's reader answers every item with one event, in its folder.   *)
LEMMA EdiAnswers ==
    ASSUME NEW x, NEW c, x.stopped \in BOOLEAN, x.vendors \in BOOLEAN,
           x.stopped => x.row = Null
    PROVE  LET evs == Edi!TakeItem(x, c).events
           IN  /\ IsAnswer(evs, x) /\ (x.stopped => \A e \in Range(evs) : e.loc[2] = "stopped")
               /\ x.stopped \/ x.row # Null => \A e \in Range(evs) : InItsFolder(e, x.folder)
<1> DEFINE evs == Edi!TakeItem(x, c).events
           part == IF x.stopped THEN "stopped" ELSE "self"
           set == Edi!Ev(x.at, part, 0, "config.snapshot", x.row, Edi!In(x.folder), Null)
           literal == Sql!Literal(x.row, Sql!ProjectColumns)
           session == Sql!Literal(x.row, Sql!SessionColumns)
           stop == Sql!Unparsed(x.at, "stopped", 0, x.row, Sql!NoStamp)
           row == Sql!Unparsed(x.at, "self", 0, x.row,
                               [session |-> session, cwd |-> literal, branch |-> Null])
           Good(e) == /\ e.loc[1] = x.at /\ (x.stopped => e.loc[2] = "stopped")
                      /\ x.stopped \/ x.row # Null => InItsFolder(e, x.folder)
<1>1. evs = IF x.vendors THEN <<set>>
            ELSE IF x.stopped THEN [Sql!Stopped(x) EXCEPT ![1].stamp.cwd = Edi!Or(@, x.folder)]
            ELSE [Sql!RowAsEvent(x) EXCEPT ![1].stamp.cwd = Edi!Or(@, x.folder)]
  BY EdiShares DEF Edi!TakeItem
<1>2. CASE x.vendors
  <2>1. Good(set)
    BY DEF Edi!Ev, Edi!In, Edi!NoStamp, InItsFolder
  <2>2. evs = <<set>>
    BY <1>1, <1>2
  <2> HIDE DEF set, evs
  <2>3. IsAnswer(<<set>>, x) /\ Range(<<set>>) = {set}
    BY <2>1, OneAnswers, ShortLists
  <2> QED
    BY <2>1, <2>2, <2>3 DEF evs
<1>3. CASE ~x.vendors /\ x.stopped
  <2>1. Sql!Stopped(x) = <<stop>>
    BY DEF Sql!Stopped
  <2>2. stop = [loc |-> <<x.at, "stopped", 0>>, kind |-> "unparsed.record", raw |-> x.row, says |-> Null,
                stamp |-> [session |-> Null, cwd |-> Null, branch |-> Null]]
    BY DEF Sql!Unparsed, Sql!Ev, Sql!NoStamp
  <2>3. Edi!Or(Null, x.folder) = x.folder
    BY DEF Edi!Or, Edi!Said
  <2> DEFINE st == Sql!Stopped(x)
             to == Edi!Or(st[1].stamp.cwd, x.folder)
  <2>a. evs = [st EXCEPT ![1].stamp.cwd = to]
    BY <1>1, <1>3
  <2>b. stop.stamp.cwd = Null
    BY <2>2
  <2>c. st = <<stop>>
    BY <2>1
  <2> HIDE DEF st, evs, stop
  <2>d. st[1].stamp.cwd = Null
    BY <2>b, <2>c
  <2>e. to = x.folder
    BY <2>3, <2>d
  <2> HIDE DEF to
  <2>4. evs = [<<stop>> EXCEPT ![1].stamp.cwd = x.folder]
    BY <2>a, <2>c, <2>e
  <2> DEFINE loc == <<x.at, "stopped", 0>>
             kind == "unparsed.record"
  <2>5. stop = [loc |-> loc, kind |-> kind, raw |-> x.row, says |-> Null,
                stamp |-> [session |-> Null, cwd |-> Null, branch |-> Null]]
    BY <2>2
  <2>6. loc[1] = x.at /\ loc[2] = "stopped"
    OBVIOUS
  <2> HIDE DEF stop, evs, loc, kind
  <2>7. PICK f : evs = <<f>> /\ f.loc = loc /\ f.kind = kind /\ f.raw = x.row /\ f.stamp.cwd = x.folder
    BY <2>4, <2>5, OneRestamped
  <2>8. Good(f)
    BY <1>3, <2>6, <2>7 DEF InItsFolder
  <2>9. IsAnswer(<<f>>, x) /\ Range(<<f>>) = {f}
    BY <2>8, OneAnswers, ShortLists
  <2> QED
    BY <2>7, <2>8, <2>9 DEF evs
<1>4. CASE ~x.vendors /\ ~x.stopped
  <2>1. Sql!RowAsEvent(x) = <<row>>
    BY DEF Sql!RowAsEvent
  <2> DEFINE loc == <<x.at, "self", 0>>
             kind == "unparsed.record"
             cwd == Or(literal, x.folder)
  <2>2. row = [loc |-> loc, kind |-> kind, raw |-> x.row, says |-> Null,
               stamp |-> [session |-> session, cwd |-> literal, branch |-> Null]]
    BY DEF Sql!Unparsed, Sql!Ev
  <2>3. Edi!Or(literal, x.folder) = cwd
    BY DEF Edi!Or, Edi!Said, Or, Said
  <2>4. loc[1] = x.at /\ kind # "config.snapshot"
    OBVIOUS
  <2> HIDE DEF literal, session, cwd, loc, kind
  <2> DEFINE st == Sql!RowAsEvent(x)
             to == Edi!Or(st[1].stamp.cwd, x.folder)
  <2>a. evs = [st EXCEPT ![1].stamp.cwd = to]
    BY <1>1, <1>4
  <2>b. row.stamp.cwd = literal
    BY <2>2
  <2>c. st = <<row>>
    BY <2>1
  <2> HIDE DEF st, evs, row
  <2>d. st[1].stamp.cwd = literal
    BY <2>b, <2>c
  <2>e. to = cwd
    BY <2>3, <2>d
  <2> HIDE DEF to
  <2>5. evs = [<<row>> EXCEPT ![1].stamp.cwd = cwd]
    BY <2>a, <2>c, <2>e
  <2> HIDE DEF row, evs
  <2>6. PICK f : evs = <<f>> /\ f.loc = loc /\ f.kind = kind /\ f.raw = x.row /\ f.stamp.cwd = cwd
    BY <2>2, <2>5, OneRestamped
  <2>7. Good(f)
    BY <1>4, <2>4, <2>6 DEF InItsFolder, cwd, literal
  <2>8. IsAnswer(<<f>>, x) /\ Range(<<f>>) = {f}
    BY <2>7, OneAnswers, ShortLists
  <2> QED
    BY <1>4, <2>6, <2>7, <2>8 DEF evs
<1> QED
  BY <1>2, <1>3, <1>4

(* -------------------------------------------------- what there is to read -- *)

(* The store is one that was put together from rows that are in order.     *)
StoreKept ==
    format \notin PageFormats =>
        /\ Kept(file.tables)
        /\ file.index = shape.index /\ file.perWorkspace = shape.perWorkspace

(* Once the store is open, what there is to take of it stays.              *)
Opened ==
    /\ at \in Nat
    /\ IF at = 0 THEN events = <<>> /\ items = <<>> ELSE items = Items /\ (format \notin PageFormats => at <= Len(items) + 1)

(* What reads row by row.                                                  *)
AnItem(x) ==
    /\ x.stopped \in BOOLEAN /\ x.at[1] = x.table /\ (x.stopped = TRUE <=> x.at = <<x.table, 0>>)
    /\ IF x.stopped THEN x.row = Null ELSE x.row \notin {Null, Odd} /\ Fits(format, x.table, x.row)
    /\ format = "editor" => x.folder = Edi!FolderBeside(file) /\ x.vendors \in BOOLEAN
    /\ format = "sidebar" => x.vendors \in BOOLEAN

(* A store is found as it was put together.                                *)
LEMMA StoreFound == Init => StoreKept
<1> SUFFICES ASSUME Init, format \notin PageFormats
             PROVE  Kept(file.tables) /\ file.index = shape.index /\ file.perWorkspace = shape.perWorkspace
  BY DEF StoreKept
<1>1. PICK s \in DOMAIN Shapes[format] : shape = Shapes[format][s]
  BY DEF Init
<1>2. PICK n \in 0..Lengths[format] : doc \in [1..n -> DOMAIN Cells[format]]
  BY DEF Init
<1>3. format \in DOMAIN Cells /\ Injective(doc) /\ file = Store
  BY DEF Init
<1>4. Chosen(s, n)
  BY <1>1, <1>2, <1>3 DEF Chosen
<1>5. Kept(Store.tables)
  BY <1>4, StoreIs
<1>6. Store.index = shape.index /\ Store.perWorkspace = shape.perWorkspace
  BY DEF Store
<1> QED
  BY <1>3, <1>5, <1>6

(* Every row that is read fits its reader, and no two are at one place.    *)
LEMMA ItemFacts ==
    ASSUME format \notin PageFormats, StoreKept
    PROVE  /\ IsList(Items) /\ \A i, j \in 1..Len(Items) : i < j => Items[i].at # Items[j].at
           /\ \A x \in Range(Items) : AnItem(x)
           /\ Sql!TablesOf(file) = <<>> => Items = <<>>
<1>1. Kept(file.tables) /\ Tables(file.tables) /\ RowsFit(file.tables)
  BY DEF StoreKept, Kept
<1>2. Tables(Sql!TablesOf(file)) /\ Range(Sql!TablesOf(file)) \subseteq Range(file.tables)
  BY <1>1, SeenTables
<1>3. Takes(Items, Range(Sql!TablesOf(file))) \/ Items = <<>>
  BY <1>1, ItemsTake
<1>4. /\ format = "editor" => \A x \in Range(Items) : x.folder = Edi!FolderBeside(file) /\ x.vendors \in BOOLEAN
      /\ format = "sidebar" => \A x \in Range(Items) : x.vendors \in BOOLEAN
  BY <1>1, ItemsTake
<1>5. IsList(Items) /\ \A i, j \in 1..Len(Items) : i < j => Items[i].at # Items[j].at
  <2>1. CASE Items = <<>>
    BY <2>1, ShortLists
  <2>2. CASE Takes(Items, Range(Sql!TablesOf(file)))
    BY <2>2 DEF Takes
  <2> QED
    BY <1>3, <2>1, <2>2
<1>6. ASSUME NEW x \in Range(Items)
      PROVE  \E t \in Range(Sql!TablesOf(file)) : IsRowOf(x, t) \/ IsStopOf(x, t)
  <2>1. Items # <<>>
    BY <1>6, ShortLists
  <2> QED
    BY <1>3, <1>6, <2>1 DEF Takes
<1>7. ASSUME NEW x \in Range(Items)
      PROVE  AnItem(x)
  <2>1. PICK t \in Range(Sql!TablesOf(file)) : IsRowOf(x, t) \/ IsStopOf(x, t)
    BY <1>6, <1>7
  <2>2. t \in Range(file.tables) /\ ATable(t)
    BY <1>1, <1>2, <2>1 DEF Tables
  <2>3. /\ x.table = t.name /\ x.at[1] = t.name
        /\ (x.at = <<t.name, 0>> <=> x.stopped = TRUE) /\ x.stopped \in BOOLEAN
    BY <2>1, <2>2, InItsTable
  <2>4. x.stopped => x.row = Null
    BY <2>1 DEF IsRowOf, IsStopOf
  <2>5. ~x.stopped => x.row \notin {Null, Odd} /\ Fits(format, x.table, x.row)
    <3> SUFFICES ASSUME ~x.stopped PROVE x.row \notin {Null, Odd} /\ Fits(format, x.table, x.row)
      OBVIOUS
    <3>1. IsRowOf(x, t)
      BY <2>1 DEF IsStopOf
    <3>2. PICK i \in 1..Reach(t) : x.row = t.rows[i]
      BY <3>1 DEF IsRowOf
    <3>3. i \in 1..Len(t.rows)
      BY <2>2, Reaching
    <3>4. t.rows[i] \notin {Null, Odd} /\ Fits(format, t.name, t.rows[i])
      BY <1>1, <2>2, <3>3 DEF RowsFit
    <3> QED
      BY <2>3, <3>2, <3>4
  <2> QED
    BY <1>4, <2>3, <2>4, <2>5 DEF AnItem
<1>8. Sql!TablesOf(file) = <<>> => Items = <<>>
  <2> SUFFICES ASSUME Sql!TablesOf(file) = <<>>, Items # <<>> PROVE FALSE
    OBVIOUS
  <2>1. Range(Items) # {}
    BY <1>5, ListFacts
  <2>2. Range(Sql!TablesOf(file)) = {}
    BY ShortLists
  <2> QED
    BY <1>6, <2>1, <2>2
<1> QED
  BY <1>5, <1>7, <1>8

(* What a reader answers an item with.                                     *)
Passed(x) == format = "hermes" /\ ~x.stopped /\ x.table = "messages" /\ Wordless(x.row)

Answered(evs, x) ==
    /\ Own(evs, x.at) /\ (evs # <<>> \/ Passed(x))
    /\ format \in {"editor", "generic"} /\ x.stopped => \A e \in Range(evs) : e.loc[2] = "stopped"
    /\ format = "editor" => \A e \in Range(evs) : InItsFolder(e, Edi!FolderBeside(file))

(* The step that takes an item.                                            *)
Taken(evs, next) ==
    /\ at \in DOMAIN items /\ at' = at + 1 /\ events' = events \o evs /\ carried' = next
    /\ format' = format /\ shape' = shape /\ doc' = doc /\ file' = file /\ items' = items

(* What the readers that carry something from row to row do with it.       *)
ByItsReader(evs, next) ==
    /\ format = "goose" => evs = Goo!Take(Item, carried).events /\ next = Goo!Take(Item, carried).carried
    /\ format = "opencode" => evs = Ope!Take(Item, carried).events /\ next = Ope!Take(Item, carried).carried
    /\ format = "hermes" => evs = Her!Take(Item, carried).events /\ next = Her!Take(Item, carried).carried

(* What a row that fits its reader holds.                                  *)
LEMMA RowFits ==
    ASSUME NEW x, AnItem(x), ~x.stopped
    PROVE  /\ format = "goose" => AList(Get(x.row, "content"))
           /\ format = "opencode" => AList(Get(Get(x.row, "data"), "content"))
           /\ format = "hermes" => (Get(x.row, "tool_calls") # Torn => AList(Get(x.row, "tool_calls")))
           /\ format = "amazonq" /\ x.table = "conversations" => Ama!DocumentFits(Get(x.row, "value"))
           /\ format = "zed" /\ x.table = "threads" => Zed!DocumentFits(Get(x.row, "data"))
<1>1. Fits(format, x.table, x.row)
  BY DEF AnItem
<1>2. format = "goose" => AList(Get(x.row, "content"))
  BY <1>1 DEF Fits
<1>3. format = "opencode" => AList(Get(Get(x.row, "data"), "content"))
  BY <1>1 DEF Fits
<1>4. format = "hermes" => (Get(x.row, "tool_calls") # Torn => AList(Get(x.row, "tool_calls")))
  BY <1>1 DEF Fits
<1>5. format = "amazonq" /\ x.table = "conversations" => Ama!DocumentFits(Get(x.row, "value"))
  BY <1>1 DEF Fits
<1>6. format = "zed" /\ x.table = "threads" => Zed!DocumentFits(Get(x.row, "data"))
  BY <1>1 DEF Fits
<1> QED
  BY <1>2, <1>3, <1>4, <1>5, <1>6

(* Every step but the first takes an item, and answers it.                 *)
LEMMA StepTakes ==
    ASSUME format \notin PageFormats, StoreKept, Opened, Next, at > 0
    PROVE  \E evs, next : Taken(evs, next) /\ AnItem(Item) /\ Answered(evs, Item) /\ ByItsReader(evs, next)
<1>1. items = Items /\ at \in Nat
  BY DEF Opened
<1>2. IsList(items) /\ \A x \in Range(items) : AnItem(x)
  BY <1>1, ItemFacts
<1>3. at \in DOMAIN items => AnItem(Item)
  BY <1>2 DEF Item, Range
<1>4. ASSUME NEW r, Read(r)
      PROVE  Taken(r.events, r.carried) /\ AnItem(Item)
  BY <1>3, <1>4 DEF Read, Taken
<1> DEFINE x == Item
<1>5. AnItem(x) => x.stopped \in BOOLEAN
  BY DEF AnItem
<1>6. \A evs : IsAnswer(evs, x) /\ format \notin {"editor", "generic"} => Answered(evs, x)
  BY DEF IsAnswer, Answered
<1>7. \A evs, next : format \notin {"goose", "opencode", "hermes"} => ByItsReader(evs, next)
  BY DEF ByItsReader
<1>8. CASE ReadGoose
  <2> DEFINE r == Goo!Take(Item, carried)
  <2>1. Read(r) /\ format = "goose"
    BY <1>8 DEF ReadGoose
  <2>2. Taken(r.events, r.carried) /\ AnItem(x)
    BY <1>4, <2>1
  <2>3. Answered(r.events, x)
    <3>1. IsAnswer(r.events, x)
      BY <1>5, <2>1, <2>2, RowFits, GooAnswers
    <3> QED
      BY <1>6, <2>1, <3>1
  <2>4. ByItsReader(r.events, r.carried)
    BY <1>7, <2>1 DEF ByItsReader
  <2> HIDE DEF r
  <2> QED
    BY <2>2, <2>3, <2>4
<1>9. CASE ReadOpencode
  <2> DEFINE r == Ope!Take(Item, carried)
  <2>1. Read(r) /\ format = "opencode"
    BY <1>9 DEF ReadOpencode
  <2>2. Taken(r.events, r.carried) /\ AnItem(x)
    BY <1>4, <2>1
  <2>3. Answered(r.events, x)
    <3>1. IsAnswer(r.events, x)
      BY <1>5, <2>1, <2>2, RowFits, OpeAnswers
    <3> QED
      BY <1>6, <2>1, <3>1
  <2>4. ByItsReader(r.events, r.carried)
    BY <1>7, <2>1 DEF ByItsReader
  <2> HIDE DEF r
  <2> QED
    BY <2>2, <2>3, <2>4
<1>10. CASE ReadAmazonQ
  <2> DEFINE r == Ama!Take(Item, carried)
  <2>1. Read(r) /\ format = "amazonq"
    BY <1>10 DEF ReadAmazonQ
  <2>2. Taken(r.events, r.carried) /\ AnItem(x)
    BY <1>4, <2>1
  <2>3. Answered(r.events, x)
    <3>1. IsAnswer(r.events, x)
      BY <1>5, <2>1, <2>2, RowFits, AmaAnswers
    <3> QED
      BY <1>6, <2>1, <3>1
  <2>4. ByItsReader(r.events, r.carried)
    BY <1>7, <2>1
  <2> HIDE DEF r
  <2> QED
    BY <2>2, <2>3, <2>4
<1>11. CASE ReadHermes
  <2> DEFINE r == Her!Take(Item, carried)
  <2>1. Read(r) /\ format = "hermes"
    BY <1>11 DEF ReadHermes
  <2>2. Taken(r.events, r.carried) /\ AnItem(x)
    BY <1>4, <2>1
  <2>3. Answered(r.events, x)
    <3>1. /\ Own(r.events, x.at)
          /\ x.stopped \/ x.table # "messages" \/ ~Wordless(x.row) => r.events # <<>>
      BY <1>5, <2>1, <2>2, RowFits, HerAnswers
    <3> QED
      BY <2>1, <3>1 DEF Answered, Passed
  <2>4. ByItsReader(r.events, r.carried)
    BY <2>1 DEF ByItsReader
  <2> HIDE DEF r
  <2> QED
    BY <2>2, <2>3, <2>4
<1>12. CASE ReadZed
  <2> DEFINE r == Zed!Take(Item, carried)
  <2>1. Read(r) /\ format = "zed"
    BY <1>12 DEF ReadZed
  <2>2. Taken(r.events, r.carried) /\ AnItem(x)
    BY <1>4, <2>1
  <2>3. Answered(r.events, x)
    <3>1. IsAnswer(r.events, x)
      BY <1>5, <2>1, <2>2, RowFits, ZedAnswers
    <3> QED
      BY <1>6, <2>1, <3>1
  <2>4. ByItsReader(r.events, r.carried)
    BY <1>7, <2>1
  <2> HIDE DEF r
  <2> QED
    BY <2>2, <2>3, <2>4
<1>13. CASE ReadSidebar
  <2> DEFINE r == Zed!TakeSidebar(Item, carried)
  <2>1. Read(r) /\ format = "sidebar"
    BY <1>13 DEF ReadSidebar
  <2>2. Taken(r.events, r.carried) /\ AnItem(x)
    BY <1>4, <2>1
  <2>3. Answered(r.events, x)
    <3>1. IsAnswer(r.events, x)
      BY <2>1, <2>2, SidebarAnswers DEF AnItem
    <3> QED
      BY <1>6, <2>1, <3>1
  <2>4. ByItsReader(r.events, r.carried)
    BY <1>7, <2>1
  <2> HIDE DEF r
  <2> QED
    BY <2>2, <2>3, <2>4
<1>14. CASE ReadThreads
  <2> DEFINE r == Thr!TakeState(file, Item, carried)
  <2>1. Read(r) /\ format = "threads"
    BY <1>14 DEF ReadThreads
  <2>2. Taken(r.events, r.carried) /\ AnItem(x)
    BY <1>4, <2>1
  <2>3. Answered(r.events, x)
    <3>1. IsAnswer(r.events, x)
      BY <1>5, <2>1, <2>2, ThrAnswers
    <3> QED
      BY <1>6, <2>1, <3>1
  <2>4. ByItsReader(r.events, r.carried)
    BY <1>7, <2>1
  <2> HIDE DEF r
  <2> QED
    BY <2>2, <2>3, <2>4
<1>15. CASE ReadEditor
  <2> DEFINE r == Edi!TakeItem(Item, carried)
  <2>1. Read(r) /\ format = "editor"
    BY <1>15 DEF ReadEditor
  <2>2. Taken(r.events, r.carried) /\ AnItem(x)
    BY <1>4, <2>1
  <2>a. /\ x.stopped \in BOOLEAN /\ x.vendors \in BOOLEAN /\ (x.stopped => x.row = Null)
        /\ (x.stopped \/ x.row # Null) /\ x.folder = Edi!FolderBeside(file)
    BY <2>1, <2>2 DEF AnItem
  <2>b. /\ IsAnswer(r.events, x) /\ (x.stopped => \A e \in Range(r.events) : e.loc[2] = "stopped")
        /\ x.stopped \/ x.row # Null => \A e \in Range(r.events) : InItsFolder(e, x.folder)
    <3> DEFINE y == x
    <3>1. y.stopped \in BOOLEAN /\ y.vendors \in BOOLEAN /\ (y.stopped => y.row = Null)
      BY <2>a
    <3> HIDE DEF y
    <3>2. LET evs == Edi!TakeItem(y, carried).events
          IN  /\ IsAnswer(evs, y) /\ (y.stopped => \A e \in Range(evs) : e.loc[2] = "stopped")
              /\ y.stopped \/ y.row # Null => \A e \in Range(evs) : InItsFolder(e, y.folder)
      BY <3>1, EdiAnswers
    <3> QED
      BY <3>2 DEF y
  <2>3. Answered(r.events, x)
    <3> HIDE DEF r
    <3> QED
      BY <2>a, <2>b DEF Answered, IsAnswer
  <2>4. ByItsReader(r.events, r.carried)
    BY <1>7, <2>1
  <2> HIDE DEF r
  <2> QED
    BY <2>2, <2>3, <2>4
<1>16. CASE ReadGeneric
  <2> DEFINE r == Sql!TakeGeneric(Item, carried)
  <2>1. Read(r) /\ format = "generic"
    BY <1>16 DEF ReadGeneric
  <2>2. Taken(r.events, r.carried) /\ AnItem(x)
    BY <1>4, <2>1
  <2>a. /\ IsAnswer(r.events, x) /\ (x.stopped => \A e \in Range(r.events) : e.loc[2] = "stopped")
    BY <1>5, <2>2, GenericAnswers
  <2>3. Answered(r.events, x)
    <3> HIDE DEF r
    <3> QED
      BY <2>1, <2>a DEF Answered, IsAnswer
  <2>4. ByItsReader(r.events, r.carried)
    BY <1>7, <2>1
  <2> HIDE DEF r
  <2> QED
    BY <2>2, <2>3, <2>4
<1>17. ~Open /\ ~ReadPages
  BY DEF Open, ReadPages, PageFormats
<1> QED
  BY <1>8, <1>9, <1>10, <1>11, <1>12, <1>13, <1>14, <1>15, <1>16, <1>17 DEF Next

(* What a store begins with is one record that stands for no row.          *)
LEMMA PrefaceIs ==
    ASSUME format \notin PageFormats, StoreKept
    PROVE  /\ Distinct(Preface)
           /\ \A e \in Range(Preface) :
                 e.loc[2] = "self" /\ (Items # <<>> => format \in {"editor", "generic"} /\ e.loc[1] = <<"schema", 0>>)
           /\ format = "editor" => Preface = Edi!StateStart(file)
           /\ format = "editor" /\ Sql!TablesOf(file) # <<>> => Len(Preface) = 1
<1> DEFINE aside == Sql!Sidecar(file) \/ ~file.opens
           record == Sql!Unparsed(Sql!File, "self", 0, [suffix |-> file.suffix], Sql!NoStamp)
           stored == Edi!Ev(<<"schema", 0>>, "self", 0, "config.snapshot",
                         {file.tables[i].name : i \in DOMAIN file.tables}, Edi!In(Edi!FolderBeside(file)),
                         [unresolved |-> file.perWorkspace /\ Edi!FolderBeside(file) = Null])
           listed == Sql!Inventory(file)[1]
<1>1. /\ Sql!FileRecord(file) = IF aside THEN <<record>> ELSE <<>>
      /\ Edi!FileRecord(file) = Sql!FileRecord(file)
  BY EdiShares DEF Sql!FileRecord
<1>2. aside => Sql!TablesOf(file) = <<>> /\ Items = <<>>
  BY ItemFacts DEF Sql!TablesOf
<1>3. /\ format = "editor" => Preface = Edi!StateStart(file)
      /\ format = "generic" => Preface = Sql!GenericStart(file)
      /\ format \notin {"editor", "generic"} => Preface = Sql!FileRecord(file)
  BY DEF Preface, PageFormats
<1>4. Edi!StateStart(file) = IF aside THEN Edi!FileRecord(file) ELSE <<stored>>
  <2>1. (Edi!Sidecar(file) \/ ~file.opens) <=> aside
    BY DEF Edi!Sidecar, Sql!Sidecar
  <2> QED
    BY <2>1 DEF Edi!StateStart
<1>5. /\ Sql!GenericStart(file) = IF aside THEN Sql!FileRecord(file) ELSE Sql!Inventory(file)
      /\ \E says : Sql!Inventory(file) = <<Sql!Unparsed(<<"schema", 0>>, "self", 0, says, Sql!NoStamp)>>
  BY DEF Sql!GenericStart, Sql!Inventory
<1>6. record.loc[2] = "self" /\ stored.loc[2] = "self" /\ stored.loc[1] = <<"schema", 0>>
  BY DEF Sql!Unparsed, Sql!Ev, Edi!Ev
<1>7. \E e : Sql!Inventory(file) = <<e>> /\ e.loc[2] = "self" /\ e.loc[1] = <<"schema", 0>>
  <2>1. PICK says : Sql!Inventory(file) = <<Sql!Unparsed(<<"schema", 0>>, "self", 0, says, Sql!NoStamp)>>
    BY <1>5
  <2> DEFINE e == Sql!Unparsed(<<"schema", 0>>, "self", 0, says, Sql!NoStamp)
  <2>2. e.loc[2] = "self" /\ e.loc[1] = <<"schema", 0>>
    BY DEF Sql!Unparsed, Sql!Ev
  <2> HIDE DEF e
  <2> QED
    BY <2>1, <2>2 DEF e
<1> HIDE DEF record, stored, aside
<1> DEFINE Sole(e) == /\ Preface = <<e>> /\ e.loc[2] = "self"
                      /\ (Items # <<>> => format \in {"editor", "generic"} /\ e.loc[1] = <<"schema", 0>>)
<1>8. Preface = <<>> \/ \E e : Sole(e)
  <2>1. CASE aside
    BY <1>1, <1>2, <1>3, <1>4, <1>5, <1>6, <2>1
  <2>2. CASE ~aside /\ format = "editor"
    BY <1>3, <1>4, <1>6, <2>2
  <2>3. CASE ~aside /\ format = "generic"
    BY <1>3, <1>5, <1>7, <2>3
  <2>4. CASE ~aside /\ format \notin {"editor", "generic"}
    BY <1>1, <1>3, <2>4
  <2> QED
    BY <2>1, <2>2, <2>3, <2>4
<1>9. CASE Preface = <<>>
  <2>1. Distinct(Preface) /\ Range(Preface) = {}
    BY <1>9, OneIsDistinct, ShortLists
  <2>2. ~(format = "editor" /\ Sql!TablesOf(file) # <<>>)
    BY <1>2, <1>3, <1>4, <1>9, ShortLists
  <2> QED
    BY <1>3, <2>1, <2>2
<1>10. ASSUME NEW e, Sole(e)
       PROVE  /\ Distinct(Preface) /\ Range(Preface) = {e} /\ Len(Preface) = 1
  BY <1>10, OneIsDistinct, ShortLists
<1> QED
  BY <1>3, <1>8, <1>9, <1>10

(* --------------------------------------------------------- the invariants -- *)

(* What is told is told of the store as a whole or of an item that was     *)
(* taken, and no two of it have one identity.                              *)
ReadByPlace ==
    format \notin PageFormats /\ at > 0 =>
        /\ Distinct(events)
        /\ \A e \in Range(events) : e \in Range(Preface) \/ \E k \in 1..(at - 1) : e.loc[1] = items[k].at

(* Every item that was taken has an event, or nothing that could be told.  *)
ReadWholly ==
    format \notin PageFormats /\ at > 0 =>
        \A k \in 1..(at - 1) : Passed(items[k]) \/ \E e \in Range(events) : e.loc[1] = items[k].at

(* What follows the first event of an editor's store is in its folder.     *)
ReadInFolder ==
    format = "editor" /\ at > 0 /\ Sql!TablesOf(file) # <<>> =>
        /\ IsList(events) /\ Len(events) >= 1 /\ events[1] = Edi!StateStart(file)[1]
        /\ \A i \in 2..Len(events) : InItsFolder(events[i], Edi!FolderBeside(file))

(* A step leaves the store and what there is to read of it alone.          *)
LEMMA FileStays == Next => format' = format /\ shape' = shape /\ doc' = doc /\ file' = file
<1> SUFFICES ASSUME Next PROVE format' = format /\ shape' = shape /\ doc' = doc /\ file' = file
  OBVIOUS
<1>1. \A r : Read(r) => format' = format /\ shape' = shape /\ doc' = doc /\ file' = file
  BY DEF Read
<1> QED
  BY <1>1 DEF Next, Open, ReadPages, ReadGoose, ReadOpencode, ReadAmazonQ, ReadHermes, ReadZed, ReadSidebar,
              ReadThreads, ReadEditor, ReadGeneric

(* So what depends on them stays too.                                      *)
LEMMA SoStays ==
    ASSUME format' = format, shape' = shape, doc' = doc, file' = file
    PROVE  /\ StoreKept => StoreKept'
           /\ Items' = Items /\ Preface' = Preface
           /\ \A x : Passed(x)' = Passed(x)
<1>1. StoreKept => StoreKept'
  BY DEF StoreKept, Kept, Tables, RowsFit, KeysOnce, OfSessions, ATable
<1>2. Items' = Items
  BY DEF Items
<1>3. Preface' = Preface
  BY DEF Preface, Places
<1>4. \A x : Passed(x)' = Passed(x)
  BY DEF Passed
<1> QED
  BY <1>1, <1>2, <1>3, <1>4

(* So the store is always one that was put together like that.             *)
LEMMA AlwaysStoreKept == Spec => []StoreKept
<1>1. Init => StoreKept
  BY StoreFound
<1>2. StoreKept /\ [Next]_vars => StoreKept'
  <2>1. UNCHANGED vars => format' = format /\ shape' = shape /\ doc' = doc /\ file' = file
    BY DEF vars
  <2> QED
    BY <2>1, FileStays, SoStays
<1> QED
  BY <1>1, <1>2, PTL DEF Spec

(* What there is to read stays once the store is open.                     *)
LEMMA AlwaysOpened == Spec => []Opened
<1>1. Init => Opened
  BY DEF Init, Opened
<1>2. StoreKept /\ Opened /\ [Next]_vars => Opened'
  <2> SUFFICES ASSUME StoreKept, Opened, [Next]_vars PROVE Opened'
    OBVIOUS
  <2>1. CASE UNCHANGED vars
    <3>1. /\ format' = format /\ shape' = shape /\ doc' = doc /\ file' = file
          /\ at' = at /\ items' = items /\ events' = events
      BY <2>1 DEF vars
    <3> QED
      BY <3>1, SoStays DEF Opened
  <2>2. CASE Next
    <3>1. format' = format /\ Items' = Items
      BY <2>2, FileStays, SoStays
    <3>2. format \notin PageFormats => IsList(Items) /\ Len(Items) \in Nat
      BY ItemFacts, ListFacts
    <3>3. CASE Open
      <4>1. at' = 1 /\ items' = Items
        BY <3>3 DEF Open
      <4> QED
        BY <3>1, <3>2, <4>1 DEF Opened
    <3>4. ASSUME NEW r, Read(r)
          PROVE  Opened'
      <4>1. at' = at + 1 /\ items' = items /\ at \in DOMAIN items /\ at \in Nat
        BY <3>4 DEF Read, Opened
      <4>2. at # 0
        <5>1. at = 0 => items = <<>>
          BY DEF Opened
        <5>2. DOMAIN <<>> = {}
          OBVIOUS
        <5> QED
          BY <4>1, <5>1, <5>2
      <4>3. items = Items /\ (format \notin PageFormats => at \in 1..Len(Items))
        BY <3>2, <4>1, <4>2, ListFacts DEF Opened
      <4>4. at' # 0 /\ at' \in Nat /\ items' = Items /\ (format \notin PageFormats => at' <= Len(Items) + 1)
        BY <3>2, <4>1, <4>3
      <4> QED
        BY <3>1, <4>4 DEF Opened
    <3> QED
      BY <2>2, <3>3, <3>4 DEF Next, ReadPages, ReadGoose, ReadOpencode, ReadAmazonQ, ReadHermes, ReadZed,
                              ReadSidebar, ReadThreads, ReadEditor, ReadGeneric
  <2> QED
    BY <2>1, <2>2
<1> QED
  BY <1>1, <1>2, AlwaysStoreKept, PTL DEF Spec

(* The first step opens the store.                                         *)
LEMMA FirstOpens ==
    ASSUME Opened, Next, at = 0
    PROVE  at' = 1 /\ items' = Items /\ carried' = StartOf /\ events' = Preface
<1>1. \A r : ~Read(r)
  <2>1. items = <<>> /\ DOMAIN <<>> = {}
    BY DEF Opened
  <2> QED
    BY <2>1 DEF Read
<1>2. Open
  BY <1>1 DEF Next, ReadPages, ReadGoose, ReadOpencode, ReadAmazonQ, ReadHermes, ReadZed, ReadSidebar,
              ReadThreads, ReadEditor, ReadGeneric
<1> QED
  BY <1>2 DEF Open

(* What a step that takes an item finds and leaves.                        *)
LEMMA TakenFacts ==
    ASSUME format \notin PageFormats, StoreKept, Opened, at > 0, NEW evs, NEW next, Taken(evs, next)
    PROVE  /\ at \in 1..Len(items) /\ Len(items) \in Nat /\ at' = at + 1 /\ events' = events \o evs
           /\ items = Items /\ Items # <<>> /\ IsList(items) /\ Item = items[at]
           /\ format' = format /\ file' = file /\ items' = items /\ carried' = next /\ Preface' = Preface
           /\ \A k \in 1..(at - 1) : items[k].at # Item.at /\ k \in 1..Len(items)
           /\ \A k \in 1..(at' - 1) : k \in 1..(at - 1) \/ k = at
<1>1. items = Items /\ IsList(items)
  BY ItemFacts DEF Opened
<1>2. at \in 1..Len(items) /\ Len(items) \in Nat
  BY <1>1, ListFacts DEF Taken
<1>3. items # <<>>
  BY <1>2, ShortLists
<1>4. ASSUME NEW k \in 1..(at - 1)
      PROVE  items[k].at # Item.at /\ k \in 1..Len(items)
  <2>1. k < at /\ k \in 1..Len(items)
    BY <1>2
  <2> QED
    BY <1>1, <1>2, <2>1, ItemFacts DEF Item
<1>5. Preface' = Preface
  BY SoStays DEF Taken
<1>6. at' = at + 1 /\ \A k \in 1..(at' - 1) : k \in 1..(at - 1) \/ k = at
  <2>1. at' = at + 1
    BY DEF Taken
  <2> QED
    BY <1>2, <2>1
<1> QED
  BY <1>1, <1>2, <1>3, <1>4, <1>5, <1>6 DEF Taken, Item

(* What an item is answered with is at a place of its own.                 *)
LEMMA TakesByPlace ==
    ASSUME format \notin PageFormats, StoreKept, Opened, at > 0, ReadByPlace,
           NEW evs, NEW next, Taken(evs, next), AnItem(Item), Answered(evs, Item)
    PROVE  ReadByPlace' /\ IsList(evs) /\ Range(events') = Range(events) \cup Range(evs)
<1>1. /\ at \in 1..Len(items) /\ Len(items) \in Nat /\ at' = at + 1 /\ events' = events \o evs
      /\ items = Items /\ Items # <<>> /\ Item = items[at]
      /\ format' = format /\ items' = items /\ Preface' = Preface
      /\ \A k \in 1..(at - 1) : items[k].at # Item.at
  BY TakenFacts
<1>2. Distinct(events) /\ \A e \in Range(events) : e \in Range(Preface) \/ \E k \in 1..(at - 1) : e.loc[1] = items[k].at
  BY DEF ReadByPlace
<1>3. Distinct(evs) /\ IsList(evs) /\ \A e \in Range(evs) : e.loc[1] = Item.at
  BY DEF Answered, Own, Distinct
<1>4. ASSUME NEW e \in Range(events), NEW f \in Range(evs)
      PROVE  Identity(e) # Identity(f)
  <2>1. CASE e \in Range(Preface)
    <3>1. e.loc[2] = "self" /\ format \in {"editor", "generic"} /\ e.loc[1] = <<"schema", 0>>
      BY <1>1, <2>1, PrefaceIs
    <3>2. CASE Item.at = <<"schema", 0>>
      <4>1. Item.table = "schema" /\ Item.stopped
        BY <3>2 DEF AnItem
      <4>2. f.loc[2] = "stopped"
        BY <1>4, <3>1, <4>1 DEF Answered
      <4>3. e.loc # f.loc
        BY <3>1, <4>2
      <4> QED
        BY <4>3 DEF Identity
    <3>3. CASE Item.at # <<"schema", 0>>
      <4>1. e.loc # f.loc
        BY <1>3, <1>4, <3>1, <3>3
      <4> QED
        BY <4>1 DEF Identity
    <3> QED
      BY <3>2, <3>3
  <2>2. CASE \E k \in 1..(at - 1) : e.loc[1] = items[k].at
    <3>1. e.loc[1] # f.loc[1]
      BY <1>1, <1>3, <1>4, <2>2
    <3>2. e.loc # f.loc
      BY <3>1
    <3> QED
      BY <3>2 DEF Identity
  <2> QED
    BY <1>2, <1>4, <2>1, <2>2
<1>5. Apart(events, evs)
  BY <1>4 DEF Apart
<1>6. Distinct(events \o evs) /\ Range(events \o evs) = Range(events) \cup Range(evs)
  BY <1>2, <1>3, <1>5, DistinctJoin
<1>7. ASSUME NEW e \in Range(events')
      PROVE  e \in Range(Preface') \/ \E k \in 1..(at' - 1) : e.loc[1] = items'[k].at
  <2>1. CASE e \in Range(events)
    <3>1. \A k \in 1..(at - 1) : k \in 1..(at' - 1)
      BY <1>1
    <3> QED
      BY <1>1, <1>2, <2>1, <3>1
  <2>2. CASE e \in Range(evs)
    <3>1. at \in 1..(at' - 1) /\ items'[at] = Item
      BY <1>1
    <3>2. e.loc[1] = Item.at
      BY <1>3, <2>2
    <3> QED
      BY <3>1, <3>2
  <2> QED
    BY <1>1, <1>6, <1>7, <2>1, <2>2
<1> QED
  BY <1>1, <1>3, <1>6, <1>7 DEF ReadByPlace

(* So no two events have one identity, always.                             *)
LEMMA AlwaysReadByPlace == Spec => []ReadByPlace
<1>1. Init => ReadByPlace
  BY DEF Init, ReadByPlace
<1>2. StoreKept /\ Opened /\ ReadByPlace /\ [Next]_vars => ReadByPlace'
  <2> SUFFICES ASSUME StoreKept, Opened, ReadByPlace, [Next]_vars PROVE ReadByPlace'
    OBVIOUS
  <2>1. CASE UNCHANGED vars
    <3>1. /\ format' = format /\ shape' = shape /\ doc' = doc /\ file' = file
          /\ at' = at /\ items' = items /\ events' = events
      BY <2>1 DEF vars
    <3> QED
      BY <3>1, SoStays DEF ReadByPlace
  <2>2. CASE Next /\ format \in PageFormats
    BY <2>2, FileStays DEF ReadByPlace
  <2>3. CASE Next /\ format \notin PageFormats /\ at = 0
    <3>1. events' = Preface /\ Preface' = Preface /\ format' = format
      BY <2>3, FirstOpens, FileStays, SoStays
    <3>2. Distinct(Preface)
      BY <2>3, PrefaceIs
    <3> QED
      BY <3>1, <3>2 DEF ReadByPlace
  <2>4. CASE Next /\ format \notin PageFormats /\ at > 0
    <3>1. PICK evs, next : Taken(evs, next) /\ AnItem(Item) /\ Answered(evs, Item)
      BY <2>4, StepTakes
    <3> QED
      BY <2>4, <3>1, TakesByPlace
  <2>5. at = 0 \/ at > 0
    BY DEF Opened
  <2> QED
    BY <2>1, <2>2, <2>3, <2>4, <2>5
<1> QED
  BY <1>1, <1>2, AlwaysStoreKept, AlwaysOpened, PTL DEF Spec

(* No two events of a store that is read row by row have one identity,     *)
(* whatever rows and tables it has, with rowids and without them, wherever *)
(* reading a table stops (sqlite_store.py, rows_of).                       *)
THEOREM AlwaysRowIdentitiesDistinct == Spec => []RowIdentitiesDistinct
<1>1. Opened /\ ReadByPlace => RowIdentitiesDistinct
  <2> SUFFICES ASSUME Opened, ReadByPlace, format \notin PageFormats
               PROVE  \A i, j \in DOMAIN events : i < j => EventId(events[i]) # EventId(events[j])
    BY Zenon DEF RowIdentitiesDistinct
  <2>1. CASE at = 0
    <3>1. DOMAIN events = {}
      BY <2>1 DEF Opened
    <3> QED
      BY <3>1
  <2>2. CASE at > 0
    <3>1. Distinct(events)
      BY <2>2 DEF ReadByPlace
    <3>2. DOMAIN events = 1..Len(events)
      BY <3>1, ListFacts DEF Distinct
    <3> QED
      BY <3>1, <3>2 DEF Distinct, Identity, EventId
  <2> QED
    BY <2>1, <2>2 DEF Opened
<1> QED
  BY <1>1, AlwaysOpened, AlwaysReadByPlace, PTL

(* Every item that a step takes is told of.                                *)
LEMMA TakesWholly ==
    ASSUME format \notin PageFormats, StoreKept, Opened, at > 0, ReadByPlace, ReadWholly,
           NEW evs, NEW next, Taken(evs, next), AnItem(Item), Answered(evs, Item)
    PROVE  ReadWholly'
<1>1. /\ at' = at + 1 /\ Item = items[at] /\ items' = items
      /\ format' = format /\ shape' = shape /\ doc' = doc /\ file' = file
      /\ \A k \in 1..(at' - 1) : k \in 1..(at - 1) \/ k = at
  BY TakenFacts DEF Taken
<1>2. IsList(evs) /\ Range(events') = Range(events) \cup Range(evs)
  BY TakesByPlace
<1>3. \A x : Passed(x)' = Passed(x)
  BY <1>1, SoStays
<1>4. ASSUME NEW k \in 1..(at' - 1)
      PROVE  Passed(items[k]) \/ \E e \in Range(events') : e.loc[1] = items[k].at
  <2>1. CASE k \in 1..(at - 1)
    BY <1>2, <2>1 DEF ReadWholly
  <2>2. CASE k = at
    <3>1. CASE Passed(Item)
      BY <1>1, <2>2, <3>1
    <3>2. CASE evs # <<>>
      <4>1. PICK e : e \in Range(evs)
        BY <1>2, <3>2, ListFacts
      <4>2. e.loc[1] = Item.at
        BY <4>1 DEF Answered, Own
      <4> QED
        BY <1>1, <1>2, <2>2, <4>1, <4>2
    <3> QED
      BY <3>1, <3>2 DEF Answered
  <2> QED
    BY <1>1, <1>4, <2>1, <2>2
<1> QED
  BY <1>1, <1>3, <1>4 DEF ReadWholly

(* So everything that was taken was told of, always.                       *)
LEMMA AlwaysReadWholly == Spec => []ReadWholly
<1>1. Init => ReadWholly
  BY DEF Init, ReadWholly
<1>2. StoreKept /\ Opened /\ ReadByPlace /\ ReadWholly /\ [Next]_vars => ReadWholly'
  <2> SUFFICES ASSUME StoreKept, Opened, ReadByPlace, ReadWholly, [Next]_vars PROVE ReadWholly'
    OBVIOUS
  <2>1. CASE UNCHANGED vars
    <3>1. /\ format' = format /\ shape' = shape /\ doc' = doc /\ file' = file
          /\ at' = at /\ items' = items /\ events' = events
      BY <2>1 DEF vars
    <3> QED
      BY <3>1, SoStays DEF ReadWholly
  <2>2. CASE Next /\ format \in PageFormats
    BY <2>2, FileStays DEF ReadWholly
  <2>3. CASE Next /\ format \notin PageFormats /\ at = 0
    BY <2>3, FirstOpens DEF ReadWholly
  <2>4. CASE Next /\ format \notin PageFormats /\ at > 0
    <3>1. PICK evs, next : Taken(evs, next) /\ AnItem(Item) /\ Answered(evs, Item)
      BY <2>4, StepTakes
    <3> QED
      BY <2>4, <3>1, TakesWholly
  <2>5. at = 0 \/ at > 0
    BY DEF Opened
  <2> QED
    BY <2>1, <2>2, <2>3, <2>4, <2>5
<1> QED
  BY <1>1, <1>2, AlwaysStoreKept, AlwaysOpened, AlwaysReadByPlace, PTL DEF Spec

(* When a store has been read, every row of every table has an event at    *)
(* its place or its table has a record that says that not all of it was    *)
(* read, whatever the rows, the limits and the place where reading fails   *)
(* (sqlite_store.py, rows_of).                                             *)
THEOREM AlwaysReadOrSaid == Spec => []ReadOrSaid
<1>1. StoreKept /\ Opened /\ ReadWholly => ReadOrSaid
  <2> SUFFICES ASSUME StoreKept, Opened, ReadWholly, format \notin PageFormats, at = Len(items) + 1,
                      Sql!TablesOf(file) # <<>>, ~shape.index,
                      NEW n \in DOMAIN file.tables, NEW i \in DOMAIN file.tables[n].rows
               PROVE  \/ Silent(file.tables[n], i)
                      \/ \E k \in DOMAIN events : events[k].loc[1] = Sql!RowLocator(file.tables[n], i)
                      \/ \E k \in DOMAIN events : events[k].loc[1] = <<file.tables[n].name, 0>>
    BY DEF ReadOrSaid
  <2> DEFINE t == file.tables[n]
             told(place) == \E k \in DOMAIN events : events[k].loc[1] = place
  <2>1. Tables(file.tables) /\ file.index = shape.index
    BY DEF StoreKept, Kept
  <2>2. Sql!TablesOf(file) = file.tables /\ t \in Range(file.tables) /\ ATable(t)
    BY <2>1, SeenTables DEF Tables, Range
  <2>3. Takes(Items, Range(file.tables))
    BY <2>1, <2>2, ItemsTake
  <2>4. at # 0
    <3>1. at = 0 => items = <<>> /\ Len(<<>>) = 0
      BY ShortLists DEF Opened
    <3> QED
      BY <3>1
  <2>5. items = Items /\ at > 0
    BY <2>4 DEF Opened
  <2>6. ASSUME NEW x \in Range(Items), ~Passed(x)
        PROVE  told(x.at)
    <3>1. IsList(items) /\ DOMAIN items = 1..Len(items) /\ Len(items) \in Nat
      BY <2>3, <2>5, ListFacts DEF Takes
    <3>2. PICK k \in 1..Len(items) : x = items[k]
      BY <2>5, <2>6, <3>1 DEF Range
    <3>3. k \in 1..(at - 1)
      BY <3>1
    <3>4. PICK e \in Range(events) : e.loc[1] = x.at
      BY <2>5, <2>6, <3>2, <3>3 DEF ReadWholly
    <3> QED
      BY <3>4 DEF Range
  <2>7. Len(t.rows) \in Nat /\ DOMAIN t.rows = 1..Len(t.rows) /\ Reach(t) \in Nat
    BY <2>2, Reaching, ListFacts DEF ATable
  <2> HIDE DEF told
  <2>8. CASE i \in 1..Reach(t)
    <3>1. PICK x \in Range(Items) : x.row = t.rows[i] /\ x.at = Sql!RowLocator(t, i) /\ IsRowOf(x, t)
      BY <2>2, <2>3, <2>8 DEF Takes
    <3>2. CASE Passed(x)
      <4>1. format = "hermes" /\ t.name = "messages" /\ Wordless(t.rows[i])
        BY <3>1, <3>2 DEF Passed, IsRowOf
      <4> QED
        BY <4>1 DEF Silent
    <3>3. CASE ~Passed(x)
      BY <2>6, <3>1, <3>3 DEF told
    <3> QED
      BY <3>2, <3>3
  <2>9. CASE i \notin 1..Reach(t)
    <3>1. Reach(t) < Len(t.rows)
      BY <2>7, <2>9
    <3>2. PICK x \in Range(Items) : IsStopOf(x, t)
      BY <2>2, <2>3, <3>1 DEF Takes
    <3>3. x.at = <<t.name, 0>> /\ ~Passed(x)
      BY <3>2 DEF IsStopOf, Passed
    <3> QED
      BY <2>6, <3>2, <3>3 DEF told
  <2> QED
    BY <2>8, <2>9
<1> QED
  BY <1>1, AlwaysStoreKept, AlwaysOpened, AlwaysReadWholly, PTL

(* What a step adds to an editor's store is in its folder.                 *)
LEMMA TakesInFolder ==
    ASSUME format \notin PageFormats, StoreKept, Opened, at > 0, ReadInFolder,
           NEW evs, NEW next, Taken(evs, next), Answered(evs, Item)
    PROVE  ReadInFolder'
<1> SUFFICES ASSUME format = "editor", Sql!TablesOf(file) # <<>>
             PROVE  /\ IsList(events') /\ Len(events') >= 1 /\ events'[1] = Edi!StateStart(file)[1]
                    /\ \A i \in 2..Len(events') : InItsFolder(events'[i], Edi!FolderBeside(file))
  BY DEF ReadInFolder, Taken
<1>1. events' = events \o evs
  BY DEF Taken
<1>2. /\ IsList(events) /\ Len(events) >= 1 /\ events[1] = Edi!StateStart(file)[1]
      /\ \A i \in 2..Len(events) : InItsFolder(events[i], Edi!FolderBeside(file))
  BY DEF ReadInFolder
<1>3. IsList(evs) /\ \A e \in Range(evs) : InItsFolder(e, Edi!FolderBeside(file))
  BY DEF Answered, Own
<1>4. /\ IsList(events \o evs) /\ Len(events \o evs) = Len(events) + Len(evs)
      /\ \A i \in 1..Len(events) : (events \o evs)[i] = events[i]
      /\ \A i \in 1..Len(events) + Len(evs) :
            \/ i \in 1..Len(events)
            \/ i - Len(events) \in 1..Len(evs) /\ (events \o evs)[i] = evs[i - Len(events)]
  BY <1>2, <1>3, ListsJoin
<1>5. Len(events) \in Nat /\ Len(evs) \in Nat /\ \A i \in 1..Len(evs) : evs[i] \in Range(evs)
  BY <1>2, <1>3, ListFacts
<1>6. ASSUME NEW i \in 2..Len(events \o evs)
      PROVE  InItsFolder((events \o evs)[i], Edi!FolderBeside(file))
  <2>1. i \in 1..Len(events) + Len(evs) /\ i >= 2
    BY <1>4, <1>5, <1>6
  <2>2. CASE i \in 1..Len(events)
    <3>1. i \in 2..Len(events)
      BY <1>5, <2>1, <2>2
    <3> QED
      BY <1>2, <1>4, <2>2, <3>1
  <2>3. CASE i - Len(events) \in 1..Len(evs) /\ (events \o evs)[i] = evs[i - Len(events)]
    BY <1>3, <1>5, <2>3
  <2> QED
    BY <1>4, <2>1, <2>2, <2>3
<1> QED
  BY <1>1, <1>2, <1>4, <1>5, <1>6

(* So the events of an editor's store are in its folder, always.           *)
LEMMA AlwaysReadInFolder == Spec => []ReadInFolder
<1>1. Init => ReadInFolder
  BY DEF Init, ReadInFolder
<1>2. StoreKept /\ Opened /\ ReadInFolder /\ [Next]_vars => ReadInFolder'
  <2> SUFFICES ASSUME StoreKept, Opened, ReadInFolder, [Next]_vars PROVE ReadInFolder'
    OBVIOUS
  <2>1. CASE UNCHANGED vars
    <3>1. format' = format /\ file' = file /\ at' = at /\ events' = events
      BY <2>1 DEF vars
    <3> QED
      BY <3>1 DEF ReadInFolder, InItsFolder
  <2>2. CASE Next /\ format # "editor"
    BY <2>2, FileStays DEF ReadInFolder
  <2>a. format = "editor" => format \notin PageFormats
    BY DEF PageFormats
  <2>3. CASE Next /\ format = "editor" /\ at = 0
    <3>1. events' = Preface /\ format' = format /\ file' = file
      BY <2>3, FirstOpens, FileStays
    <3>2. Distinct(Preface) /\ Preface = Edi!StateStart(file) /\ (Sql!TablesOf(file) # <<>> => Len(Preface) = 1)
      BY <2>3, <2>a, PrefaceIs
    <3> SUFFICES ASSUME Sql!TablesOf(file) # <<>>
                 PROVE  /\ IsList(events') /\ Len(events') >= 1 /\ events'[1] = Edi!StateStart(file)[1]
                        /\ \A i \in 2..Len(events') : InItsFolder(events'[i], Edi!FolderBeside(file))
      BY <3>1 DEF ReadInFolder
    <3>3. IsList(events') /\ Len(events') = 1 /\ events'[1] = Edi!StateStart(file)[1]
      BY <3>1, <3>2 DEF Distinct
    <3>4. \A i \in 2..Len(events') : FALSE
      BY <3>3
    <3> QED
      BY <3>3, <3>4
  <2>4. CASE Next /\ format = "editor" /\ at > 0
    <3>1. PICK evs, next : Taken(evs, next) /\ Answered(evs, Item)
      BY <2>4, <2>a, StepTakes
    <3> QED
      BY <2>4, <2>a, <3>1, TakesInFolder
  <2>5. at = 0 \/ at > 0
    BY DEF Opened
  <2> QED
    BY <2>1, <2>2, <2>3, <2>4, <2>5
<1> QED
  BY <1>1, <1>2, AlwaysStoreKept, AlwaysOpened, PTL DEF Spec

(* A row of an editor's store of one workspace is stamped with the folder  *)
(* that the file beside it names, unless a row that is no setting names    *)
(* another one; that no folder could be told is said of the store          *)
(* (vscode_state.py).                                                      *)
THEOREM AlwaysFolderOfTheWorkspace == Spec => []FolderOfTheWorkspace
<1>1. StoreKept /\ ReadInFolder => FolderOfTheWorkspace
  <2> SUFFICES ASSUME StoreKept, ReadInFolder, format = "editor", at > 0, Sql!TablesOf(file) # <<>>
               PROVE  /\ shape.perWorkspace /\ Edi!FolderBeside(file) = Null => events[1].says.unresolved
                      /\ \A i \in 2..Len(events) : InItsFolder(events[i], Edi!FolderBeside(file))
    BY DEF FolderOfTheWorkspace, InItsFolder
  <2>1. file.perWorkspace = shape.perWorkspace
    BY DEF StoreKept, PageFormats
  <2>2. ~(Edi!Sidecar(file) \/ ~file.opens)
    BY DEF Sql!TablesOf, Edi!Sidecar, Sql!Sidecar
  <2>3. Edi!StateStart(file)[1].says.unresolved = (file.perWorkspace /\ Edi!FolderBeside(file) = Null)
    BY <2>2 DEF Edi!StateStart, Edi!Ev
  <2> QED
    BY <2>1, <2>3 DEF ReadInFolder
<1> QED
  BY <1>1, AlwaysStoreKept, AlwaysReadInFolder, PTL

(* ------------------------------------------------- what a row inherits -- *)

(* The rows of a table that say that they are of this session.             *)
Bearers(name, id) == {row \in RowsRead(name) : Get(row, "id") = id}

(* What a store carries of its sessions is of this row.                    *)
Bears(v, id, row) ==
    /\ format = "goose" => v.session = id /\ v.cwd = Get(row, "working_dir")
    /\ format = "opencode" => v = Get(row, "directory")
    /\ format = "hermes" => \E s, b : v = [session |-> s, cwd |-> Or(Get(row, "cwd"), Null), branch |-> b]

Heads(x, name, id) == x.table = name /\ ~x.stopped /\ Said(id) /\ Get(x.row, "id") = id

(* What is carried is what the rows of this table say, as far as they were *)
(* taken.                                                                  *)
Holds(h, name, n) ==
    /\ \A id \in DOMAIN h :
          Said(id) /\ \E k \in 1..n : Heads(items[k], name, id) /\ Bears(h[id], id, items[k].row)
    /\ \A k \in 1..n : \A id : Heads(items[k], name, id) => id \in DOMAIN h

(* The headers are those of the rows that were taken so far.               *)
ReadHeaders ==
    at > 0 =>
        /\ format = "goose" =>
              \E s, t : /\ carried = [sessions |-> s, threads |-> t]
                        /\ Holds(s, "sessions", at - 1) /\ Holds(t, "threads", at - 1)
        /\ format = "opencode" => Holds(carried, "session", at - 1)
        /\ format = "hermes" => Holds(carried, "sessions", at - 1)

(* The sessions of the formats whose rows inherit something.               *)
LEMMA HeadersAre ==
    /\ DOMAIN Headers = {"goose", "opencode", "hermes"}
    /\ Headers["goose"] = [messages |-> <<"sessions">>, thread_messages |-> <<"sessions", "threads">>]
    /\ Headers["opencode"] = [session_input |-> <<"session">>, session_message |-> <<"session">>]
    /\ Headers["hermes"] = [messages |-> <<"sessions">>]
    /\ Directory["goose"] = "working_dir" /\ Directory["opencode"] = "directory" /\ Directory["hermes"] = "cwd"
BY DEF Headers, Directory

(* The tables of the sessions are the keys of what a row inherits.         *)
LEMMA SessionTables ==
    /\ format = "goose" => OfSessions("sessions") /\ OfSessions("threads")
    /\ format = "opencode" => OfSessions("session")
    /\ format = "hermes" => OfSessions("sessions")
<1>1. Range(<<"sessions">>) = {"sessions"} /\ Range(<<"session">>) = {"session"}
  BY ShortLists
<1>2. "threads" \in Range(<<"sessions", "threads">>)
  BY DEF Range
<1>3. CASE format = "goose"
  <2>1. /\ format \in DOMAIN Headers /\ "messages" \in DOMAIN Headers[format]
        /\ "thread_messages" \in DOMAIN Headers[format]
        /\ Headers[format]["messages"] = <<"sessions">>
        /\ Headers[format]["thread_messages"] = <<"sessions", "threads">>
    BY <1>3, HeadersAre
  <2> QED
    BY <1>1, <1>2, <1>3, <2>1 DEF OfSessions
<1>4. CASE format = "opencode"
  <2>1. /\ format \in DOMAIN Headers /\ "session_input" \in DOMAIN Headers[format]
        /\ Headers[format]["session_input"] = <<"session">>
    BY <1>4, HeadersAre
  <2> QED
    BY <1>1, <1>4, <2>1 DEF OfSessions
<1>5. CASE format = "hermes"
  <2>1. /\ format \in DOMAIN Headers /\ "messages" \in DOMAIN Headers[format]
        /\ Headers[format]["messages"] = <<"sessions">>
    BY <1>5, HeadersAre
  <2> QED
    BY <1>1, <1>5, <2>1 DEF OfSessions
<1> QED
  BY <1>3, <1>4, <1>5

(* The rows that are read of a table are those that there are to take, and *)
(* of a session's table only one is of this session.                       *)
LEMMA RowsReadAre ==
    ASSUME format \in DOMAIN MappedOf, StoreKept, Items # <<>>, NEW name
    PROVE  /\ \A row \in RowsRead(name) :
                 \E x \in Range(Items) : x.table = name /\ ~x.stopped /\ x.row = row
           /\ \A x \in Range(Items) : x.table = name /\ ~x.stopped => x.row \in RowsRead(name)
           /\ OfSessions(name) =>
                 \A r, q \in RowsRead(name) : Said(Get(r, "id")) /\ Get(r, "id") = Get(q, "id") => r = q
<1>1. format \notin PageFormats
  BY DEF MappedOf, PageFormats
<1>2. Tables(file.tables) /\ KeysOnce(file.tables)
  BY <1>1 DEF StoreKept, Kept
<1>3. Sql!TablesOf(file) = file.tables
  BY <1>1, <1>2, ItemFacts, SeenTables
<1>4. Takes(Items, Range(file.tables))
  BY <1>1, <1>2, <1>3, ItemsTake
<1>5. \A t \in Range(file.tables) : ATable(t)
  BY <1>2 DEF Tables
<1>6. ASSUME NEW t \in Range(file.tables)
      PROVE  {j \in DOMAIN t.rows : j <= t.fails /\ j <= MaxRows} = 1..Reach(t) /\ Reach(t) <= Len(t.rows)
  <2>1. ATable(t)
    BY <1>5, <1>6
  <2>2. DOMAIN t.rows = 1..Len(t.rows)
    BY <2>1, ListFacts DEF ATable
  <2>3. /\ Reach(t) \in Nat /\ Reach(t) <= Len(t.rows) /\ Reach(t) <= t.fails /\ Reach(t) <= MaxRows
        /\ Len(t.rows) \in Nat
        /\ Reach(t) = Len(t.rows) \/ Reach(t) = t.fails \/ Reach(t) = MaxRows
    BY <2>1, Reaching
  <2>4. t.fails \in Nat /\ MaxRows \in Nat
    BY <2>1, Bounds DEF ATable
  <2> QED
    BY <2>2, <2>3, <2>4
<1>7. \A row : row \in RowsRead(name) <=>
               \E t \in Range(file.tables) : t.name = name /\ \E i \in 1..Reach(t) : row = t.rows[i]
  BY <1>6 DEF RowsRead
<1>8. ASSUME NEW row \in RowsRead(name)
      PROVE  \E x \in Range(Items) : x.table = name /\ ~x.stopped /\ x.row = row
  <2>1. PICK t \in Range(file.tables) : t.name = name /\ \E i \in 1..Reach(t) : row = t.rows[i]
    BY <1>7, <1>8
  <2>2. PICK i \in 1..Reach(t) : row = t.rows[i]
    BY <2>1
  <2>3. PICK x \in Range(Items) : x.row = t.rows[i] /\ IsRowOf(x, t)
    BY <1>4, <2>2 DEF Takes
  <2> QED
    BY <2>1, <2>2, <2>3 DEF IsRowOf
<1>9. ASSUME NEW x \in Range(Items), x.table = name, ~x.stopped
      PROVE  x.row \in RowsRead(name)
  <2>1. PICK t \in Range(file.tables) : IsRowOf(x, t) \/ IsStopOf(x, t)
    BY <1>4, <1>9 DEF Takes
  <2>2. IsRowOf(x, t)
    BY <1>9, <2>1 DEF IsStopOf
  <2>3. t.name = name /\ \E i \in 1..Reach(t) : x.row = t.rows[i]
    BY <1>9, <2>2 DEF IsRowOf
  <2> QED
    BY <1>7, <2>3
<1>10. ASSUME OfSessions(name), NEW r \in RowsRead(name), NEW q \in RowsRead(name),
              Said(Get(r, "id")), Get(r, "id") = Get(q, "id")
       PROVE  r = q
  <2>1. PICK t \in Range(file.tables) : t.name = name /\ \E i \in 1..Reach(t) : r = t.rows[i]
    BY <1>7, <1>10
  <2>2. PICK u \in Range(file.tables) : u.name = name /\ \E i \in 1..Reach(u) : q = u.rows[i]
    BY <1>7, <1>10
  <2>3. t = u
    <3>1. IsList(file.tables) /\ Len(file.tables) \in Nat /\ DOMAIN file.tables = 1..Len(file.tables)
      BY <1>2, ListFacts DEF Tables
    <3>2. PICK a \in 1..Len(file.tables) : t = file.tables[a]
      BY <3>1 DEF Range
    <3>3. PICK b \in 1..Len(file.tables) : u = file.tables[b]
      BY <3>1 DEF Range
    <3>4. a < b \/ b < a \/ a = b
      BY <3>1
    <3>5. ~(a < b) /\ ~(b < a)
      BY <1>2, <2>1, <2>2, <3>2, <3>3 DEF Tables
    <3> QED
      BY <3>2, <3>3, <3>4, <3>5
  <2>4. PICK i \in 1..Reach(t) : r = t.rows[i]
    BY <2>1
  <2>5. PICK j \in 1..Reach(t) : q = t.rows[j]
    BY <2>2, <2>3
  <2>6. Reach(t) \in Nat /\ Len(t.rows) \in Nat /\ Reach(t) <= Len(t.rows)
    BY <1>5, Reaching
  <2>7. i \in 1..Len(t.rows) /\ j \in 1..Len(t.rows) /\ (i < j \/ j < i \/ i = j)
    BY <2>6
  <2>8. ~(i < j) /\ ~(j < i)
    BY <1>2, <1>10, <2>1, <2>4, <2>5, <2>7 DEF KeysOnce
  <2> QED
    BY <2>4, <2>5, <2>7, <2>8
<1> QED
  BY <1>8, <1>9, <1>10

(* When a row is taken, all rows of the tables before its own were taken.  *)
LEMMA TakenBefore ==
    ASSUME format \in DOMAIN MappedOf, StoreKept, Opened, at \in 1..Len(items), items = Items, IsList(items),
           NEW a \in 1..Len(MappedOf[format]), NEW b \in 1..Len(MappedOf[format]), b < a,
           Item.table = MappedOf[format][a]
    PROVE  \A k \in 1..Len(items) : items[k].table = MappedOf[format][b] => k \in 1..(at - 1)
<1> SUFFICES ASSUME NEW k \in 1..Len(items), items[k].table = MappedOf[format][b], ~(k \in 1..(at - 1))
             PROVE  FALSE
  OBVIOUS
<1> DEFINE names == MappedOf[format]
<1>1. IsList(names) /\ \A c, d \in 1..Len(names) : c < d => names[c] # names[d]
  BY MappedOnce
<1>2. Ordered(items, names)
  <2>1. format \notin PageFormats
    BY DEF MappedOf, PageFormats
  <2>2. Tables(file.tables)
    BY <2>1 DEF StoreKept, Kept
  <2> QED
    BY <2>1, <2>2, ItemsTake
<1>3. Len(names) \in Nat /\ Len(items) \in Nat
  BY <1>1, ListFacts
<1> HIDE DEF names
<1>4. names[b] # names[a] /\ a \in 1..Len(names) /\ b \in 1..Len(names)
  BY <1>1 DEF names
<1>5. CASE k = at
  BY <1>4, <1>5 DEF names, Item
<1>6. CASE at < k
  <2>1. \E c \in 1..b : items[at].table = names[c]
    BY <1>2, <1>4, <1>6 DEF Ordered, names
  <2>2. PICK c \in 1..b : names[a] = names[c]
    BY <2>1 DEF Item, names
  <2>3. c < a /\ c \in 1..Len(names)
    BY <1>3, <1>4
  <2> QED
    BY <1>1, <1>4, <2>2, <2>3
<1> QED
  BY <1>3, <1>5, <1>6

(* What is carried of a session is what its row says, once all rows of its *)
(* table were taken.                                                       *)
LEMMA CarriedIs ==
    ASSUME format \in DOMAIN MappedOf, StoreKept, items = Items, IsList(items), at \in 1..Len(items),
           NEW h, NEW name, Holds(h, name, at - 1), OfSessions(name),
           \A k \in 1..Len(items) : items[k].table = name => k \in 1..(at - 1),
           NEW id, Said(id)
    PROVE  IF id \in DOMAIN h THEN \E r : Bearers(name, id) = {r} /\ Bears(h[id], id, r)
           ELSE Bearers(name, id) = {}
<1>1. Items # <<>> /\ Len(items) \in Nat
  BY ListFacts, ShortLists
<1>2. \A k \in 1..(at - 1) : k \in 1..Len(items)
  BY <1>1
<1>3. CASE id \in DOMAIN h
  <2>1. PICK k \in 1..(at - 1) : Heads(items[k], name, id) /\ Bears(h[id], id, items[k].row)
    BY <1>3 DEF Holds
  <2> DEFINE r == items[k].row
  <2>2. items[k] \in Range(Items)
    BY <1>2, ListFacts
  <2>3. r \in RowsRead(name) /\ Get(r, "id") = id
    BY <1>1, <2>1, <2>2, RowsReadAre DEF Heads
  <2>4. ASSUME NEW q \in RowsRead(name), Get(q, "id") = id
        PROVE  r = q
    BY <1>1, <2>3, <2>4, RowsReadAre
  <2> HIDE DEF r
  <2>5. Bearers(name, id) = {r}
    BY <2>3, <2>4 DEF Bearers
  <2> QED
    BY <1>3, <2>1, <2>5 DEF r
<1>4. CASE id \notin DOMAIN h
  <2> SUFFICES ASSUME NEW q \in RowsRead(name), Get(q, "id") = id PROVE FALSE
    BY <1>4 DEF Bearers
  <2>1. PICK x \in Range(Items) : x.table = name /\ ~x.stopped /\ x.row = q
    BY <1>1, RowsReadAre
  <2>2. PICK k \in 1..Len(items) : x = items[k]
    BY <2>1, ListFacts DEF Range
  <2>3. k \in 1..(at - 1) /\ Heads(items[k], name, id)
    BY <2>1, <2>2 DEF Heads
  <2> QED
    BY <1>4, <2>3 DEF Holds
<1> QED
  BY <1>3, <1>4

(* The directory of a session is what the first table tells that has a row *)
(* of it.                                                                  *)
LEMMA HomeIs ==
    ASSUME NEW id, NEW tables, DOMAIN tables \subseteq Nat
    PROVE  /\ ~Said(id) => HomeOf(id, tables) = Null
           /\ (\A n \in DOMAIN tables : Bearers(tables[n], id) = {}) => HomeOf(id, tables) = Null
           /\ \A m \in DOMAIN tables : \A r :
                 Said(id) /\ Bearers(tables[m], id) = {r}
                 /\ (\A n \in DOMAIN tables : n < m => Bearers(tables[n], id) = {})
                 => HomeOf(id, tables) = Or(Get(r, Directory[format]), Null)
<1> DEFINE having == {n \in DOMAIN tables : Bearers(tables[n], id) # {}}
           first == CHOOSE n \in having : \A m \in having : n <= m
           row == CHOOSE q \in Bearers(tables[first], id) : TRUE
<1>1. HomeOf(id, tables) = IF ~Said(id) \/ having = {} THEN Null ELSE Or(Get(row, Directory[format]), Null)
  BY DEF HomeOf, Bearers
<1>2. ASSUME NEW m \in DOMAIN tables, NEW r, Said(id), Bearers(tables[m], id) = {r},
             \A n \in DOMAIN tables : n < m => Bearers(tables[n], id) = {}
      PROVE  HomeOf(id, tables) = Or(Get(r, Directory[format]), Null)
  <2>1. m \in having
    BY <1>2
  <2>2. \A n \in having : m <= n
    BY <1>2
  <2>3. first \in having /\ \A n \in having : first <= n
    BY <2>1, <2>2
  <2>4. first = m
    BY <2>1, <2>2, <2>3
  <2> HIDE DEF first
  <2>5. row \in {r}
    BY <1>2, <2>4
  <2> HIDE DEF row
  <2>6. row = r
    BY <2>5
  <2>7. having # {}
    BY <2>1
  <2> HIDE DEF having
  <2> QED
    BY <1>1, <1>2, <2>6, <2>7
<1>3. (\A n \in DOMAIN tables : Bearers(tables[n], id) = {}) => having = {}
  OBVIOUS
<1> HIDE DEF having, row, first
<1> QED
  BY <1>1, <1>2, <1>3

(* A step that takes a row of a session holds it, and one that takes       *)
(* another row holds what was held.                                        *)
LEMMA HoldsMore ==
    ASSUME at \in Nat \ {0}, NEW h, NEW name, Holds(h, name, at - 1)
    PROVE  /\ (\A id : ~Heads(Item, name, id)) => Holds(h, name, at)
           /\ \A id, v : Heads(Item, name, id) /\ Bears(v, id, Item.row) => Holds(With(h, id, v), name, at)
<1>1. \A k \in 1..at : k \in 1..(at - 1) \/ k = at
  OBVIOUS
<1>2. \A k \in 1..(at - 1) : k \in 1..at
  OBVIOUS
<1>3. at \in 1..at
  OBVIOUS
<1>4. ASSUME \A id : ~Heads(Item, name, id)
      PROVE  Holds(h, name, at)
  BY <1>1, <1>2, <1>4 DEF Holds, Item
<1>5. ASSUME NEW id, NEW v, Heads(Item, name, id), Bears(v, id, Item.row)
      PROVE  Holds(With(h, id, v), name, at)
  <2> DEFINE g == With(h, id, v)
  <2>1. DOMAIN g = DOMAIN h \cup {id} /\ \A j \in DOMAIN g : g[j] = IF j = id THEN v ELSE h[j]
    BY DEF With
  <2> HIDE DEF g
  <2>2. ASSUME NEW j \in DOMAIN g
        PROVE  Said(j) /\ \E k \in 1..at : Heads(items[k], name, j) /\ Bears(g[j], j, items[k].row)
    <3>1. CASE j = id
      <4>1. Said(j) /\ Heads(items[at], name, j) /\ g[j] = v
        BY <1>5, <2>1, <2>2, <3>1 DEF Heads, Item
      <4>2. Bears(g[j], j, items[at].row)
        BY <1>5, <3>1, <4>1 DEF Item
      <4> QED
        BY <1>3, <4>1, <4>2
    <3>2. CASE j # id
      <4>1. j \in DOMAIN h /\ g[j] = h[j]
        BY <2>1, <2>2, <3>2
      <4>2. Said(j) /\ \E k \in 1..(at - 1) : Heads(items[k], name, j) /\ Bears(h[j], j, items[k].row)
        BY <4>1 DEF Holds
      <4> QED
        BY <1>2, <4>1, <4>2
    <3> QED
      BY <3>1, <3>2
  <2>3. ASSUME NEW k \in 1..at, NEW j, Heads(items[k], name, j)
        PROVE  j \in DOMAIN g
    <3>1. CASE k \in 1..(at - 1)
      BY <2>1, <2>3, <3>1 DEF Holds
    <3>2. CASE k = at
      <4>1. j = id
        BY <1>5, <2>3, <3>2 DEF Heads, Item
      <4> QED
        BY <2>1, <4>1
    <3> QED
      BY <1>1, <2>3, <3>1, <3>2
  <2> QED
    BY <2>2, <2>3 DEF Holds, g
<1> QED
  BY <1>4, <1>5

(* What was held stays held when what there is to take stays.              *)
LEMMA HoldsStay ==
    ASSUME items' = items, format' = format, file' = file
    PROVE  /\ \A h, name, n : Holds(h, name, n) => Holds(h, name, n)'
           /\ \A id, tables : HomeOf(id, tables)' = HomeOf(id, tables)
<1>1. \A h, name, n : Holds(h, name, n) => Holds(h, name, n)'
  BY DEF Holds, Heads, Bears
<1>2. \A id, tables : HomeOf(id, tables)' = HomeOf(id, tables)
  BY DEF HomeOf, RowsRead
<1> QED
  BY <1>1, <1>2

(* What is carried of a session is what the tables tell of it.             *)
KnownIn(h, id, tables) ==
    IF id \in DOMAIN h
    THEN /\ Said(id)
         /\ \E m \in DOMAIN tables : \E r :
               /\ Bearers(tables[m], id) = {r} /\ Bears(h[id], id, r)
               /\ \A n \in DOMAIN tables : n < m => Bearers(tables[n], id) = {}
    ELSE Said(id) => \A n \in DOMAIN tables : Bearers(tables[n], id) = {}

(* So its directory is that of the row that it was carried from.           *)
LEMMA KnownHome ==
    ASSUME NEW h, NEW id, NEW tables, DOMAIN tables \subseteq Nat, KnownIn(h, id, tables)
    PROVE  IF id \in DOMAIN h
           THEN Said(id) /\ \E r : Bears(h[id], id, r) /\ HomeOf(id, tables) = Or(Get(r, Directory[format]), Null)
           ELSE HomeOf(Or(id, Null), tables) = Null
<1>1. CASE id \in DOMAIN h
  <2>a. PICK m \in DOMAIN tables : \E r :
              /\ Bearers(tables[m], id) = {r} /\ Bears(h[id], id, r)
              /\ \A n \in DOMAIN tables : n < m => Bearers(tables[n], id) = {}
    BY <1>1 DEF KnownIn
  <2>1. PICK r : /\ Bearers(tables[m], id) = {r} /\ Bears(h[id], id, r)
                 /\ \A n \in DOMAIN tables : n < m => Bearers(tables[n], id) = {}
    BY <2>a
  <2>2. Said(id)
    BY <1>1 DEF KnownIn
  <2>3. HomeOf(id, tables) = Or(Get(r, Directory[format]), Null)
    BY <2>1, <2>2, HomeIs
  <2> QED
    BY <1>1, <2>1, <2>2, <2>3
<1>2. CASE id \notin DOMAIN h
  <2>1. CASE Said(id)
    <3>1. Or(id, Null) = id
      BY <2>1 DEF Or
    <3>2. \A n \in DOMAIN tables : Bearers(tables[n], id) = {}
      BY <1>2, <2>1 DEF KnownIn
    <3> QED
      BY <1>2, <3>1, <3>2, HomeIs
  <2>2. CASE ~Said(id)
    <3>1. Or(id, Null) = Null
      BY <2>2 DEF Or
    <3>2. ~Said(Null)
      BY DEF Said
    <3> QED
      BY <1>2, <3>1, <3>2, HomeIs
  <2> QED
    BY <2>1, <2>2
<1> QED
  BY <1>1, <1>2

(* What is carried of the rows of one table is what it tells.              *)
LEMMA KnownOne ==
    ASSUME format \in DOMAIN MappedOf, StoreKept, items = Items, IsList(items), at \in 1..Len(items),
           NEW h, NEW name, Holds(h, name, at - 1), OfSessions(name),
           \A k \in 1..Len(items) : items[k].table = name => k \in 1..(at - 1),
           NEW id
    PROVE  KnownIn(h, id, <<name>>)
<1>1. \A i \in DOMAIN <<name>> : i = 1
  OBVIOUS
<1>2. 1 \in DOMAIN <<name>> /\ <<name>>[1] = name
  OBVIOUS
<1>3. CASE id \in DOMAIN h
  <2>1. Said(id)
    BY <1>3 DEF Holds
  <2>2. PICK r : Bearers(name, id) = {r} /\ Bears(h[id], id, r)
    BY <1>3, <2>1, CarriedIs
  <2>3. \A n \in DOMAIN <<name>> : n < 1 => Bearers(<<name>>[n], id) = {}
    BY <1>1
  <2> QED
    BY <1>2, <1>3, <2>1, <2>2, <2>3 DEF KnownIn
<1>4. CASE id \notin DOMAIN h
  <2>1. Said(id) => Bearers(name, id) = {}
    BY <1>4, CarriedIs
  <2>2. Said(id) => \A n \in DOMAIN <<name>> : Bearers(<<name>>[n], id) = {}
    BY <1>1, <1>2, <2>1
  <2> QED
    BY <1>4, <2>2 DEF KnownIn
<1> QED
  BY <1>3, <1>4

(* The sessions go before the threads (goose.py, _database).               *)
LEMMA KnownTwo ==
    ASSUME format = "goose", StoreKept, items = Items, IsList(items), at \in 1..Len(items),
           NEW s, NEW t, Holds(s, "sessions", at - 1), Holds(t, "threads", at - 1),
           \A k \in 1..Len(items) : items[k].table \in {"sessions", "threads"} => k \in 1..(at - 1),
           NEW id
    PROVE  KnownIn(Goo!SessionsFirst([sessions |-> s, threads |-> t]), id, <<"sessions", "threads">>)
<1> DEFINE h == Goo!SessionsFirst([sessions |-> s, threads |-> t])
           tables == <<"sessions", "threads">>
<1>1. DOMAIN h = DOMAIN s \cup DOMAIN t /\ \A j \in DOMAIN h : h[j] = IF j \in DOMAIN s THEN s[j] ELSE t[j]
  BY DEF Goo!SessionsFirst
<1>2. format \in DOMAIN MappedOf
  BY DEF MappedOf
<1>3. tables[1] = "sessions" /\ tables[2] = "threads" /\ DOMAIN tables = 1..2
  OBVIOUS
<1>4. OfSessions("sessions") /\ OfSessions("threads")
  BY SessionTables
<1> HIDE DEF h, tables
<1>5. Said(id) => IF id \in DOMAIN s THEN \E r : Bearers("sessions", id) = {r} /\ Bears(s[id], id, r)
                  ELSE Bearers("sessions", id) = {}
  BY <1>2, <1>4, CarriedIs
<1>6. Said(id) => IF id \in DOMAIN t THEN \E r : Bearers("threads", id) = {r} /\ Bears(t[id], id, r)
                  ELSE Bearers("threads", id) = {}
  BY <1>2, <1>4, CarriedIs
<1>7. id \in DOMAIN s \cup DOMAIN t => Said(id)
  BY DEF Holds
<1>8. CASE id \in DOMAIN s
  <2>1. PICK r : Bearers("sessions", id) = {r} /\ Bears(s[id], id, r)
    BY <1>5, <1>7, <1>8
  <2>2. id \in DOMAIN h /\ h[id] = s[id] /\ Said(id)
    BY <1>1, <1>7, <1>8
  <2>3. 1 \in DOMAIN tables /\ \A n \in DOMAIN tables : ~(n < 1)
    BY <1>3
  <2> QED
    BY <1>3, <2>1, <2>2, <2>3 DEF KnownIn, h, tables
<1>9. CASE id \notin DOMAIN s /\ id \in DOMAIN t
  <2>1. PICK r : Bearers("threads", id) = {r} /\ Bears(t[id], id, r)
    BY <1>6, <1>7, <1>9
  <2>2. id \in DOMAIN h /\ h[id] = t[id] /\ Said(id)
    BY <1>1, <1>7, <1>9
  <2>3. 2 \in DOMAIN tables /\ \A n \in DOMAIN tables : n < 2 => Bearers(tables[n], id) = {}
    <3>1. Bearers("sessions", id) = {}
      BY <1>5, <1>7, <1>9
    <3>2. \A n \in DOMAIN tables : n < 2 => n = 1
      BY <1>3
    <3> QED
      BY <1>3, <3>1, <3>2
  <2> QED
    BY <1>3, <2>1, <2>2, <2>3 DEF KnownIn, h, tables
<1>10. CASE id \notin DOMAIN s /\ id \notin DOMAIN t
  <2>1. id \notin DOMAIN h
    BY <1>1, <1>10
  <2>2. Said(id) => Bearers(tables[1], id) = {} /\ Bearers(tables[2], id) = {}
    BY <1>3, <1>5, <1>6, <1>10
  <2>3. \A n \in DOMAIN tables : n = 1 \/ n = 2
    BY <1>3
  <2>4. Said(id) => \A n \in DOMAIN tables : Bearers(tables[n], id) = {}
    BY <2>2, <2>3
  <2> QED
    BY <2>1, <2>4 DEF KnownIn, h, tables
<1> QED
  BY <1>8, <1>9, <1>10

(* "x or None", twice.                                                     *)
LEMMA OrTwice == \A x : Or(Or(x, Null), Null) = Or(x, Null)
BY DEF Or

(* What a message of each of the stores is stamped with is the directory   *)
(* that the tables tell of the session that it names.                      *)
LEMMA GooHome ==
    ASSUME format = "goose", NEW h, NEW id, NEW tables, DOMAIN tables \subseteq Nat, KnownIn(h, id, tables)
    PROVE  LET header == IF id \in DOMAIN h THEN h[id] ELSE Goo!Conversation(id, Null, {})
               stamp == Goo!Stamp(header)
           IN  Or(stamp.cwd, Null) = HomeOf(stamp.session, tables)
<1> DEFINE header == IF id \in DOMAIN h THEN h[id] ELSE Goo!Conversation(id, Null, {})
           stamp == Goo!Stamp(header)
<1>1. stamp.session = Or(header.session, Null) /\ stamp.cwd = Or(header.cwd, Null)
  BY GooReads DEF Goo!Stamp
<1>2. CASE id \in DOMAIN h
  <2>1. Said(id)
    BY <1>2 DEF KnownIn
  <2>2. PICK r : Bears(h[id], id, r) /\ HomeOf(id, tables) = Or(Get(r, Directory[format]), Null)
    BY <1>2, KnownHome
  <2>3. header.session = id /\ header.cwd = Get(r, "working_dir")
    BY <1>2, <2>2 DEF Bears
  <2>4. stamp.session = id
    BY <1>1, <2>1, <2>3 DEF Or
  <2>5. Directory[format] = "working_dir"
    BY HeadersAre
  <2> HIDE DEF header, stamp
  <2> QED
    BY <1>1, <2>2, <2>3, <2>4, <2>5, OrTwice DEF header, stamp
<1>3. CASE id \notin DOMAIN h
  <2>1. header.session = id /\ header.cwd = Null
    BY <1>3 DEF Goo!Conversation
  <2>2. HomeOf(Or(id, Null), tables) = Null
    BY <1>3, KnownHome
  <2>3. Or(Or(Null, Null), Null) = Null
    BY DEF Or
  <2> HIDE DEF header, stamp
  <2> QED
    BY <1>1, <2>1, <2>2, <2>3 DEF header, stamp
<1> QED
  BY <1>2, <1>3

(* The same of opencode.                                                   *)
LEMMA OpeHome ==
    ASSUME format = "opencode", NEW h, NEW id, NEW tables, DOMAIN tables \subseteq Nat, KnownIn(h, id, tables)
    PROVE  LET stamp == Ope!Stamp(id, h)
           IN  Or(stamp.cwd, Null) = HomeOf(stamp.session, tables)
<1> DEFINE stamp == Ope!Stamp(id, h)
<1>1. stamp.session = Or(id, Null) /\ stamp.cwd = IF id \in DOMAIN h THEN h[id] ELSE Null
  BY OpeReads DEF Ope!Stamp
<1> HIDE DEF stamp
<1>2. CASE id \in DOMAIN h
  <2>1. Said(id)
    BY <1>2 DEF KnownIn
  <2>2. PICK r : Bears(h[id], id, r) /\ HomeOf(id, tables) = Or(Get(r, Directory[format]), Null)
    BY <1>2, KnownHome
  <2>3. stamp.cwd = Get(r, "directory")
    BY <1>1, <1>2, <2>2 DEF Bears
  <2>4. stamp.session = id
    BY <1>1, <2>1 DEF Or
  <2>5. Directory[format] = "directory"
    BY HeadersAre
  <2> QED
    BY <2>2, <2>3, <2>4, <2>5 DEF stamp
<1>3. CASE id \notin DOMAIN h
  <2>1. HomeOf(Or(id, Null), tables) = Null
    BY <1>3, KnownHome
  <2>2. Or(Null, Null) = Null
    BY DEF Or
  <2> QED
    BY <1>1, <1>3, <2>1, <2>2 DEF stamp
<1> QED
  BY <1>2, <1>3

(* The same of Hermes.                                                     *)
LEMMA HerHome ==
    ASSUME format = "hermes", NEW h, NEW id, NEW tables, DOMAIN tables \subseteq Nat, KnownIn(h, id, tables)
    PROVE  LET stamp == Her!Stamp(id, h)
           IN  Or(stamp.cwd, Null) = HomeOf(stamp.session, tables)
<1> DEFINE stamp == Her!Stamp(id, h)
           base == IF id \in DOMAIN h THEN h[id] ELSE Her!NoStamp
<1>1. stamp = [base EXCEPT !.session = Or(id, Null)]
  BY HerReads DEF Her!Stamp
<1>2. ASSUME NEW s, NEW c, NEW b, base = [session |-> s, cwd |-> c, branch |-> b]
      PROVE  stamp.session = Or(id, Null) /\ stamp.cwd = c
  <2> HIDE DEF stamp, base
  <2> QED
    BY <1>1, <1>2
<1>3. CASE id \in DOMAIN h
  <2>1. Said(id)
    BY <1>3 DEF KnownIn
  <2>2. PICK r : Bears(h[id], id, r) /\ HomeOf(id, tables) = Or(Get(r, Directory[format]), Null)
    BY <1>3, KnownHome
  <2>3. PICK s, b : h[id] = [session |-> s, cwd |-> Or(Get(r, "cwd"), Null), branch |-> b]
    BY <2>2 DEF Bears
  <2>4. stamp.session = Or(id, Null) /\ stamp.cwd = Or(Get(r, "cwd"), Null)
    BY <1>2, <1>3, <2>3
  <2> HIDE DEF stamp
  <2>5. stamp.session = id
    BY <2>1, <2>4 DEF Or
  <2>6. Directory[format] = "cwd"
    BY HeadersAre
  <2> QED
    BY <2>2, <2>4, <2>5, <2>6, OrTwice DEF stamp
<1>4. CASE id \notin DOMAIN h
  <2>1. HomeOf(Or(id, Null), tables) = Null
    BY <1>4, KnownHome
  <2>2. Or(Null, Null) = Null
    BY DEF Or
  <2>3. stamp.session = Or(id, Null) /\ stamp.cwd = Null
    BY <1>2, <1>4 DEF Her!NoStamp
  <2> HIDE DEF stamp
  <2> QED
    BY <2>1, <2>2, <2>3 DEF stamp
<1> QED
  BY <1>3, <1>4

(* An event of this table has the directory of the session that it names.  *)
InHome(e, table) ==
    table \in DOMAIN Headers[format] /\ e.kind # "unparsed.record" =>
        Or(e.stamp.cwd, Null) = HomeOf(e.stamp.session, Headers[format][table])

(* Every event that inherits has inherited.                                *)
ReadInHome == format \in DOMAIN Headers /\ at > 0 => \A e \in Range(events) : InHome(e, e.loc[1][1])

(* What tells with this stamp has the directory if the stamp has.          *)
LEMMA TellsInHome ==
    ASSUME NEW evs, NEW n, NEW parts, NEW stamp, Tells(evs, n, parts, stamp), NEW table,
           Or(stamp.cwd, Null) = HomeOf(stamp.session, Headers[format][table])
    PROVE  \A e \in Range(evs) : InHome(e, table)
BY DEF Tells, InHome

(* A row that its store could not read on from, and a row that nobody      *)
(* maps, inherits nothing.                                                 *)
LEMMA CommonInHome ==
    ASSUME NEW x, NEW table
    PROVE  \A e \in Range(Sql!Stopped(x)) \cup Range(Sql!RowAsEvent(x)) : InHome(e, table)
BY CommonAnswers DEF InHome

(* What a step finds, of a format whose rows inherit something.            *)
Finds ==
    /\ StoreKept /\ Opened /\ ReadHeaders /\ IsList(items) /\ items = Items /\ at \in 1..Len(items)
    /\ at \in Nat \ {0} /\ AnItem(Item)

(* Goose's reader carries the sessions and the threads, and stamps the     *)
(* messages of both.                                                       *)
LEMMA GooCarries ==
    ASSUME format = "goose", Finds
    PROVE  LET next == Goo!Take(Item, carried).carried
           IN  \E s, t : next = [sessions |-> s, threads |-> t] /\ Holds(s, "sessions", at) /\ Holds(t, "threads", at)
<1> DEFINE next == Goo!Take(Item, carried).carried
           row == Item.row
           id == Get(row, "id")
           dir == Get(row, "working_dir")
<1>1. PICK s, t : /\ carried = [sessions |-> s, threads |-> t]
                  /\ Holds(s, "sessions", at - 1) /\ Holds(t, "threads", at - 1)
  BY DEF Finds, ReadHeaders
<1>2. at \in Nat \ {0}
  BY DEF Finds
<1>3. ASSUME \A j : ~Heads(Item, "sessions", j)
      PROVE  Holds(s, "sessions", at)
  BY <1>1, <1>2, <1>3, HoldsMore
<1>4. ASSUME \A j : ~Heads(Item, "threads", j)
      PROVE  Holds(t, "threads", at)
  BY <1>1, <1>2, <1>4, HoldsMore
<1>5. \A r : Goo!Get(r, "id") = Get(r, "id") /\ Goo!Get(r, "working_dir") = Get(r, "working_dir")
  BY GooReads
<1>6. \A h, j, v : Goo!Named(h, j, v) = IF Said(j) THEN With(h, j, v) ELSE h
  BY GooReads DEF Goo!Named, Goo!With, With
<1>7. CASE Item.stopped \/ Item.table \notin {"sessions", "threads"}
  <2>1. next = carried
    BY <1>7 DEF Goo!Take
  <2>2. \A j : ~Heads(Item, "sessions", j) /\ ~Heads(Item, "threads", j)
    BY <1>7 DEF Heads
  <2> QED
    BY <1>1, <1>3, <1>4, <2>1, <2>2
<1>8. CASE ~Item.stopped /\ Item.table = "sessions"
  <2> DEFINE header == Goo!Conversation(Goo!Get(row, "id"), Goo!Get(row, "working_dir"),
                           IF Goo!Given(Goo!Get(row, "servers")) THEN row.servers ELSE {})
             to == Goo!Named(s, header.session, header)
  <2>1. next = [carried EXCEPT !.sessions = Goo!Named(carried.sessions, header.session, header)]
    BY <1>8 DEF Goo!Take, Goo!SessionRow
  <2>2. header.session = id /\ header.cwd = dir
    BY <1>5 DEF Goo!Conversation
  <2> HIDE DEF header, next
  <2>3. carried.sessions = s
    BY <1>1
  <2>4. next = [sessions |-> to, threads |-> t]
    <3>1. next = [carried EXCEPT !.sessions = to]
      BY <2>1, <2>3
    <3> HIDE DEF to
    <3> QED
      BY <1>1, <3>1
  <2>5. to = IF Said(id) THEN With(s, id, header) ELSE s
    BY <1>6, <2>2
  <2> HIDE DEF to
  <2>6. Holds(to, "sessions", at)
    <3>1. CASE Said(id)
      <4>1. Heads(Item, "sessions", id) /\ Bears(header, id, Item.row)
        BY <1>8, <2>2, <3>1 DEF Heads, Bears
      <4>2. Holds(With(s, id, header), "sessions", at)
        BY <1>1, <1>2, <4>1, HoldsMore
      <4> QED
        BY <2>5, <3>1, <4>2
    <3>2. CASE ~Said(id)
      <4>1. \A j : ~Heads(Item, "sessions", j)
        BY <3>2 DEF Heads
      <4> QED
        BY <1>3, <2>5, <3>2, <4>1
    <3> QED
      BY <3>1, <3>2
  <2>7. Holds(t, "threads", at)
    <3>1. \A j : ~Heads(Item, "threads", j)
      BY <1>8 DEF Heads
    <3> QED
      BY <1>4, <3>1
  <2> QED
    BY <2>4, <2>6, <2>7 DEF next
<1>9. CASE ~Item.stopped /\ Item.table = "threads"
  <2> DEFINE header == Goo!Conversation(Goo!Get(row, "id"), Goo!Get(row, "working_dir"), {})
             to == Goo!Named(t, header.session, header)
  <2>1. next = [carried EXCEPT !.threads = Goo!Named(carried.threads, header.session, header)]
    BY <1>9 DEF Goo!Take, Goo!ThreadRow
  <2>2. header.session = id /\ header.cwd = dir
    BY <1>5 DEF Goo!Conversation
  <2> HIDE DEF header, next
  <2>3. carried.threads = t
    BY <1>1
  <2>4. next = [sessions |-> s, threads |-> to]
    <3>1. next = [carried EXCEPT !.threads = to]
      BY <2>1, <2>3
    <3> HIDE DEF to
    <3> QED
      BY <1>1, <3>1
  <2>5. to = IF Said(id) THEN With(t, id, header) ELSE t
    BY <1>6, <2>2
  <2> HIDE DEF to
  <2>6. Holds(to, "threads", at)
    <3>1. CASE Said(id)
      <4>1. Heads(Item, "threads", id) /\ Bears(header, id, Item.row)
        BY <1>9, <2>2, <3>1 DEF Heads, Bears
      <4>2. Holds(With(t, id, header), "threads", at)
        BY <1>1, <1>2, <4>1, HoldsMore
      <4> QED
        BY <2>5, <3>1, <4>2
    <3>2. CASE ~Said(id)
      <4>1. \A j : ~Heads(Item, "threads", j)
        BY <3>2 DEF Heads
      <4> QED
        BY <1>4, <2>5, <3>2, <4>1
    <3> QED
      BY <3>1, <3>2
  <2>7. Holds(s, "sessions", at)
    <3>1. \A j : ~Heads(Item, "sessions", j)
      BY <1>9 DEF Heads
    <3> QED
      BY <1>3, <3>1
  <2> QED
    BY <2>4, <2>6, <2>7 DEF next
<1> QED
  BY <1>7, <1>8, <1>9

(* The tables of the sessions come before those of the messages.           *)
LEMMA AllBefore ==
    ASSUME Finds
    PROVE  /\ format = "goose" /\ Item.table \in {"messages", "thread_messages"} =>
                \A k \in 1..Len(items) : items[k].table \in {"sessions", "threads"} => k \in 1..(at - 1)
           /\ format = "opencode" /\ Item.table \in {"session_input", "session_message"} =>
                \A k \in 1..Len(items) : items[k].table = "session" => k \in 1..(at - 1)
           /\ format = "hermes" /\ Item.table = "messages" =>
                \A k \in 1..Len(items) : items[k].table = "sessions" => k \in 1..(at - 1)
<1> DEFINE names == MappedOf[format]
<1>1. ASSUME format \in DOMAIN MappedOf, NEW a \in 1..Len(names), NEW b \in 1..Len(names), b < a, Item.table = names[a]
      PROVE  \A k \in 1..Len(items) : items[k].table = names[b] => k \in 1..(at - 1)
  BY <1>1, TakenBefore DEF Finds
<1>2. CASE format = "goose"
  <2>1. format \in DOMAIN MappedOf /\ names = <<"sessions", "threads", "messages", "thread_messages">>
    BY <1>2 DEF MappedOf, Goo!Mapped
  <2>2. Len(names) = 4 /\ names[1] = "sessions" /\ names[2] = "threads" /\ names[3] = "messages"
        /\ names[4] = "thread_messages"
    BY <2>1
  <2> HIDE DEF names
  <2>3. 1 \in 1..4 /\ 2 \in 1..4 /\ 3 \in 1..4 /\ 4 \in 1..4 /\ 1 < 3 /\ 2 < 3 /\ 1 < 4 /\ 2 < 4
    OBVIOUS
  <2>4. CASE Item.table = "messages"
    <3>1. \A k \in 1..Len(items) : items[k].table = "sessions" => k \in 1..(at - 1)
      BY <1>1, <2>1, <2>2, <2>3, <2>4
    <3>2. \A k \in 1..Len(items) : items[k].table = "threads" => k \in 1..(at - 1)
      BY <1>1, <2>1, <2>2, <2>3, <2>4
    <3> QED
      BY <1>2, <3>1, <3>2
  <2>5. CASE Item.table = "thread_messages"
    <3>1. \A k \in 1..Len(items) : items[k].table = "sessions" => k \in 1..(at - 1)
      BY <1>1, <2>1, <2>2, <2>3, <2>5
    <3>2. \A k \in 1..Len(items) : items[k].table = "threads" => k \in 1..(at - 1)
      BY <1>1, <2>1, <2>2, <2>3, <2>5
    <3> QED
      BY <1>2, <3>1, <3>2
  <2> QED
    BY <1>2, <2>4, <2>5
<1>3. CASE format = "opencode"
  <2>1. format \in DOMAIN MappedOf /\ names = <<"session", "session_input", "session_message">>
    BY <1>3 DEF MappedOf, Ope!Mapped
  <2>2. Len(names) = 3 /\ names[1] = "session" /\ names[2] = "session_input" /\ names[3] = "session_message"
    BY <2>1
  <2> HIDE DEF names
  <2>3. 1 \in 1..3 /\ 2 \in 1..3 /\ 3 \in 1..3 /\ 1 < 3 /\ 1 < 2
    OBVIOUS
  <2> QED
    BY <1>1, <1>3, <2>1, <2>2, <2>3
<1>4. CASE format = "hermes"
  <2>1. format \in DOMAIN MappedOf /\ names = <<"sessions", "messages">>
    BY <1>4 DEF MappedOf, Her!Mapped
  <2>2. Len(names) = 2 /\ names[1] = "sessions" /\ names[2] = "messages"
    BY <2>1
  <2> HIDE DEF names
  <2>3. 1 \in 1..2 /\ 2 \in 1..2 /\ 1 < 2
    OBVIOUS
  <2> QED
    BY <1>1, <1>4, <2>1, <2>2, <2>3
<1> QED
  BY <1>2, <1>3, <1>4

(* The readers of opencode and Hermes carry the sessions.                  *)
LEMMA OpeCarries ==
    ASSUME format = "opencode", Finds
    PROVE  Holds(Ope!Take(Item, carried).carried, "session", at)
<1> DEFINE next == Ope!Take(Item, carried).carried
           id == Get(Item.row, "id")
           dir == Get(Item.row, "directory")
<1>1. Holds(carried, "session", at - 1) /\ at \in Nat \ {0}
  BY DEF Finds, ReadHeaders
<1>2. ASSUME \A j : ~Heads(Item, "session", j)
      PROVE  Holds(carried, "session", at)
  BY <1>1, <1>2, HoldsMore
<1>3. CASE Item.stopped \/ Item.table # "session"
  <2>1. next = carried
    BY <1>3 DEF Ope!Take
  <2>2. \A j : ~Heads(Item, "session", j)
    BY <1>3 DEF Heads
  <2> QED
    BY <1>2, <2>1, <2>2
<1>4. CASE ~Item.stopped /\ Item.table = "session"
  <2>1. next = IF Said(id) THEN With(carried, id, dir) ELSE carried
    BY <1>4, OpeReads DEF Ope!Take, Ope!Session, Ope!With, With
  <2> HIDE DEF next
  <2>2. CASE Said(id)
    <3>1. Heads(Item, "session", id) /\ Bears(dir, id, Item.row)
      BY <1>4, <2>2 DEF Heads, Bears
    <3>2. Holds(With(carried, id, dir), "session", at)
      BY <1>1, <3>1, HoldsMore
    <3> QED
      BY <2>1, <2>2, <3>2 DEF next
  <2>3. CASE ~Said(id)
    <3>1. \A j : ~Heads(Item, "session", j)
      BY <2>3 DEF Heads
    <3> QED
      BY <1>2, <2>1, <2>3, <3>1 DEF next
  <2> QED
    BY <2>2, <2>3
<1> QED
  BY <1>3, <1>4

(* The same of Hermes.                                                     *)
LEMMA HerCarries ==
    ASSUME format = "hermes", Finds
    PROVE  Holds(Her!Take(Item, carried).carried, "sessions", at)
<1> DEFINE next == Her!Take(Item, carried).carried
           id == Get(Item.row, "id")
           header == [session |-> Or(id, Null), cwd |-> Or(Get(Item.row, "cwd"), Null),
                      branch |-> Or(Get(Item.row, "git_branch"), Null)]
<1>1. Holds(carried, "sessions", at - 1) /\ at \in Nat \ {0}
  BY DEF Finds, ReadHeaders
<1>2. ASSUME \A j : ~Heads(Item, "sessions", j)
      PROVE  Holds(carried, "sessions", at)
  BY <1>1, <1>2, HoldsMore
<1>3. CASE Item.stopped \/ Item.table # "sessions"
  <2>1. next = carried
    BY <1>3 DEF Her!Take
  <2>2. \A j : ~Heads(Item, "sessions", j)
    BY <1>3 DEF Heads
  <2> QED
    BY <1>2, <2>1, <2>2
<1>4. CASE ~Item.stopped /\ Item.table = "sessions"
  <2>1. next = IF Said(id) THEN With(carried, id, header) ELSE carried
    BY <1>4, HerReads DEF Her!Take, Her!Session, Her!With, With
  <2>2. Bears(header, id, Item.row)
    BY <1>4 DEF Bears
  <2> HIDE DEF next, header
  <2>3. CASE Said(id)
    <3>1. Heads(Item, "sessions", id)
      BY <1>4, <2>3 DEF Heads
    <3>2. Holds(With(carried, id, header), "sessions", at)
      BY <1>1, <2>2, <3>1, HoldsMore
    <3> QED
      BY <2>1, <2>3, <3>2 DEF next
  <2>4. CASE ~Said(id)
    <3>1. \A j : ~Heads(Item, "sessions", j)
      BY <2>4 DEF Heads
    <3> QED
      BY <1>2, <2>1, <2>4, <3>1 DEF next
  <2> QED
    BY <2>3, <2>4
<1> QED
  BY <1>3, <1>4

(* The places of one table and of two.                                     *)
LEMMA OneOrTwo ==
    /\ \A a : DOMAIN <<a>> \subseteq Nat
    /\ \A a, b : DOMAIN <<a, b>> \subseteq Nat
OBVIOUS

(* What Goose's reader answers a row of a message with is stamped with the *)
(* directory of its session, or else of its thread.                        *)
LEMMA GooInHome ==
    ASSUME format = "goose", Finds
    PROVE  \A e \in Range(Goo!Take(Item, carried).events) : InHome(e, Item.table)
<1> DEFINE evs == Goo!Take(Item, carried).events
           table == Item.table
<1>1. PICK s, t : /\ carried = [sessions |-> s, threads |-> t]
                  /\ Holds(s, "sessions", at - 1) /\ Holds(t, "threads", at - 1)
  BY DEF Finds, ReadHeaders
<1>2. /\ format \in DOMAIN MappedOf /\ StoreKept /\ items = Items /\ IsList(items) /\ at \in 1..Len(items)
      /\ AnItem(Item)
  BY DEF Finds, MappedOf
<1>3. OfSessions("sessions") /\ OfSessions("threads")
  BY SessionTables
<1>4. CASE Item.stopped
  <2>1. evs = Sql!Stopped(Item)
    BY <1>4, GooShares DEF Goo!Take
  <2> QED
    BY <2>1, CommonInHome
<1>5. CASE ~Item.stopped /\ table = "messages"
  <2> DEFINE id == Goo!Get(Item.row, "session_id")
             header == IF id \in DOMAIN s THEN s[id] ELSE Goo!Conversation(id, Null, {})
             stamp == Goo!Stamp(header)
             row == Goo!MessageRow(Item, s, id)
  <2>1. evs = row
    <3>1. evs = Goo!MessageRow(Item, carried.sessions, id)
      BY <1>5 DEF Goo!Take
    <3>2. carried.sessions = s
      BY <1>1
    <3> HIDE DEF evs
    <3> QED
      BY <3>1, <3>2
  <2>2. AList(Get(Item.row, "content"))
    BY <1>2, <1>5, RowFits
  <2> HIDE DEF evs, id
  <2>3. Tells(row, Item.at, {"self", "content"}, stamp)
    BY <2>2, GooMessage
  <2>4. \A k \in 1..Len(items) : items[k].table = "sessions" => k \in 1..(at - 1)
    BY <1>5, AllBefore
  <2>5. KnownIn(s, id, <<"sessions">>)
    BY <1>1, <1>2, <1>3, <2>4, KnownOne
  <2>6. Or(stamp.cwd, Null) = HomeOf(stamp.session, <<"sessions">>)
    BY <2>5, GooHome, OneOrTwo
  <2>7. Headers[format][table] = <<"sessions">>
    BY <1>5, HeadersAre
  <2> HIDE DEF stamp, row, table
  <2>8. \A e \in Range(row) : InHome(e, table)
    BY <2>3, <2>6, <2>7, TellsInHome
  <2> QED
    BY <2>1, <2>8 DEF table, evs
<1>6. CASE ~Item.stopped /\ table = "thread_messages"
  <2> DEFINE h == Goo!SessionsFirst([sessions |-> s, threads |-> t])
             id == Goo!Or(Goo!Get(Item.row, "session_id"), Goo!Get(Item.row, "thread_id"))
             header == IF id \in DOMAIN h THEN h[id] ELSE Goo!Conversation(id, Null, {})
             stamp == Goo!Stamp(header)
             row == Goo!MessageRow(Item, h, id)
  <2>1. evs = row
    BY <1>1, <1>6 DEF Goo!Take
  <2>2. AList(Get(Item.row, "content"))
    BY <1>2, <1>6, RowFits
  <2> HIDE DEF evs, id
  <2>4. \A k \in 1..Len(items) : items[k].table \in {"sessions", "threads"} => k \in 1..(at - 1)
    BY <1>6, AllBefore
  <2>5. KnownIn(h, id, <<"sessions", "threads">>)
    BY <1>1, <1>2, <2>4, KnownTwo
  <2> HIDE DEF h
  <2>3. Tells(row, Item.at, {"self", "content"}, stamp)
    BY <2>2, GooMessage
  <2>6. Or(stamp.cwd, Null) = HomeOf(stamp.session, <<"sessions", "threads">>)
    BY <2>5, GooHome, OneOrTwo
  <2>7. Headers[format][table] = <<"sessions", "threads">>
    BY <1>6, HeadersAre
  <2> HIDE DEF stamp, row, table
  <2>8. \A e \in Range(row) : InHome(e, table)
    BY <2>3, <2>6, <2>7, TellsInHome
  <2> QED
    BY <2>1, <2>8 DEF table, evs
<1>7. CASE table \notin {"messages", "thread_messages"}
  <2>1. table \notin DOMAIN Headers[format]
    BY <1>7, HeadersAre
  <2> QED
    BY <2>1 DEF InHome
<1> QED
  BY <1>4, <1>5, <1>6, <1>7

(* The same of opencode.                                                   *)
LEMMA OpeInHome ==
    ASSUME format = "opencode", Finds
    PROVE  \A e \in Range(Ope!Take(Item, carried).events) : InHome(e, Item.table)
<1> DEFINE evs == Ope!Take(Item, carried).events
           table == Item.table
           id == Get(Item.row, "session_id")
           stamp == Ope!Stamp(id, carried)
<1>1. Holds(carried, "session", at - 1)
  BY DEF Finds, ReadHeaders
<1>2. /\ format \in DOMAIN MappedOf /\ StoreKept /\ items = Items /\ IsList(items) /\ at \in 1..Len(items)
      /\ AnItem(Item)
  BY DEF Finds, MappedOf
<1>3. OfSessions("session")
  BY SessionTables
<1>4. CASE Item.stopped
  <2>1. evs = Sql!Stopped(Item)
    BY <1>4, OpeShares DEF Ope!Take
  <2> QED
    BY <2>1, CommonInHome
<1>5. ASSUME table \in {"session_input", "session_message"}
      PROVE  /\ Or(stamp.cwd, Null) = HomeOf(stamp.session, Headers[format][table])
  <2>1. \A k \in 1..Len(items) : items[k].table = "session" => k \in 1..(at - 1)
    BY <1>5, AllBefore
  <2> HIDE DEF id
  <2>2. KnownIn(carried, id, <<"session">>)
    BY <1>1, <1>2, <1>3, <2>1, KnownOne
  <2>3. Or(stamp.cwd, Null) = HomeOf(stamp.session, <<"session">>)
    BY <2>2, OpeHome, OneOrTwo
  <2>4. Headers[format][table] = <<"session">>
    BY <1>5, HeadersAre
  <2> QED
    BY <2>3, <2>4
<1>6. CASE ~Item.stopped /\ table = "session_input"
  <2> DEFINE a == Ope!Ev(Item.at, "self", 0, "user.prompt", Item.row, stamp, Null)
  <2>1. evs = <<a>>
    BY <1>6, OpeReads DEF Ope!Take, Ope!Input
  <2>2. a.stamp = stamp
    BY DEF Ope!Ev
  <2>3. Or(stamp.cwd, Null) = HomeOf(stamp.session, Headers[format][table])
    BY <1>5, <1>6
  <2> HIDE DEF a, evs, stamp, table
  <2>4. InHome(a, table) /\ Range(<<a>>) = {a}
    BY <2>2, <2>3, ShortLists DEF InHome
  <2> QED
    BY <2>1, <2>4 DEF evs, table
<1>7. CASE ~Item.stopped /\ table = "session_message"
  <2> DEFINE row == Ope!Message(Item, carried)
  <2>1. evs = row
    BY <1>7 DEF Ope!Take
  <2>2. AList(Get(Get(Item.row, "data"), "content"))
    BY <1>2, <1>7, RowFits
  <2>3. Tells(row, Item.at, {"self", "content", "result"}, stamp)
    BY <2>2, OpeMessage
  <2>4. Or(stamp.cwd, Null) = HomeOf(stamp.session, Headers[format][table])
    BY <1>5, <1>7
  <2> HIDE DEF row, evs, stamp, table
  <2>5. \A e \in Range(row) : InHome(e, table)
    BY <2>3, <2>4, TellsInHome
  <2> QED
    BY <2>1, <2>5 DEF evs, table
<1>8. CASE table \notin {"session_input", "session_message"}
  <2>1. table \notin DOMAIN Headers[format]
    BY <1>8, HeadersAre
  <2> QED
    BY <2>1 DEF InHome
<1> QED
  BY <1>4, <1>6, <1>7, <1>8

(* The same of Hermes.                                                     *)
LEMMA HerInHome ==
    ASSUME format = "hermes", Finds
    PROVE  \A e \in Range(Her!Take(Item, carried).events) : InHome(e, Item.table)
<1> DEFINE evs == Her!Take(Item, carried).events
           table == Item.table
           id == Get(Item.row, "session_id")
           stamp == Her!Stamp(id, carried)
<1>1. Holds(carried, "sessions", at - 1)
  BY DEF Finds, ReadHeaders
<1>2. /\ format \in DOMAIN MappedOf /\ StoreKept /\ items = Items /\ IsList(items) /\ at \in 1..Len(items)
      /\ AnItem(Item)
  BY DEF Finds, MappedOf
<1>3. OfSessions("sessions")
  BY SessionTables
<1>4. CASE Item.stopped
  <2>1. evs = Sql!Stopped(Item)
    BY <1>4, HerShares DEF Her!Take
  <2> QED
    BY <2>1, CommonInHome
<1>5. CASE ~Item.stopped /\ table = "messages"
  <2> DEFINE row == Her!Message(Item, carried)
             P == {"self", "items", "reasoning", "calls", "call"}
  <2>1. evs = row
    BY <1>5 DEF Her!Take
  <2>2. Get(Item.row, "tool_calls") # Torn => AList(Get(Item.row, "tool_calls"))
    BY <1>2, <1>5, RowFits
  <2>3. Tells(row, Item.at, P, stamp)
    BY <2>2, HerMessage
  <2>4. \A k \in 1..Len(items) : items[k].table = "sessions" => k \in 1..(at - 1)
    BY <1>5, AllBefore
  <2>5. Or(stamp.cwd, Null) = HomeOf(stamp.session, <<"sessions">>)
    <3> HIDE DEF id
    <3>1. KnownIn(carried, id, <<"sessions">>)
      BY <1>1, <1>2, <1>3, <2>4, KnownOne
    <3> QED
      BY <3>1, HerHome, OneOrTwo
  <2>6. Headers[format][table] = <<"sessions">>
    BY <1>5, HeadersAre
  <2> HIDE DEF row, evs, stamp, table, P
  <2>7. \A e \in Range(row) : InHome(e, table)
    BY <2>3, <2>5, <2>6, TellsInHome
  <2> QED
    BY <2>1, <2>7 DEF evs, table
<1>6. CASE table # "messages"
  <2>1. table \notin DOMAIN Headers[format]
    BY <1>6, HeadersAre
  <2> QED
    BY <2>1 DEF InHome
<1> QED
  BY <1>4, <1>5, <1>6

(* A step that takes a row carries what the rows so far say.               *)
LEMMA HeadersFollow ==
    ASSUME format \in DOMAIN Headers, Finds, NEW evs, NEW next, Taken(evs, next), ByItsReader(evs, next)
    PROVE  ReadHeaders'
<1>1. /\ at' = at + 1 /\ carried' = next /\ format' = format /\ file' = file /\ items' = items
      /\ at \in Nat \ {0}
  BY DEF Taken, Finds
<1>2. PICK n : n = at
  OBVIOUS
<1>3. at' - 1 = n
  BY <1>1, <1>2
<1>4. ASSUME NEW h, NEW name, Holds(h, name, at)
      PROVE  Holds(h, name, at - 1)'
  <2>1. Holds(h, name, n)
    BY <1>2, <1>4
  <2>2. Holds(h, name, n)'
    BY <1>1, <2>1, HoldsStay
  <2> QED
    BY <1>3, <2>2 DEF Holds
<1>5. format \in {"goose", "opencode", "hermes"}
  BY HeadersAre
<1>6. CASE format = "goose"
  <2>1. next = Goo!Take(Item, carried).carried
    BY <1>6 DEF ByItsReader
  <2>2. PICK s, t : next = [sessions |-> s, threads |-> t] /\ Holds(s, "sessions", at) /\ Holds(t, "threads", at)
    BY <1>6, <2>1, GooCarries
  <2>3. Holds(s, "sessions", at - 1)' /\ Holds(t, "threads", at - 1)'
    BY <1>4, <2>2
  <2> QED
    BY <1>1, <1>6, <2>2, <2>3 DEF ReadHeaders
<1>7. CASE format = "opencode"
  <2>1. next = Ope!Take(Item, carried).carried
    BY <1>7 DEF ByItsReader
  <2>2. Holds(next, "session", at)
    BY <1>7, <2>1, OpeCarries
  <2>3. Holds(next, "session", at - 1)'
    BY <1>4, <2>2
  <2> QED
    BY <1>1, <1>7, <2>3 DEF ReadHeaders, Holds
<1>8. CASE format = "hermes"
  <2>1. next = Her!Take(Item, carried).carried
    BY <1>8 DEF ByItsReader
  <2>2. Holds(next, "sessions", at)
    BY <1>8, <2>1, HerCarries
  <2>3. Holds(next, "sessions", at - 1)'
    BY <1>4, <2>2
  <2> QED
    BY <1>1, <1>8, <2>3 DEF ReadHeaders, Holds
<1> QED
  BY <1>5, <1>6, <1>7, <1>8

(* At first nothing is carried.                                            *)
LEMMA HeadersBegin ==
    ASSUME at' = 1, carried' = StartOf, format' = format, format \in DOMAIN Headers
    PROVE  ReadHeaders'
<1> DEFINE none == [id \in {} |-> Null]
<1>1. DOMAIN none = {} /\ 1..0 = {} /\ at' - 1 = 0
  OBVIOUS
<1>2. \A h, name : DOMAIN h = {} => Holds(h, name, at - 1)'
  BY <1>1 DEF Holds
<1>3. format \in {"goose", "opencode", "hermes"}
  BY HeadersAre
<1>4. CASE format = "goose"
  <2>1. carried' = [sessions |-> Goo!Nobody, threads |-> Goo!Nobody]
    BY <1>4 DEF StartOf, Goo!Start
  <2>2. DOMAIN Goo!Nobody = {}
    BY DEF Goo!Nobody
  <2>3. Holds(Goo!Nobody, "sessions", at - 1)' /\ Holds(Goo!Nobody, "threads", at - 1)'
    BY <1>2, <2>2
  <2> QED
    BY <1>4, <2>1, <2>3 DEF ReadHeaders
<1>5. CASE format = "opencode"
  <2>1. DOMAIN carried' = {}
    BY <1>5 DEF StartOf, Ope!Start
  <2> QED
    BY <1>1, <1>5, <2>1 DEF ReadHeaders, Holds
<1>6. CASE format = "hermes"
  <2>1. DOMAIN carried' = {}
    BY <1>6 DEF StartOf, Her!Start
  <2> QED
    BY <1>1, <1>6, <2>1 DEF ReadHeaders, Holds
<1> QED
  BY <1>3, <1>4, <1>5, <1>6

(* A step that takes a row of a message stamps it with the directory.      *)
LEMMA HomeFollows ==
    ASSUME format \in DOMAIN Headers, format \notin PageFormats, Finds, ReadByPlace, ReadInHome,
           NEW evs, NEW next, Taken(evs, next), Answered(evs, Item), ByItsReader(evs, next)
    PROVE  ReadInHome'
<1>1. format' = format /\ file' = file /\ items' = items /\ at > 0 /\ StoreKept /\ Opened /\ AnItem(Item)
  BY DEF Taken, Finds
<1>2. Range(events') = Range(events) \cup Range(evs)
  BY <1>1, TakesByPlace
<1>3. \A id, tables : HomeOf(id, tables)' = HomeOf(id, tables)
  BY <1>1, HoldsStay
<1>4. \A e \in Range(evs) : InHome(e, Item.table)
  <2>1. format \in {"goose", "opencode", "hermes"}
    BY HeadersAre
  <2>2. CASE format = "goose"
    BY <2>2, GooInHome DEF ByItsReader
  <2>3. CASE format = "opencode"
    BY <2>3, OpeInHome DEF ByItsReader
  <2>4. CASE format = "hermes"
    BY <2>4, HerInHome DEF ByItsReader
  <2> QED
    BY <2>1, <2>2, <2>3, <2>4
<1>5. \A e \in Range(evs) : e.loc[1][1] = Item.table
  BY <1>1 DEF Answered, Own, AnItem
<1>6. \A e \in Range(events) \cup Range(evs) : InHome(e, e.loc[1][1])
  BY <1>1, <1>4, <1>5 DEF ReadInHome
<1>7. \A e, table : InHome(e, table) => InHome(e, table)'
  BY <1>1, <1>3 DEF InHome
<1>8. \A e \in Range(events') : InHome(e, e.loc[1][1])'
  BY <1>2, <1>6, <1>7
<1> QED
  BY <1>1, <1>8 DEF ReadInHome

(* So the headers are always those of the rows so far.                     *)
LEMMA AlwaysReadHeaders == Spec => [](format \in DOMAIN Headers => ReadHeaders)
<1> DEFINE Inv == format \in DOMAIN Headers => ReadHeaders
<1>1. Init => Inv
  BY DEF Init, ReadHeaders
<1>2. StoreKept /\ Opened /\ Inv /\ [Next]_vars => Inv'
  <2> SUFFICES ASSUME StoreKept, Opened, Inv, [Next]_vars, format' \in DOMAIN Headers PROVE ReadHeaders'
    OBVIOUS
  <2>1. CASE UNCHANGED vars
    <3>1. format' = format /\ file' = file /\ at' = at /\ items' = items /\ carried' = carried
      BY <2>1 DEF vars
    <3> QED
      BY <3>1 DEF ReadHeaders, Holds, Heads, Bears
  <2>2. CASE Next
    <3>1. format' = format /\ format \in DOMAIN Headers /\ ReadHeaders /\ format \notin PageFormats
      BY <2>2, FileStays, HeadersAre DEF PageFormats
    <3>2. CASE at = 0
      BY <2>2, <3>1, <3>2, FirstOpens, HeadersBegin
    <3>3. CASE at > 0
      <4>1. PICK evs, next : Taken(evs, next) /\ AnItem(Item) /\ ByItsReader(evs, next)
        BY <2>2, <3>1, <3>3, StepTakes
      <4>2. Finds
        BY <3>1, <3>3, <4>1, TakenFacts DEF Finds, Opened
      <4> QED
        BY <3>1, <4>1, <4>2, HeadersFollow
    <3> QED
      BY <3>2, <3>3 DEF Opened
  <2> QED
    BY <2>1, <2>2
<1> QED
  BY <1>1, <1>2, AlwaysStoreKept, AlwaysOpened, PTL DEF Spec

(* So every event that inherits has always inherited.                      *)
LEMMA AlwaysReadInHome == Spec => []ReadInHome
<1>1. Init => ReadInHome
  BY DEF Init, ReadInHome
<1>2. StoreKept /\ Opened /\ ReadByPlace /\ (format \in DOMAIN Headers => ReadHeaders) /\ ReadInHome /\ [Next]_vars
      => ReadInHome'
  <2> SUFFICES ASSUME StoreKept, Opened, ReadByPlace, format \in DOMAIN Headers => ReadHeaders, ReadInHome,
                      [Next]_vars, format' \in DOMAIN Headers
               PROVE  ReadInHome'
    BY DEF ReadInHome
  <2>1. CASE UNCHANGED vars
    <3>1. format' = format /\ file' = file /\ at' = at /\ items' = items /\ events' = events
      BY <2>1 DEF vars
    <3>2. \A id, tables : HomeOf(id, tables)' = HomeOf(id, tables)
      BY <3>1, HoldsStay
    <3> QED
      BY <3>1, <3>2 DEF ReadInHome, InHome
  <2>2. CASE Next
    <3>1. format' = format /\ format \in DOMAIN Headers /\ ReadHeaders /\ format \notin PageFormats
      BY <2>2, FileStays, HeadersAre DEF PageFormats
    <3>2. CASE at = 0
      <4>1. events' = Preface
        BY <2>2, <3>2, FirstOpens
      <4>2. Preface = Sql!FileRecord(file)
        BY <3>1, HeadersAre DEF Preface, PageFormats
      <4>3. \A e \in Range(Preface) : e.kind = "unparsed.record"
        <5> DEFINE record == Sql!Unparsed(Sql!File, "self", 0, [suffix |-> file.suffix], Sql!NoStamp)
        <5>1. Preface = <<record>> \/ Preface = <<>>
          BY <4>2 DEF Sql!FileRecord
        <5>2. record.kind = "unparsed.record"
          BY DEF Sql!Unparsed, Sql!Ev
        <5> HIDE DEF record
        <5> QED
          BY <5>1, <5>2, ShortLists
      <4> QED
        BY <4>1, <4>3 DEF ReadInHome, InHome
    <3>3. CASE at > 0
      <4>1. PICK evs, next : Taken(evs, next) /\ AnItem(Item) /\ Answered(evs, Item) /\ ByItsReader(evs, next)
        BY <2>2, <3>1, <3>3, StepTakes
      <4>2. Finds
        BY <3>1, <3>3, <4>1, TakenFacts DEF Finds, Opened
      <4> QED
        BY <3>1, <4>1, <4>2, HomeFollows
    <3> QED
      BY <3>2, <3>3 DEF Opened
  <2> QED
    BY <2>1, <2>2
<1> QED
  BY <1>1, <1>2, AlwaysStoreKept, AlwaysOpened, AlwaysReadByPlace, AlwaysReadHeaders, PTL DEF Spec

(* Every event of a store that is read row by row has the directory that   *)
(* its own store tells for it: a message that of the session, or else the  *)
(* thread, that it names, wherever its row is and whatever of the store    *)
(* can be read; a row of an editor's store that of its workspace           *)
(* (goose.py, opencode.py, hermes.py, vscode_state.py).                    *)
THEOREM AlwaysStampedByItsStore == Spec => []StampedByItsStore
<1>1. Opened /\ ReadInHome => InheritsItsSession
  <2> SUFFICES ASSUME Opened, ReadInHome, format \in DOMAIN Headers, NEW i \in DOMAIN events
               PROVE  InHome(events[i], events[i].loc[1][1])
    BY DEF InheritsItsSession, InHome
  <2>1. at # 0
    <3>1. DOMAIN <<>> = {}
      OBVIOUS
    <3> QED
      BY <3>1 DEF Opened
  <2>2. at > 0
    BY <2>1 DEF Opened
  <2>3. events[i] \in Range(events)
    BY DEF Range
  <2> QED
    BY <2>2, <2>3 DEF ReadInHome
<1>2. InheritsItsSession /\ FolderOfTheWorkspace => StampedByItsStore
  BY DEF StampedByItsStore
<1> QED
  BY <1>1, <1>2, AlwaysOpened, AlwaysReadInHome, AlwaysFolderOfTheWorkspace, PTL

(* ----------------------------------------------------------- page stores -- *)

(* There are as many numbers up to one as it is.                           *)
LEMMA CountTo == \A n \in Nat : IsFiniteSet(1..n) /\ Cardinality(1..n) = n
<1> TAKE n \in Nat
<1>1. IsFiniteSet(1..n) /\ Cardinality(1..n) = IF 1 > n THEN 0 ELSE n - 1 + 1
  BY FS_Interval
<1> QED
  BY <1>1

(* The numbers of a finite set's members in the order of their places are  *)
(* all the numbers up to how many they are.                                *)
LEMMA RanksExist ==
    ASSUME NEW S, IsFiniteSet(S), NEW place,
           \A x \in S : place[x] \in Nat, \A x, y \in S : place[x] = place[y] => x = y
    PROVE  /\ Cardinality(S) \in Nat
           /\ \A n \in 1..Cardinality(S) : \E x \in S : Cardinality({y \in S : place[y] <= place[x]}) = n
<1> DEFINE n == Cardinality(S)
           Upper(x) == {y \in S : place[y] <= place[x]}
           q == [x \in S |-> Cardinality(Upper(x))]
<1>1. n \in Nat /\ IsFiniteSet(1..n) /\ Cardinality(1..n) = n
  BY FS_CardinalityType, CountTo
<1>2. ASSUME NEW x \in S
      PROVE  IsFiniteSet(Upper(x)) /\ Cardinality(Upper(x)) \in 1..n
  <2>1. Upper(x) \in SUBSET S /\ x \in Upper(x)
    OBVIOUS
  <2> HIDE DEF Upper
  <2>2. IsFiniteSet(Upper(x)) /\ Cardinality(Upper(x)) <= n
    BY <2>1, FS_Subset
  <2>3. Cardinality(Upper(x)) \in Nat /\ Cardinality(Upper(x)) # 0
    BY <2>1, <2>2, FS_CardinalityType, FS_EmptySet
  <2> HIDE DEF n
  <2> QED
    BY <1>1, <2>2, <2>3
<1>3. ASSUME NEW x \in S, NEW y \in S, place[x] < place[y]
      PROVE  Cardinality(Upper(x)) # Cardinality(Upper(y))
  <2>1. Upper(x) \in SUBSET Upper(y)
    BY <1>3
  <2>2. y \in Upper(y) /\ y \notin Upper(x)
    BY <1>3
  <2>3. Upper(x) # Upper(y)
    BY <2>2
  <2> HIDE DEF Upper
  <2> QED
    BY <1>2, <2>1, <2>3, FS_Subset
<1>4. q \in [S -> 1..n]
  <2> HIDE DEF Upper, n
  <2> QED
    BY <1>2
<1>5. \A x, y \in S : q[x] = q[y] => x = y
  <2> SUFFICES ASSUME NEW x \in S, NEW y \in S, q[x] = q[y], x # y PROVE FALSE
    OBVIOUS
  <2>1. place[x] < place[y] \/ place[y] < place[x]
    <3>1. place[x] \in Nat /\ place[y] \in Nat /\ place[x] # place[y]
      OBVIOUS
    <3> QED
      BY <3>1
  <2> HIDE DEF Upper
  <2> QED
    BY <1>3, <2>1
<1>6. q \in Injection(S, 1..n)
  <2> HIDE DEF q, n
  <2> QED
    BY <1>4, <1>5 DEF Injection, IsInjective
<1>7. q \in Surjection(S, 1..n)
  <2>1. Cardinality(S) = Cardinality(1..n)
    BY <1>1
  <2> HIDE DEF q, n
  <2> QED
    BY <1>1, <1>6, <2>1, FS_Injection
<1>8. \A k \in 1..n : \E x \in S : q[x] = k
  <2> HIDE DEF q, n
  <2> QED
    BY <1>7 DEF Surjection
<1> QED
  <2> HIDE DEF n
  <2>1. \A k \in 1..n : \E x \in S : Cardinality(Upper(x)) = k
    BY <1>8
  <2> QED
    BY <1>1, <2>1 DEF n

(* A list in which nothing is twice. *)
Once(s) == IsList(s) /\ \A i, j \in 1..Len(s) : i < j => s[i] # s[j]

(* The members of a set, each where its number is, are in the list once.   *)
LEMMA SortedOnce ==
    ASSUME NEW S, IsFiniteSet(S), NEW rank, NEW s,
           s = [n \in 1..Cardinality(S) |-> s[n]],
           \A n \in 1..Cardinality(S) : s[n] \in S /\ rank[s[n]] = n
    PROVE  Once(s) /\ Len(s) = Cardinality(S) /\ Range(s) = S
<1> DEFINE n == Cardinality(S)
<1>1. n \in Nat /\ IsFiniteSet(1..n) /\ Cardinality(1..n) = n
  BY FS_CardinalityType, CountTo
<1>2. Cardinality(S) = n
  OBVIOUS
<1> HIDE DEF n
<1>3. s = [k \in 1..n |-> s[k]] /\ \A k \in 1..n : s[k] \in S /\ rank[s[k]] = k
  BY <1>2
<1>4. IsList(s) /\ Len(s) = n /\ DOMAIN s = 1..n
  BY <1>1, <1>3, MadeIsList, ListFacts
<1>5. \A i, j \in 1..n : s[i] = s[j] => i = j
  BY <1>3
<1>6. s \in Injection(1..n, S)
  <2>1. s \in [1..n -> S]
    BY <1>3
  <2> QED
    BY <1>5, <2>1 DEF Injection, IsInjective
<1>7. s \in Surjection(1..n, S)
  BY <1>1, <1>2, <1>6, FS_Injection
<1>8. Range(s) = S
  <2>1. Range(s) = {s[i] : i \in 1..n}
    BY <1>4, ListFacts
  <2>2. \A x \in S : \E i \in 1..n : s[i] = x
    BY <1>7 DEF Surjection
  <2> QED
    BY <1>3, <2>1, <2>2, ZenonT(30)
<1>9. Once(s)
  <2>1. \A i, j \in 1..n : i < j => s[i] # s[j]
    BY <1>1, <1>5
  <2> QED
    BY <1>4, <2>1 DEF Once
<1> QED
  BY <1>2, <1>4, <1>8, <1>9

(* As many are in such a list as it is long.                               *)
LEMMA OnceCounts ==
    ASSUME NEW s, Once(s)
    PROVE  IsFiniteSet(Range(s)) /\ Cardinality(Range(s)) = Len(s)
<1> DEFINE n == Len(s)
           S == Range(s)
<1>1. n \in Nat /\ DOMAIN s = 1..n /\ S = {s[i] : i \in 1..n} /\ s = [i \in 1..n |-> s[i]]
  <2>1. IsList(s)
    BY DEF Once
  <2>2. s \in Seq(S)
    BY <2>1 DEF IsList
  <2>3. s = [i \in 1..Len(s) |-> s[i]]
    <3> HIDE DEF S
    <3> QED
      BY <2>2
  <2> QED
    BY <2>1, <2>3, ListFacts
<1>2. \A i, j \in 1..n : s[i] = s[j] => i = j
  <2> SUFFICES ASSUME NEW i \in 1..n, NEW j \in 1..n, s[i] = s[j], i # j PROVE FALSE
    OBVIOUS
  <2>1. i < j \/ j < i
    BY <1>1
  <2> QED
    BY <2>1 DEF Once
<1> HIDE DEF S, n
<1>3. s \in Bijection(1..n, S)
  <2>1. s \in [1..n -> S]
    BY <1>1
  <2>2. \A x \in S : \E i \in 1..n : s[i] = x
    BY <1>1
  <2> QED
    BY <1>2, <2>1, <2>2 DEF Bijection, Injection, Surjection, IsInjective
<1>4. ExistsBijection(1..n, S)
  BY <1>3 DEF ExistsBijection
<1>5. IsFiniteSet(S)
  BY <1>1, <1>4, FS_NatBijection
<1>6. Cardinality(S) = n
  BY <1>1, <1>4, FS_CountingElements
<1> QED
  BY <1>5, <1>6 DEF S, n

(* Two such lists that share nothing, one after the other.                 *)
LEMMA OnceJoin ==
    ASSUME NEW s, NEW t, Once(s), Once(t), Range(s) \cap Range(t) = {}
    PROVE  Once(s \o t) /\ Range(s \o t) = Range(s) \cup Range(t)
<1> DEFINE st == s \o t
<1>0. IsList(s) /\ IsList(t)
  BY DEF Once
<1>1. /\ Len(s) \in Nat /\ Len(t) \in Nat
      /\ IsList(st) /\ Range(st) = Range(s) \cup Range(t) /\ Len(st) = Len(s) + Len(t)
      /\ \A i \in 1..Len(s) : st[i] = s[i]
      /\ \A i \in 1..Len(s) + Len(t) : i \in 1..Len(s) \/ (i - Len(s) \in 1..Len(t) /\ st[i] = t[i - Len(s)])
  BY <1>0, ListsJoin, ListFacts
<1>2. /\ \A i \in 1..Len(s) : s[i] \in Range(s)
      /\ \A i \in 1..Len(t) : t[i] \in Range(t)
  BY <1>0, ListFacts
<1> HIDE DEF st
<1>3. ASSUME NEW i \in 1..Len(st), NEW j \in 1..Len(st), i < j
      PROVE  st[i] # st[j]
  <2>1. CASE i \in 1..Len(s) /\ j \in 1..Len(s)
    BY <1>1, <1>3, <2>1 DEF Once
  <2>2. CASE i \in 1..Len(s) /\ j \notin 1..Len(s)
    <3>1. st[i] \in Range(s) /\ st[j] \in Range(t)
      BY <1>1, <1>2, <2>2
    <3> QED
      BY <3>1
  <2>3. CASE i \notin 1..Len(s)
    <3>1. /\ i - Len(s) \in 1..Len(t) /\ j - Len(s) \in 1..Len(t) /\ i - Len(s) < j - Len(s)
          /\ st[i] = t[i - Len(s)] /\ st[j] = t[j - Len(s)]
      BY <1>1, <1>3, <2>3
    <3> QED
      BY <3>1 DEF Once
  <2> QED
    BY <2>1, <2>2, <2>3
<1> QED
  BY <1>1, <1>3 DEF st, Once

(* Such lists that share nothing, one after the other.                     *)
LEMMA OnceFlatten ==
    ASSUME NEW u, AreLists(u), \A i \in 1..Len(u) : Once(u[i]),
           \A i, j \in 1..Len(u) : i < j => Range(u[i]) \cap Range(u[j]) = {}
    PROVE  Once(FlattenSeq(u))
<1> DEFINE s == FlattenSeq(u)
<1>1. PICK of, in :
         /\ \A j \in 1..Len(s) : of[j] \in 1..Len(u) /\ in[j] \in 1..Len(u[of[j]]) /\ s[j] = u[of[j]][in[j]]
         /\ \A j, k \in 1..Len(s) : j < k => of[j] < of[k] \/ (of[j] = of[k] /\ in[j] < in[k])
  BY FlattenPlaces
<1>2. IsList(s)
  BY FlattenFacts
<1> HIDE DEF s
<1>3. ASSUME NEW j \in 1..Len(s), NEW k \in 1..Len(s), j < k
      PROVE  s[j] # s[k]
  <2>1. /\ of[j] \in 1..Len(u) /\ in[j] \in 1..Len(u[of[j]]) /\ s[j] = u[of[j]][in[j]]
        /\ of[k] \in 1..Len(u) /\ in[k] \in 1..Len(u[of[k]]) /\ s[k] = u[of[k]][in[k]]
    BY <1>1
  <2>2. s[j] \in Range(u[of[j]]) /\ s[k] \in Range(u[of[k]])
    <3>1. IsList(u[of[j]]) /\ IsList(u[of[k]])
      BY <2>1 DEF Once
    <3> QED
      BY <2>1, <3>1, ListFacts
  <2>3. CASE of[j] < of[k]
    BY <2>1, <2>2, <2>3
  <2>4. CASE of[j] = of[k] /\ in[j] < in[k]
    BY <2>1, <2>4 DEF Once
  <2> QED
    BY <1>1, <1>3, <2>3, <2>4
<1> QED
  BY <1>2, <1>3 DEF s, Once

(* Those of such a list that meet a test.                                  *)
LEMMA OnceChosen ==
    ASSUME NEW list, Once(list), NEW u, u = [i \in DOMAIN list |-> u[i]],
           \A i \in DOMAIN list : u[i] \in {<<>>, <<list[i]>>}
    PROVE  /\ Once(FlattenSeq(u))
           /\ Range(FlattenSeq(u)) = {list[i] : i \in {k \in DOMAIN list : u[k] # <<>>}}
<1> DEFINE s == FlattenSeq(u)
<1>0. IsList(list) /\ Len(list) \in Nat /\ DOMAIN list = 1..Len(list)
  BY ListFacts DEF Once
<1>1. PICK place :
         /\ IsList(s)
         /\ \A j \in 1..Len(s) : place[j] \in DOMAIN list /\ u[place[j]] # <<>> /\ s[j] = list[place[j]]
         /\ \A j, k \in 1..Len(s) : j < k => place[j] < place[k]
         /\ \A i \in DOMAIN list : u[i] # <<>> => list[i] \in Range(s)
  BY <1>0, ChosenPlaces
<1> HIDE DEF s
<1>2. Once(s)
  <2>1. ASSUME NEW j \in 1..Len(s), NEW k \in 1..Len(s), j < k
        PROVE  s[j] # s[k]
    <3>1. place[j] < place[k] /\ place[j] \in 1..Len(list) /\ place[k] \in 1..Len(list)
      BY <1>0, <1>1, <2>1
    <3>2. list[place[j]] # list[place[k]]
      BY <3>1 DEF Once
    <3> QED
      BY <1>1, <3>2
  <2> QED
    BY <1>1, <2>1 DEF Once
<1>3. Range(s) = {s[j] : j \in 1..Len(s)}
  BY <1>1, ListFacts
<1>4. Range(s) = {list[i] : i \in {k \in DOMAIN list : u[k] # <<>>}}
  BY <1>1, <1>3
<1> QED
  BY <1>2, <1>4 DEF s

(* ------------------------------------------- what a writer of pages leaves -- *)

(* The changes that a writer makes, each of a database there is. *)
Changing(C) ==
    /\ \A c \in C : c.of \in Named \cup {Lmd!Unnamed} /\ c.ends \in {"commit", "before", "within"}
    /\ \A c \in C : Order(c.key) \in Nat
    /\ \A c, d \in C : Order(c.key) = Order(d.key) => c.key = d.key

(* The records of a database, each as one of the changes wrote it. *)
Content(records, C) ==
    /\ records = [key \in DOMAIN records |-> records[key]] /\ IsFiniteSet(DOMAIN records)
    /\ \A key \in DOMAIN records : \E c \in C : c.key = key /\ c.value = records[key]

ValueNode(key, value) == [key |-> key, is |-> "value", value |-> value]
RootNode(of, root) == [key |-> of, is |-> "database", root |-> root]

(* The nodes that a page has: records that were written, and databases. *)
IsNode(x, C) ==
    (\E c \in C : x = ValueNode(c.key, c.value)) \/ (\E of \in Named, root \in Pages : x = RootNode(of, root))

IsLeaf(page, C) ==
    \E nodes : page = Leaf(nodes) /\ IsList(nodes) /\ \A x \in Range(nodes) : IsNode(x, C)

(* A change of one database.                                               *)
LEMMA ChangedContent ==
    ASSUME NEW C, NEW records, Content(records, C), NEW c \in C
    PROVE  Content(Changed(records, c), C)
<1> DEFINE next == Changed(records, c)
<1>1. CASE c.value = Null
  <2>1. next = [key \in DOMAIN records \ {c.key} |-> records[key]]
    BY <1>1 DEF Changed
  <2> HIDE DEF next
  <2>2. DOMAIN next = DOMAIN records \ {c.key} /\ \A key \in DOMAIN next : next[key] = records[key]
    BY <2>1
  <2>3. next = [key \in DOMAIN next |-> next[key]]
    BY <2>1, <2>2
  <2>4. IsFiniteSet(DOMAIN next)
    BY <2>2, FS_Subset DEF Content
  <2>5. \A key \in DOMAIN next : \E d \in C : d.key = key /\ d.value = next[key]
    BY <2>2 DEF Content
  <2> QED
    BY <2>3, <2>4, <2>5 DEF Content, next
<1>2. CASE c.value # Null
  <2>1. next = [key \in DOMAIN records \cup {c.key} |-> IF key = c.key THEN c.value ELSE records[key]]
    BY <1>2 DEF Changed, With
  <2> HIDE DEF next
  <2>2. /\ DOMAIN next = DOMAIN records \cup {c.key}
        /\ \A key \in DOMAIN next : next[key] = IF key = c.key THEN c.value ELSE records[key]
    BY <2>1
  <2>3. next = [key \in DOMAIN next |-> next[key]]
    BY <2>1, <2>2
  <2>4. IsFiniteSet(DOMAIN next)
    BY <2>2, FS_AddElement DEF Content
  <2>5. ASSUME NEW key \in DOMAIN next
        PROVE  \E d \in C : d.key = key /\ d.value = next[key]
    <3>1. CASE key = c.key
      BY <2>2, <3>1
    <3>2. CASE key # c.key
      BY <2>2, <3>2 DEF Content
    <3> QED
      BY <3>1, <3>2
  <2> QED
    BY <2>3, <2>4, <2>5 DEF Content, next
<1> QED
  BY <1>1, <1>2

(* Keys that were written stand in a list in their order.                  *)
LEMMA KeysSorted ==
    ASSUME NEW C, Changing(C), NEW K, IsFiniteSet(K), \A key \in K : \E c \in C : c.key = key
    PROVE  /\ Once(Sorted(K, Order)) /\ Range(Sorted(K, Order)) = K
<1> DEFINE place == [x \in K |-> Order(x)]
           rank == [x \in K |-> Cardinality({y \in K : Order(y) <= Order(x)})]
           s == Sorted(K, Order)
<1>1. \A x \in K : place[x] = Order(x) /\ Order(x) \in Nat
  BY DEF Changing
<1>2. \A x, y \in K : place[x] = place[y] => x = y
  <2> SUFFICES ASSUME NEW x \in K, NEW y \in K, Order(x) = Order(y) PROVE x = y
    BY <1>1
  <2>1. PICK c \in C, d \in C : c.key = x /\ d.key = y
    OBVIOUS
  <2> QED
    BY <2>1 DEF Changing
<1>3. \A x \in K : {y \in K : place[y] <= place[x]} = {y \in K : Order(y) <= Order(x)}
  BY <1>1
<1>4. \A n \in 1..Cardinality(K) : \E x \in K : rank[x] = n
  <2>1. \A x \in K : place[x] \in Nat
    BY <1>1
  <2> HIDE DEF place
  <2>2. \A n \in 1..Cardinality(K) : \E x \in K : Cardinality({y \in K : place[y] <= place[x]}) = n
    BY <1>2, <2>1, RanksExist
  <2>3. \A x \in K : rank[x] = Cardinality({y \in K : place[y] <= place[x]})
    BY <1>3
  <2> HIDE DEF rank
  <2> QED
    BY <2>2, <2>3
<1>5. s = [n \in 1..Cardinality(K) |-> CHOOSE x \in K : Cardinality({y \in K : Order(y) <= Order(x)}) = n]
  BY DEF Sorted
<1> HIDE DEF s
<1>6. \A n \in 1..Cardinality(K) : s[n] \in K /\ rank[s[n]] = n
  <2> SUFFICES ASSUME NEW n \in 1..Cardinality(K) PROVE s[n] \in K /\ rank[s[n]] = n
    OBVIOUS
  <2>1. \E x \in K : Cardinality({y \in K : Order(y) <= Order(x)}) = n
    BY <1>4
  <2>2. s[n] = CHOOSE x \in K : Cardinality({y \in K : Order(y) <= Order(x)}) = n
    BY <1>5
  <2>3. s[n] \in K /\ Cardinality({y \in K : Order(y) <= Order(s[n])}) = n
    BY <2>1, <2>2
  <2> QED
    BY <2>3
<1>7. s = [n \in 1..Cardinality(K) |-> s[n]]
  <2> DEFINE m == Cardinality(K)
             e(n) == CHOOSE x \in K : Cardinality({y \in K : Order(y) <= Order(x)}) = n
  <2>1. s = [n \in 1..m |-> e(n)]
    BY <1>5
  <2> HIDE DEF e, m
  <2>2. s = [n \in 1..m |-> s[n]]
    BY <2>1
  <2> QED
    BY <2>2 DEF m
<1> HIDE DEF rank
<1> QED
  BY <1>6, <1>7, SortedOnce DEF s

(* The nodes of a database: one for every record.                          *)
LEMMA NodesFacts ==
    ASSUME NEW C, Changing(C), NEW records, Content(records, C)
    PROVE  /\ Once(Nodes(records))
           /\ Range(Nodes(records)) = {ValueNode(key, records[key]) : key \in DOMAIN records}
           /\ \A x \in Range(Nodes(records)) : IsNode(x, C)
           /\ (Nodes(records) = <<>> <=> records = NoRecords)
<1> DEFINE keys == Sorted(DOMAIN records, Order)
           nodes == [i \in DOMAIN keys |-> ValueNode(keys[i], records[keys[i]])]
<1>1. Once(keys) /\ Range(keys) = DOMAIN records
  <2>1. IsFiniteSet(DOMAIN records) /\ \A key \in DOMAIN records : \E c \in C : c.key = key
    BY DEF Content
  <2> QED
    BY <2>1, KeysSorted
<1>2. Nodes(records) = nodes
  BY DEF Nodes, ValueNode
<1> HIDE DEF keys
<1>3. IsList(keys) /\ DOMAIN keys = 1..Len(keys) /\ Len(keys) \in Nat /\ Range(keys) = {keys[i] : i \in 1..Len(keys)}
  BY <1>1, ListFacts DEF Once
<1>4. nodes = [i \in 1..Len(keys) |-> nodes[i]]
  BY <1>3
<1>5. IsList(nodes) /\ Len(nodes) = Len(keys)
  <2> HIDE DEF nodes
  <2> QED
    BY <1>3, <1>4, MadeIsList
<1>6. \A i \in 1..Len(keys) : nodes[i] = ValueNode(keys[i], records[keys[i]]) /\ nodes[i].key = keys[i]
  BY <1>3 DEF ValueNode
<1> HIDE DEF nodes
<1>7. Once(nodes)
  <2>1. \A i, j \in 1..Len(keys) : i < j => nodes[i] # nodes[j]
    <3> SUFFICES ASSUME NEW i \in 1..Len(keys), NEW j \in 1..Len(keys), i < j PROVE nodes[i] # nodes[j]
      OBVIOUS
    <3>1. keys[i] # keys[j]
      BY <1>1 DEF Once
    <3> QED
      BY <1>6, <3>1
  <2> QED
    BY <1>5, <2>1 DEF Once
<1>8. Range(nodes) = {ValueNode(key, records[key]) : key \in DOMAIN records}
  <2>1. Range(nodes) = {nodes[i] : i \in 1..Len(keys)}
    BY <1>5, ListFacts
  <2>2. \A i \in 1..Len(keys) : keys[i] \in DOMAIN records
    BY <1>1, <1>3
  <2>3. \A key \in DOMAIN records : \E i \in 1..Len(keys) : keys[i] = key
    BY <1>1, <1>3
  <2> QED
    BY <1>6, <2>1, <2>2, <2>3
<1>9. \A x \in Range(nodes) : IsNode(x, C)
  <2> SUFFICES ASSUME NEW key \in DOMAIN records PROVE IsNode(ValueNode(key, records[key]), C)
    BY <1>8
  <2>1. PICK c \in C : c.key = key /\ c.value = records[key]
    BY DEF Content
  <2> QED
    BY <2>1 DEF IsNode
<1>10. nodes = <<>> <=> records = NoRecords
  <2>1. nodes = <<>> <=> DOMAIN records = {}
    <3>1. nodes = <<>> <=> Range(nodes) = {}
      BY <1>5, ListFacts
    <3> QED
      BY <1>8, <3>1
  <2>2. records = NoRecords => DOMAIN records = {}
    BY DEF NoRecords
  <2>3. DOMAIN records = {} => records = NoRecords
    <3> SUFFICES ASSUME DOMAIN records = {} PROVE records = NoRecords
      OBVIOUS
    <3>1. records = [key \in {} |-> records[key]]
      BY DEF Content
    <3>2. [key \in {} |-> records[key]] = [key \in {} |-> Null]
      OBVIOUS
    <3> QED
      BY <3>1, <3>2 DEF NoRecords
  <2> QED
    BY <2>1, <2>2, <2>3
<1> QED
  BY <1>2, <1>7, <1>8, <1>9, <1>10

(* The nodes of the main tree: its records, then the roots of the others. *)
Held(roots) == Those(NamesInOrder, LAMBDA of : roots[of] # 0)

MainNodes(content, roots) ==
    Nodes(content[Lmd!Unnamed])
        \o [i \in DOMAIN Held(roots) |-> [key |-> Held(roots)[i], is |-> "database", root |-> roots[Held(roots)[i]]]]

(* The databases that have a root, each once.                              *)
LEMMA HeldFacts ==
    ASSUME NEW roots
    PROVE  Once(Held(roots)) /\ Range(Held(roots)) = {of \in Named : roots[of] # 0}
<1> DEFINE list == NamesInOrder
           u == [i \in DOMAIN list |-> IF roots[list[i]] # 0 THEN <<list[i]>> ELSE <<>>]
<1>1. Held(roots) = FlattenSeq(u)
  BY ReadersFlatten DEF Held, Those, When
<1>2. /\ DOMAIN list = 1..4 /\ Len(list) = 4
      /\ list[1] = "bodies.v1" /\ list[2] = "bodies.v2" /\ list[3] = "metadata.v1" /\ list[4] = "metadata.v2"
  BY DEF NamesInOrder
<1>3. Once(list)
  <2>1. list = [i \in 1..4 |-> list[i]]
    BY DEF NamesInOrder
  <2>2. IsList(list)
    <3> HIDE DEF list
    <3> QED
      BY <2>1, MadeIsList
  <2>3. \A i, j \in 1..Len(list) : i < j => list[i] # list[j]
    <3> HIDE DEF list
    <3>1. \A i \in 1..4 : i = 1 \/ i = 2 \/ i = 3 \/ i = 4
      OBVIOUS
    <3> QED
      BY <1>2, <3>1
  <2> QED
    BY <2>2, <2>3 DEF Once
<1>4. /\ u = [i \in DOMAIN list |-> u[i]]
      /\ \A i \in DOMAIN list : u[i] \in {<<>>, <<list[i]>>} /\ (u[i] # <<>> <=> roots[list[i]] # 0)
  <2>1. \A i \in DOMAIN list : u[i] = IF roots[list[i]] # 0 THEN <<list[i]>> ELSE <<>>
    OBVIOUS
  <2>2. \A x : <<x>> # <<>>
    BY ShortLists
  <2>3. u = [i \in DOMAIN list |-> u[i]]
    OBVIOUS
  <2> HIDE DEF u, list
  <2> QED
    BY <2>1, <2>2, <2>3
<1> HIDE DEF u, list
<1>5. /\ Once(FlattenSeq(u))
      /\ Range(FlattenSeq(u)) = {list[i] : i \in {k \in DOMAIN list : u[k] # <<>>}}
  BY <1>3, <1>4, OnceChosen
<1>6. {list[i] : i \in {k \in DOMAIN list : u[k] # <<>>}} = {of \in Named : roots[of] # 0}
  <2>1. Named = {list[k] : k \in 1..4}
    <3>1. \A i \in 1..4 : i = 1 \/ i = 2 \/ i = 3 \/ i = 4
      OBVIOUS
    <3> QED
      BY <1>2, <3>1 DEF Named, Lmd!METADATA, Lmd!BODIES
  <2> QED
    BY <1>2, <1>4, <2>1
<1> QED
  BY <1>1, <1>5, <1>6

(* A root is of a page, or it is none. *)
IsRoot(root) == root = 0 \/ root \in Pages

(* What the main tree has.                                                 *)
LEMMA MainFacts ==
    ASSUME NEW C, Changing(C), NEW content, Content(content[Lmd!Unnamed], C),
           NEW roots, \A of \in Named : IsRoot(roots[of])
    PROVE  LET nodes == MainNodes(content, roots)
               records == content[Lmd!Unnamed]
           IN  /\ Once(nodes) /\ \A x \in Range(nodes) : IsNode(x, C)
               /\ Range(nodes) = {ValueNode(key, records[key]) : key \in DOMAIN records}
                                 \cup {RootNode(of, roots[of]) : of \in {n \in Named : roots[n] # 0}}
<1> DEFINE records == content[Lmd!Unnamed]
           held == Held(roots)
           ends == [i \in DOMAIN held |-> RootNode(held[i], roots[held[i]])]
<1>1. /\ Once(Nodes(records))
      /\ Range(Nodes(records)) = {ValueNode(key, records[key]) : key \in DOMAIN records}
      /\ \A x \in Range(Nodes(records)) : IsNode(x, C)
  BY NodesFacts
<1>2. MainNodes(content, roots) = Nodes(records) \o ends
  BY DEF MainNodes, RootNode
<1>3. Once(held) /\ Range(held) = {of \in Named : roots[of] # 0}
  BY HeldFacts
<1> HIDE DEF held, records
<1>4. IsList(held) /\ DOMAIN held = 1..Len(held) /\ Len(held) \in Nat /\ Range(held) = {held[i] : i \in 1..Len(held)}
  BY <1>3, ListFacts DEF Once
<1>5. ends = [i \in 1..Len(held) |-> ends[i]] /\ \A i \in 1..Len(held) : ends[i] = RootNode(held[i], roots[held[i]])
  BY <1>4
<1> HIDE DEF ends
<1>6. IsList(ends) /\ Len(ends) = Len(held)
  BY <1>4, <1>5, MadeIsList
<1>7. Once(ends)
  <2> SUFFICES ASSUME NEW i \in 1..Len(held), NEW j \in 1..Len(held), i < j PROVE ends[i] # ends[j]
    BY <1>6 DEF Once
  <2>1. held[i] # held[j]
    BY <1>3 DEF Once
  <2>2. ends[i].key = held[i] /\ ends[j].key = held[j]
    BY <1>5 DEF RootNode
  <2> QED
    BY <2>1, <2>2
<1>8. Range(ends) = {RootNode(of, roots[of]) : of \in {n \in Named : roots[n] # 0}}
  <2>1. Range(ends) = {ends[i] : i \in 1..Len(held)}
    BY <1>6, ListFacts
  <2> QED
    BY <1>3, <1>4, <1>5, <2>1
<1>9. \A x \in Range(ends) : IsNode(x, C)
  <2> SUFFICES ASSUME NEW of \in Named, roots[of] # 0 PROVE IsNode(RootNode(of, roots[of]), C)
    BY <1>8
  <2>1. roots[of] \in Pages
    BY DEF IsRoot
  <2> QED
    BY <2>1 DEF IsNode
<1>10. Range(Nodes(records)) \cap Range(ends) = {}
  <2> SUFFICES ASSUME NEW x \in Range(Nodes(records)), x \in Range(ends) PROVE FALSE
    OBVIOUS
  <2>1. x.is = "value"
    BY <1>1 DEF ValueNode
  <2>2. x.is = "database"
    BY <1>8 DEF RootNode
  <2> QED
    BY <2>1, <2>2
<1>11. Once(Nodes(records) \o ends) /\ Range(Nodes(records) \o ends) = Range(Nodes(records)) \cup Range(ends)
  BY <1>1, <1>7, <1>10, OnceJoin
<1> QED
  BY <1>1, <1>2, <1>8, <1>9, <1>11 DEF records

AtMost(S, n) == IsFiniteSet(S) /\ Cardinality(S) <= n

(* One more page makes at most one more.                                   *)
LEMMA OneMorePage ==
    ASSUME NEW S, NEW n \in Nat, AtMost(S, n), NEW x
    PROVE  AtMost(S \cup {x}, n + 1)
<1>1. IsFiniteSet(S) /\ Cardinality(S) <= n /\ Cardinality(S) \in Nat
  BY FS_CardinalityType DEF AtMost
<1>2. IsFiniteSet(S \cup {x}) /\ Cardinality(S \cup {x}) = IF x \in S THEN Cardinality(S) ELSE Cardinality(S) + 1
  BY <1>1, FS_AddElement
<1> QED
  BY <1>1, <1>2 DEF AtMost

(* Five of them are five at most.                                          *)
LEMMA FivePages ==
    \A a, b, c, d, e : AtMost({a, b, c, d, e}, 5)
<1>1. ASSUME NEW S, NEW x, AtMost(S, 1)
      PROVE  AtMost(S \cup {x}, 2)
  <2>1. 1 + 1 = 2
    OBVIOUS
  <2>2. AtMost(S \cup {x}, 1 + 1)
    BY <1>1, OneMorePage
  <2> QED
    BY <2>1, <2>2
<1>2. ASSUME NEW S, NEW x, AtMost(S, 2)
      PROVE  AtMost(S \cup {x}, 3)
  <2>1. 2 + 1 = 3
    OBVIOUS
  <2>2. AtMost(S \cup {x}, 2 + 1)
    BY <1>2, OneMorePage
  <2> QED
    BY <2>1, <2>2
<1>3. ASSUME NEW S, NEW x, AtMost(S, 3)
      PROVE  AtMost(S \cup {x}, 4)
  <2>1. 3 + 1 = 4
    OBVIOUS
  <2>2. AtMost(S \cup {x}, 3 + 1)
    BY <1>3, OneMorePage
  <2> QED
    BY <2>1, <2>2
<1>4. ASSUME NEW S, NEW x, AtMost(S, 4)
      PROVE  AtMost(S \cup {x}, 5)
  <2>1. 4 + 1 = 5
    OBVIOUS
  <2>2. AtMost(S \cup {x}, 4 + 1)
    BY <1>4, OneMorePage
  <2> QED
    BY <2>1, <2>2
<1> SUFFICES ASSUME NEW a, NEW b, NEW c, NEW d, NEW e
             PROVE  AtMost({a, b, c, d, e}, 5)
  OBVIOUS
<1> DEFINE s1 == {a}
           s2 == s1 \cup {b}
           s3 == s2 \cup {c}
           s4 == s3 \cup {d}
           s5 == s4 \cup {e}
<1>5. IsFiniteSet(s1) /\ Cardinality(s1) = 1
  BY FS_Singleton
<1>6. s5 = {a, b, c, d, e}
  OBVIOUS
<1>7. AtMost(s1, 1)
  <2> HIDE DEF s1
  <2> QED
    BY <1>5 DEF AtMost
<1>8. AtMost(s5, 5)
  <2> HIDE DEF s1
  <2>1. AtMost(s2, 2)
    BY <1>1, <1>7
  <2>2. AtMost(s3, 3)
    BY <1>2, <2>1, Zenon
  <2>3. AtMost(s4, 4)
    BY <1>3, <2>2, Zenon
  <2> QED
    BY <1>4, <2>3, Zenon
<1> HIDE DEF s5
<1> QED
  BY <1>6, <1>8

(* Five pages are in use at most. *)
Few(pages) == AtMost(pages, 5)

Slot(txn) == (txn % 2) + 1
OtherSlot(txn) == 2 - (txn % 2)

(* The meta page of the last commit, and beside it an older one, if any. *)
IsOlder(meta, txn) ==
    \E older \in 0..txn, was \in Pages \cup {0} : meta = Meta(older, was) /\ (Slot(txn) = 2 => older < txn)

MetasOf(store, root) ==
    LET txn == store.state.txn
        one == store.metas[Slot(txn)]
        two == store.metas[OtherSlot(txn)]
    IN  /\ store.metas = <<store.metas[1], store.metas[2]>>
        /\ one = Meta(txn, root)
        /\ two = Torn \/ IsOlder(two, txn)

(* The trees of the last commit stand on pages of their own. *)
TreesOf(store, root) ==
    LET content == store.state.content
        roots == store.state.roots
        main == MainNodes(content, roots)
    IN  /\ \/ root = 0 /\ main = <<>>
           \/ root \in DOMAIN store.pages /\ store.pages[root] = Leaf(main)
        /\ \A of \in Named :
              \/ roots[of] = 0 /\ content[of] = NoRecords
              \/ roots[of] \in DOMAIN store.pages /\ store.pages[roots[of]] = Leaf(Nodes(content[of]))

UsedIs(store, root) ==
    LET roots == store.state.roots
    IN  /\ \A p \in store.state.used : p \in {0, root} \/ \E of \in Named : p = roots[of]
        /\ root # 0 => root \in store.state.used
        /\ \A of \in Named : roots[of] # 0 => roots[of] \in store.state.used
        /\ Few(store.state.used) /\ Few(store.state.before)

(* What a store is after a number of these changes. *)
IsPageStore(store, root, n, C) ==
    /\ store = [metas |-> store.metas, pages |-> store.pages, state |-> store.state]
    /\ store.state.txn \in 0..n /\ IsRoot(root)
    /\ DOMAIN store.pages \subseteq Pages /\ \A p \in DOMAIN store.pages : IsLeaf(store.pages[p], C)
    /\ store.state.content = [of \in Named \cup {Lmd!Unnamed} |-> store.state.content[of]]
    /\ \A of \in Named \cup {Lmd!Unnamed} : Content(store.state.content[of], C)
    /\ \A of \in Named : IsRoot(store.state.roots[of])
    /\ MetasOf(store, root) /\ TreesOf(store, root) /\ UsedIs(store, root)

(* A new store is one.                                                     *)
LEMMA CreatedKept ==
    ASSUME NEW C, Changing(C)
    PROVE  IsPageStore(Created, 0, 0, C)
<1> DEFINE st == Created.state
<1>1. /\ Created = [metas |-> Created.metas, pages |-> Created.pages, state |-> Created.state]
      /\ Created.metas = <<Meta(0, 0), Meta(0, 0)>> /\ DOMAIN Created.pages = {}
      /\ st.txn = 0 /\ st.content = [of \in Named \cup {Lmd!Unnamed} |-> NoRecords]
      /\ st.roots = [of \in Named |-> 0] /\ st.used = {} /\ st.before = {}
  BY DEF Created
<1> HIDE DEF st
<1>2. \A of \in Named \cup {Lmd!Unnamed} : st.content[of] = NoRecords
  BY <1>1
<1>3. \A of \in Named : st.roots[of] = 0
  BY <1>1
<1>4. Content(NoRecords, C)
  <2>1. DOMAIN NoRecords = {}
    BY DEF NoRecords
  <2>2. NoRecords = [key \in DOMAIN NoRecords |-> NoRecords[key]]
    BY DEF NoRecords
  <2> QED
    BY <2>1, <2>2, FS_EmptySet DEF Content
<1>5. MainNodes(st.content, st.roots) = <<>>
  <2>1. Content(st.content[Lmd!Unnamed], C) /\ \A of \in Named : IsRoot(st.roots[of])
    BY <1>2, <1>3, <1>4 DEF IsRoot
  <2>2. DOMAIN st.content[Lmd!Unnamed] = {}
    BY <1>2 DEF NoRecords
  <2> DEFINE main == MainNodes(st.content, st.roots)
  <2>3. Once(main) /\ Range(main) = {ValueNode(key, st.content[Lmd!Unnamed][key]) : key \in DOMAIN st.content[Lmd!Unnamed]}
                         \cup {RootNode(of, st.roots[of]) : of \in {n \in Named : st.roots[n] # 0}}
    BY <2>1, MainFacts
  <2> HIDE DEF main
  <2>4. Range(main) = {}
    BY <1>3, <2>2, <2>3
  <2>5. main = <<>>
    BY <2>3, <2>4, ListFacts DEF Once
  <2> QED
    BY <2>5 DEF main
<1>6. MetasOf(Created, 0)
  <2>1. Slot(0) = 1 /\ OtherSlot(0) = 2
    BY DEF Slot, OtherSlot
  <2>2. Created.state.txn = 0
    BY <1>1 DEF st
  <2>3. Created.metas[1] = Meta(0, 0) /\ Created.metas[2] = Meta(0, 0)
    BY <1>1
  <2>4. IsOlder(Meta(0, 0), 0)
    <3>1. 0 \in 0..0 /\ 0 \in Pages \cup {0} /\ Slot(0) # 2
      BY <2>1
    <3>2. \E older \in 0..0, was \in Pages \cup {0} : Meta(0, 0) = Meta(older, was)
      BY <3>1, Zenon
    <3> QED
      BY <3>1, <3>2 DEF IsOlder
  <2> QED
    BY <1>1, <2>1, <2>2, <2>3, <2>4 DEF MetasOf
<1>7. TreesOf(Created, 0)
  BY <1>2, <1>3, <1>5 DEF TreesOf, st
<1>8. UsedIs(Created, 0)
  <2>1. Few({})
    BY FS_EmptySet DEF Few, AtMost
  <2> QED
    BY <1>1, <1>3, <2>1 DEF UsedIs, st
<1> QED
  BY <1>1, <1>2, <1>3, <1>4, <1>6, <1>7, <1>8 DEF IsPageStore, IsRoot, st

(* There are two pages that neither the last commit nor the one before it  *)
(* uses.                                                                   *)
LEMMA FreshPages ==
    ASSUME NEW used, NEW before, Few(used), Few(before)
    PROVE  LET unused == Pages \ (used \cup before)
               one == Lowest(unused)
               two == Lowest(unused \ {one})
           IN  one \in unused /\ two \in unused /\ one # two
<1> DEFINE unused == Pages \ (used \cup before)
<1>1. /\ IsFiniteSet(used) /\ Cardinality(used) <= 5 /\ Cardinality(used) \in Nat
      /\ IsFiniteSet(before) /\ Cardinality(before) <= 5 /\ Cardinality(before) \in Nat
  BY FS_CardinalityType DEF Few, AtMost
<1>2. AtMost(used \cup before, 10)
  <2>1. /\ IsFiniteSet(used \cup before)
        /\ Cardinality(used \cup before) = Cardinality(used) + Cardinality(before) - Cardinality(used \cap before)
    BY <1>1, FS_Union
  <2>2. Cardinality(used \cap before) \in Nat
    BY <1>1, FS_Subset, FS_CardinalityType
  <2>3. Cardinality(used \cup before) <= 10
    BY <1>1, <2>1, <2>2
  <2> QED
    BY <2>1, <2>3 DEF AtMost
<1>3. ASSUME NEW x
      PROVE  unused \ {x} # {}
  <2> SUFFICES ASSUME unused \ {x} = {} PROVE FALSE
    OBVIOUS
  <2> DEFINE all == (used \cup before) \cup {x}
  <2>1. AtMost(all, 11)
    <3>1. AtMost(all, 10 + 1)
      BY <1>2, OneMorePage
    <3> QED
      BY <3>1
  <2>2. Pages \in SUBSET all
    OBVIOUS
  <2> HIDE DEF all
  <2>3. IsFiniteSet(all) /\ Cardinality(all) <= 11
    BY <2>1 DEF AtMost
  <2>4. Cardinality(Pages) <= Cardinality(all)
    BY <2>2, <2>3, FS_Subset
  <2>5. Cardinality(Pages) \in Nat /\ Cardinality(all) \in Nat /\ Cardinality(Pages) >= 12
    BY <2>3, PagesAssumption, FS_CardinalityType
  <2> QED
    BY <2>3, <2>4, <2>5
<1>4. unused \in SUBSET Nat
  BY PagesAssumption
<1>5. ASSUME NEW S \in SUBSET Nat, S # {}
      PROVE  Lowest(S) \in S
  <2>1. \E p \in S : \A q \in S : p <= q
    BY <1>5, LeastOf
  <2> QED
    BY <2>1 DEF Lowest
<1> DEFINE one == Lowest(unused)
           rest == unused \ {one}
           two == Lowest(rest)
<1>6. one \in unused
  <2>1. unused # {}
    BY <1>3
  <2> HIDE DEF unused
  <2> QED
    BY <1>4, <1>5, <2>1
<1> HIDE DEF one
<1>7. two \in rest
  <2>1. rest \in SUBSET Nat /\ rest # {}
    BY <1>3, <1>4
  <2> HIDE DEF rest
  <2> QED
    BY <1>5, <2>1
<1> QED
  BY <1>6, <1>7 DEF one

(* The parts of a transaction. *)
ContentAfter(old, change) == [old.content EXCEPT ![change.of] = Changed(@, change)]
FreshOf(old) ==
    LET unused == Pages \ (old.used \cup old.before)
    IN  <<Lowest(unused), Lowest(unused \ {Lowest(unused)})>>
RootsAfter(old, change) ==
    [of \in Named |-> IF of # change.of THEN old.roots[of]
                      ELSE IF ContentAfter(old, change)[of] = NoRecords THEN 0 ELSE FreshOf(old)[2]]
CopiedBy(store, change) ==
    IF change.of \notin Named THEN store.pages
    ELSE With(store.pages, FreshOf(store.state)[2], Leaf(Nodes(ContentAfter(store.state, change)[change.of])))
MainAfter(old, change) == MainNodes(ContentAfter(old, change), RootsAfter(old, change))
WrittenBy(store, change) ==
    With(CopiedBy(store, change), FreshOf(store.state)[1], Leaf(MainAfter(store.state, change)))
RootAfter(old, change) == IF MainAfter(old, change) = <<>> THEN 0 ELSE FreshOf(old)[1]
StateAfter(old, change) ==
    [txn |-> old.txn + 1, content |-> ContentAfter(old, change), roots |-> RootsAfter(old, change),
     used |-> {RootAfter(old, change)} \cup {RootsAfter(old, change)[of] : of \in Named}, before |-> old.used]

(* A transaction is made of these.                                         *)
LEMMA TransactionIs ==
    ASSUME NEW store, NEW c
    PROVE  LET old == store.state
               next == Transaction(store, c)
               written == WrittenBy(store, c)
               slot == Slot(old.txn + 1)
           IN  /\ c.ends = "commit" => next = [metas |-> [store.metas EXCEPT ![slot] = Meta(old.txn + 1, RootAfter(old, c))],
                                               pages |-> written, state |-> StateAfter(old, c)]
               /\ c.ends = "before" => next = [store EXCEPT !.pages = written]
               /\ c.ends = "within" => next = [store EXCEPT !.pages = written, !.metas[slot] = Torn]
<1> DEFINE old == store.state
<1> DEFINE meta == Meta(old.txn + 1, RootAfter(old, c))
           slot == (meta.txn % 2) + 1
           used == {meta.root} \cup {RootsAfter(old, c)[of] : of \in Named}
<1>1. Transaction(store, c) =
        CASE c.ends = "commit" ->
                [metas |-> [store.metas EXCEPT ![slot] = meta], pages |-> WrittenBy(store, c),
                 state |-> [txn |-> meta.txn, content |-> ContentAfter(old, c), roots |-> RootsAfter(old, c),
                            used |-> used, before |-> old.used]]
          [] c.ends = "before" -> [store EXCEPT !.pages = WrittenBy(store, c)]
          [] c.ends = "within" -> [store EXCEPT !.pages = WrittenBy(store, c), !.metas[slot] = Torn]
  BY Zenon DEF Transaction, ContentAfter, FreshOf, RootsAfter, CopiedBy, MainAfter, MainNodes, Held, WrittenBy, RootAfter
<1>2. meta.txn = old.txn + 1 /\ meta.root = RootAfter(old, c)
  BY DEF Meta
<1> HIDE DEF meta
<1>3. slot = Slot(old.txn + 1)
  BY <1>2 DEF Slot
<1>4. StateAfter(old, c) = [txn |-> meta.txn, content |-> ContentAfter(old, c), roots |-> RootsAfter(old, c),
                            used |-> used, before |-> old.used]
  BY <1>2 DEF StateAfter
<1> HIDE DEF slot, used
<1>5. CASE c.ends = "commit"
  BY <1>1, <1>3, <1>4, <1>5 DEF meta
<1>6. CASE c.ends = "before"
  BY <1>1, <1>6
<1>7. CASE c.ends = "within"
  BY <1>1, <1>3, <1>7
<1> QED
  BY <1>5, <1>6, <1>7

(* What a transaction makes of the records and the roots.                  *)
LEMMA ChangedFacts ==
    ASSUME NEW C, Changing(C), NEW store, NEW root, NEW n \in Nat, IsPageStore(store, root, n, C), NEW c \in C
    PROVE  LET old == store.state
               content == ContentAfter(old, c)
               roots == RootsAfter(old, c)
               fresh == FreshOf(old)
           IN  /\ content = [of \in Named \cup {Lmd!Unnamed} |-> content[of]]
               /\ \A of \in Named \cup {Lmd!Unnamed} :
                     Content(content[of], C) /\ (of # c.of => content[of] = old.content[of])
               /\ fresh[1] \in Pages /\ fresh[2] \in Pages /\ fresh[1] # fresh[2]
               /\ \A p \in old.used : p # fresh[1] /\ p # fresh[2]
               /\ \A of \in Named :
                     /\ IsRoot(roots[of])
                     /\ of # c.of => roots[of] = old.roots[of]
                     /\ of = c.of => roots[of] = IF content[of] = NoRecords THEN 0 ELSE fresh[2]
<1> DEFINE old == store.state
           all == Named \cup {Lmd!Unnamed}
           content == ContentAfter(old, c)
           roots == RootsAfter(old, c)
           unused == Pages \ (old.used \cup old.before)
           fresh == FreshOf(old)
<1>1. /\ old.content = [of \in all |-> old.content[of]] /\ c.of \in all
      /\ \A of \in all : Content(old.content[of], C)
      /\ \A of \in Named : IsRoot(old.roots[of])
      /\ Few(old.used) /\ Few(old.before)
  BY DEF IsPageStore, UsedIs, Changing
<1>2. fresh[1] \in unused /\ fresh[2] \in unused /\ fresh[1] # fresh[2]
  <2>1. fresh[1] = Lowest(unused) /\ fresh[2] = Lowest(unused \ {Lowest(unused)})
    BY DEF FreshOf
  <2> HIDE DEF fresh
  <2> QED
    BY <1>1, <2>1, FreshPages
<1>3. /\ content = [of \in all |-> IF of = c.of THEN Changed(old.content[of], c) ELSE old.content[of]]
  <2> HIDE DEF old, all
  <2>1. content = [old.content EXCEPT ![c.of] = Changed(old.content[c.of], c)]
    BY DEF ContentAfter
  <2>2. DOMAIN old.content = all
    BY <1>1
  <2> QED
    BY <2>1, <2>2
<1>4. ASSUME NEW of \in all
      PROVE  Content(content[of], C) /\ (of # c.of => content[of] = old.content[of])
  <2>1. content[of] = IF of = c.of THEN Changed(old.content[of], c) ELSE old.content[of]
    BY <1>3
  <2>2. Content(Changed(old.content[of], c), C)
    BY <1>1, ChangedContent
  <2> HIDE DEF old, all, content
  <2> QED
    BY <1>1, <2>1, <2>2
<1>5. content = [of \in all |-> content[of]]
  <2> DEFINE e(of) == IF of = c.of THEN Changed(old.content[of], c) ELSE old.content[of]
  <2>1. content = [of \in all |-> e(of)]
    BY <1>3
  <2> HIDE DEF e, content
  <2> QED
    BY <2>1
<1>6. ASSUME NEW of \in Named
      PROVE  /\ of # c.of => roots[of] = old.roots[of]
             /\ of = c.of => roots[of] = IF content[of] = NoRecords THEN 0 ELSE fresh[2]
  BY DEF RootsAfter
<1>7. \A of \in Named : IsRoot(roots[of])
  <2> HIDE DEF roots, fresh, content
  <2> QED
    BY <1>1, <1>2, <1>6 DEF IsRoot
<1> HIDE DEF roots, fresh, content
<1>8. fresh[1] \in Pages /\ fresh[2] \in Pages /\ \A p \in old.used : p # fresh[1] /\ p # fresh[2]
  BY <1>2
<1> QED
  BY <1>2, <1>4, <1>5, <1>6, <1>7, <1>8 DEF roots, fresh, content

(* And of the pages.                                                       *)
LEMMA WrittenFacts ==
    ASSUME NEW C, Changing(C), NEW store, NEW root, NEW n \in Nat, IsPageStore(store, root, n, C), NEW c \in C
    PROVE  LET old == store.state
               pages == WrittenBy(store, c)
               fresh == FreshOf(old)
           IN  /\ DOMAIN pages \subseteq Pages /\ \A p \in DOMAIN pages : IsLeaf(pages[p], C)
               /\ \A p \in DOMAIN store.pages :
                     p # fresh[1] /\ p # fresh[2] => p \in DOMAIN pages /\ pages[p] = store.pages[p]
               /\ fresh[1] \in DOMAIN pages /\ pages[fresh[1]] = Leaf(MainAfter(old, c))
               /\ c.of \in Named =>
                     fresh[2] \in DOMAIN pages /\ pages[fresh[2]] = Leaf(Nodes(ContentAfter(old, c)[c.of]))
<1> DEFINE old == store.state
           content == ContentAfter(old, c)
           roots == RootsAfter(old, c)
           fresh == FreshOf(old)
           copied == CopiedBy(store, c)
           pages == WrittenBy(store, c)
           main == MainAfter(old, c)
           nodes == Nodes(content[c.of])
<1>1. /\ \A of \in Named \cup {Lmd!Unnamed} : Content(content[of], C)
      /\ fresh[1] \in Pages /\ fresh[2] \in Pages /\ fresh[1] # fresh[2]
      /\ \A of \in Named : IsRoot(roots[of])
  BY ChangedFacts
<1>2. DOMAIN store.pages \subseteq Pages /\ \A p \in DOMAIN store.pages : IsLeaf(store.pages[p], C)
  BY DEF IsPageStore
<1>3. IsLeaf(Leaf(main), C)
  <2>1. Once(main) /\ \A x \in Range(main) : IsNode(x, C)
    <3> HIDE DEF content, roots
    <3>1. main = MainNodes(content, roots)
      BY DEF MainAfter, content, roots
    <3> HIDE DEF main
    <3> QED
      BY <1>1, <3>1, MainFacts
  <2> HIDE DEF main
  <2> QED
    BY <2>1 DEF IsLeaf, Once
<1>4. IsLeaf(Leaf(nodes), C)
  <2>1. Content(content[c.of], C)
    BY <1>1 DEF Changing
  <2>2. Once(nodes) /\ \A x \in Range(nodes) : IsNode(x, C)
    <3> HIDE DEF content
    <3> QED
      BY <2>1, NodesFacts
  <2> HIDE DEF nodes
  <2> QED
    BY <2>2 DEF IsLeaf, Once
<1>5. copied = IF c.of \notin Named THEN store.pages ELSE With(store.pages, fresh[2], Leaf(nodes))
  BY DEF CopiedBy
<1>6. pages = With(copied, fresh[1], Leaf(main))
  BY DEF WrittenBy
<1> HIDE DEF content, roots, fresh, copied, pages, main, nodes
<1>7. /\ DOMAIN copied \subseteq Pages /\ \A p \in DOMAIN copied : IsLeaf(copied[p], C)
      /\ \A p \in DOMAIN store.pages : p # fresh[2] => p \in DOMAIN copied /\ copied[p] = store.pages[p]
      /\ c.of \in Named => fresh[2] \in DOMAIN copied /\ copied[fresh[2]] = Leaf(nodes)
  <2>1. CASE c.of \notin Named
    BY <1>2, <1>5, <2>1
  <2>2. CASE c.of \in Named
    <3>1. /\ DOMAIN copied = DOMAIN store.pages \cup {fresh[2]} /\ copied[fresh[2]] = Leaf(nodes)
          /\ \A p \in DOMAIN store.pages : p # fresh[2] => copied[p] = store.pages[p]
      BY <1>5, <2>2 DEF With
    <3> QED
      BY <1>1, <1>2, <1>4, <3>1
  <2> QED
    BY <2>1, <2>2
<1>8. /\ DOMAIN pages = DOMAIN copied \cup {fresh[1]} /\ pages[fresh[1]] = Leaf(main)
      /\ \A p \in DOMAIN copied : p # fresh[1] => pages[p] = copied[p]
  BY <1>6 DEF With
<1>9. DOMAIN pages \subseteq Pages /\ \A p \in DOMAIN pages : IsLeaf(pages[p], C)
  BY <1>1, <1>3, <1>7, <1>8
<1>10. \A p \in DOMAIN store.pages :
          p # fresh[1] /\ p # fresh[2] => p \in DOMAIN pages /\ pages[p] = store.pages[p]
  BY <1>7, <1>8
<1>11. c.of \in Named => fresh[2] \in DOMAIN pages /\ pages[fresh[2]] = Leaf(nodes)
  BY <1>1, <1>7, <1>8
<1> QED
  BY <1>8, <1>9, <1>10, <1>11 DEF content, fresh, pages, main, nodes

(* Two slots take turns.                                                   *)
LEMMA SlotsTurn ==
    ASSUME NEW txn \in Nat
    PROVE  /\ Slot(txn + 1) = OtherSlot(txn) /\ OtherSlot(txn + 1) = Slot(txn)
           /\ Slot(txn) \in {1, 2} /\ OtherSlot(txn) \in {1, 2} /\ Slot(txn) # OtherSlot(txn)
BY DEF Slot, OtherSlot

(* A transaction that is cut leaves what was committed.                    *)
LEMMA CutKeeps ==
    ASSUME NEW C, Changing(C), NEW store, NEW root, NEW n \in Nat, IsPageStore(store, root, n, C), NEW c \in C,
           NEW next, next.state = store.state, next.pages = WrittenBy(store, c),
           next = [metas |-> next.metas, pages |-> next.pages, state |-> next.state],
           MetasOf(next, root)
    PROVE  IsPageStore(next, root, n + 1, C)
<1> DEFINE old == store.state
           fresh == FreshOf(old)
           pages == next.pages
<1>1. /\ DOMAIN pages \subseteq Pages /\ \A p \in DOMAIN pages : IsLeaf(pages[p], C)
      /\ \A p \in DOMAIN store.pages :
            p # fresh[1] /\ p # fresh[2] => p \in DOMAIN pages /\ pages[p] = store.pages[p]
  BY WrittenFacts
<1>2. \A p \in old.used : p # fresh[1] /\ p # fresh[2]
  BY ChangedFacts
<1>3. TreesOf(store, root) /\ UsedIs(store, root) /\ DOMAIN store.pages \subseteq Pages
  BY DEF IsPageStore
<1>4. \A p : p = root \/ (\E of \in Named : p = old.roots[of]) => p = 0 \/ p \in old.used
  BY <1>3 DEF UsedIs
<1> HIDE DEF fresh, pages
<1>5. TreesOf(next, root)
  <2>1. 0 \notin DOMAIN store.pages
    BY <1>3, PagesAssumption
  <2>2. \A p : p = root \/ (\E of \in Named : p = old.roots[of]) =>
           (p \in DOMAIN store.pages => p \in DOMAIN pages /\ pages[p] = store.pages[p])
    BY <1>1, <1>2, <1>4, <2>1
  <2> QED
    BY <1>3, <2>2 DEF TreesOf, pages
<1>6. UsedIs(next, root)
  BY <1>3 DEF UsedIs
<1>7. store.state.txn \in 0..(n + 1)
  BY DEF IsPageStore
<1> QED
  BY <1>1, <1>5, <1>6, <1>7 DEF IsPageStore, pages

(* One that is committed puts what it changed in its place.                *)
LEMMA CommitKeeps ==
    ASSUME NEW C, Changing(C), NEW store, NEW root, NEW n \in Nat, IsPageStore(store, root, n, C), NEW c \in C,
           NEW next, next.state = StateAfter(store.state, c), next.pages = WrittenBy(store, c),
           next = [metas |-> next.metas, pages |-> next.pages, state |-> next.state],
           MetasOf(next, RootAfter(store.state, c))
    PROVE  IsPageStore(next, RootAfter(store.state, c), n + 1, C)
<1> DEFINE old == store.state
           fresh == FreshOf(old)
           pages == next.pages
           content == ContentAfter(old, c)
           roots == RootsAfter(old, c)
           main == MainAfter(old, c)
           top == RootAfter(old, c)
<1>1. /\ DOMAIN pages \subseteq Pages /\ \A p \in DOMAIN pages : IsLeaf(pages[p], C)
      /\ \A p \in DOMAIN store.pages :
            p # fresh[1] /\ p # fresh[2] => p \in DOMAIN pages /\ pages[p] = store.pages[p]
      /\ fresh[1] \in DOMAIN pages /\ pages[fresh[1]] = Leaf(main)
      /\ c.of \in Named => fresh[2] \in DOMAIN pages /\ pages[fresh[2]] = Leaf(Nodes(content[c.of]))
  BY WrittenFacts
<1>2. /\ content = [of \in Named \cup {Lmd!Unnamed} |-> content[of]]
      /\ \A of \in Named \cup {Lmd!Unnamed} :
            Content(content[of], C) /\ (of # c.of => content[of] = old.content[of])
      /\ fresh[1] \in Pages /\ fresh[2] \in Pages
      /\ \A p \in old.used : p # fresh[1] /\ p # fresh[2]
      /\ \A of \in Named :
            /\ IsRoot(roots[of])
            /\ of # c.of => roots[of] = old.roots[of]
            /\ of = c.of => roots[of] = IF content[of] = NoRecords THEN 0 ELSE fresh[2]
  BY ChangedFacts, SMTT(30)
<1>3. /\ TreesOf(store, root) /\ UsedIs(store, root) /\ DOMAIN store.pages \subseteq Pages /\ old.txn \in 0..n
  BY DEF IsPageStore
<1>4. /\ next.state.txn = old.txn + 1 /\ next.state.content = content /\ next.state.roots = roots
      /\ next.state.used = {top} \cup {roots[of] : of \in Named} /\ next.state.before = old.used
  BY DEF StateAfter
<1>5. top = IF main = <<>> THEN 0 ELSE fresh[1]
  BY DEF RootAfter
<1>6. main = MainNodes(content, roots)
  BY DEF MainAfter
<1> HIDE DEF fresh, pages, content, roots, main, top
<1>7. ASSUME NEW of \in Named
      PROVE  \/ roots[of] = 0 /\ content[of] = NoRecords
             \/ roots[of] \in DOMAIN pages /\ pages[roots[of]] = Leaf(Nodes(content[of]))
  <2>1. CASE of = c.of
    BY <1>1, <1>2, <2>1
  <2>2. CASE of # c.of
    <3>1. \/ old.roots[of] = 0 /\ old.content[of] = NoRecords
          \/ old.roots[of] \in DOMAIN store.pages /\ store.pages[old.roots[of]] = Leaf(Nodes(old.content[of]))
      BY <1>3 DEF TreesOf
    <3>2. roots[of] = old.roots[of] /\ content[of] = old.content[of]
      BY <1>2, <2>2
    <3>3. old.roots[of] \in DOMAIN store.pages => old.roots[of] \in old.used
      <4>1. 0 \notin DOMAIN store.pages
        BY <1>3, PagesAssumption
      <4> QED
        BY <1>3, <4>1 DEF UsedIs
    <3> QED
      BY <1>1, <1>2, <3>1, <3>2, <3>3
  <2> QED
    BY <2>1, <2>2
<1>8. TreesOf(next, top)
  <2>1. \/ top = 0 /\ main = <<>>
        \/ top \in DOMAIN pages /\ pages[top] = Leaf(main)
    BY <1>1, <1>5
  <2> QED
    BY <1>4, <1>6, <1>7, <2>1 DEF TreesOf, pages
<1>9. UsedIs(next, top)
  <2> DEFINE s5 == {top, roots["bodies.v1"], roots["bodies.v2"], roots["metadata.v1"], roots["metadata.v2"]}
  <2>1. next.state.used = s5
    BY <1>4 DEF Named, Lmd!METADATA, Lmd!BODIES
  <2>2. Few(next.state.used)
    <3>1. AtMost(s5, 5)
      BY FivePages, Zenon
    <3> HIDE DEF s5
    <3> QED
      BY <2>1, <3>1 DEF Few
  <2> HIDE DEF s5
  <2>3. Few(next.state.before)
    BY <1>3, <1>4 DEF UsedIs
  <2> QED
    BY <1>4, <2>2, <2>3 DEF UsedIs
<1>10. IsRoot(top)
  BY <1>2, <1>5 DEF IsRoot
<1>11. next.state.txn \in 0..(n + 1)
  BY <1>3, <1>4
<1> QED
  BY <1>1, <1>2, <1>4, <1>8, <1>9, <1>10, <1>11 DEF IsPageStore, pages, top

(* A transaction leaves a store that is one.                               *)
LEMMA TransactionKeeps ==
    ASSUME NEW C, Changing(C), NEW store, NEW root, NEW n \in Nat, IsPageStore(store, root, n, C), NEW c \in C
    PROVE  \E r : IsPageStore(Transaction(store, c), r, n + 1, C)
<1> DEFINE old == store.state
           next == Transaction(store, c)
           slot == Slot(old.txn + 1)
           top == RootAfter(old, c)
           pages == WrittenBy(store, c)
<1>1. /\ store = [metas |-> store.metas, pages |-> store.pages, state |-> store.state]
      /\ old.txn \in Nat /\ MetasOf(store, root) /\ IsRoot(root)
  BY DEF IsPageStore
<1>2. c.ends \in {"commit", "before", "within"}
  BY DEF Changing
<1>3. /\ c.ends = "commit" => next = [metas |-> [store.metas EXCEPT ![slot] = Meta(old.txn + 1, top)],
                                      pages |-> pages, state |-> StateAfter(old, c)]
      /\ c.ends = "before" => next = [store EXCEPT !.pages = pages]
      /\ c.ends = "within" => next = [store EXCEPT !.pages = pages, !.metas[slot] = Torn]
  BY TransactionIs, Zenon
<1>4. /\ slot = OtherSlot(old.txn) /\ OtherSlot(old.txn + 1) = Slot(old.txn)
      /\ Slot(old.txn) \in {1, 2} /\ OtherSlot(old.txn) \in {1, 2} /\ Slot(old.txn) # OtherSlot(old.txn)
  BY <1>1, SlotsTurn
<1>5. /\ store.metas = <<store.metas[1], store.metas[2]>>
      /\ store.metas[Slot(old.txn)] = Meta(old.txn, root)
      /\ store.metas[OtherSlot(old.txn)] = Torn \/ IsOlder(store.metas[OtherSlot(old.txn)], old.txn)
  BY <1>1 DEF MetasOf
<1>6. ASSUME NEW meta
      PROVE  LET metas == [store.metas EXCEPT ![slot] = meta]
             IN  /\ metas = <<metas[1], metas[2]>> /\ metas[slot] = meta
                 /\ metas[Slot(old.txn)] = store.metas[Slot(old.txn)]
  <2> DEFINE a == store.metas[1]
             b == store.metas[2]
             metas == [<<a, b>> EXCEPT ![slot] = meta]
  <2>1. store.metas = <<a, b>>
    BY <1>5
  <2>2. slot \in {1, 2} /\ Slot(old.txn) \in {1, 2} /\ slot # Slot(old.txn)
    BY <1>4
  <2> HIDE DEF a, b, slot, old
  <2>3. CASE slot = 1
    <3>1. metas = <<meta, b>> /\ Slot(old.txn) = 2
      BY <2>2, <2>3
    <3> QED
      BY <2>1, <2>3, <3>1
  <2>4. CASE slot = 2
    <3>1. metas = <<a, meta>> /\ Slot(old.txn) = 1
      BY <2>2, <2>4
    <3> QED
      BY <2>1, <2>4, <3>1
  <2> QED
    BY <2>2, <2>3, <2>4
<1> HIDE DEF next, slot, pages, top
<1>7. CASE c.ends = "commit"
  <2> DEFINE metas == [store.metas EXCEPT ![slot] = Meta(old.txn + 1, top)]
  <2>1. next = [metas |-> metas, pages |-> pages, state |-> StateAfter(old, c)]
    BY <1>3, <1>7
  <2>2. metas = <<metas[1], metas[2]>> /\ metas[slot] = Meta(old.txn + 1, top) /\ metas[Slot(old.txn)] = Meta(old.txn, root)
    BY <1>5, <1>6
  <2> HIDE DEF metas
  <2>3. next.metas = metas /\ next.pages = pages /\ next.state = StateAfter(old, c)
        /\ next = [metas |-> next.metas, pages |-> next.pages, state |-> next.state]
    BY <2>1
  <2>4. next.state.txn = old.txn + 1
    BY <2>3 DEF StateAfter
  <2>5. IsOlder(Meta(old.txn, root), old.txn + 1)
    <3>1. old.txn \in 0..(old.txn + 1) /\ root \in Pages \cup {0} /\ old.txn < old.txn + 1
      BY <1>1 DEF IsRoot
    <3> QED
      BY <3>1, Zenon DEF IsOlder
  <2>6. MetasOf(next, top)
    BY <1>4, <2>2, <2>3, <2>4, <2>5 DEF MetasOf, slot
  <2>7. IsPageStore(next, top, n + 1, C)
    BY <2>3, <2>6, CommitKeeps DEF pages, top
  <2> QED
    BY <2>7 DEF next
<1>8. CASE c.ends = "before"
  <2>1. next = [metas |-> store.metas, pages |-> pages, state |-> old]
    BY <1>1, <1>3, <1>8
  <2>2. next.metas = store.metas /\ next.pages = pages /\ next.state = old
        /\ next = [metas |-> next.metas, pages |-> next.pages, state |-> next.state]
    BY <2>1
  <2>3. MetasOf(next, root)
    BY <1>5, <2>2 DEF MetasOf
  <2>4. IsPageStore(next, root, n + 1, C)
    BY <2>2, <2>3, CutKeeps DEF pages
  <2> QED
    BY <2>4 DEF next
<1>9. CASE c.ends = "within"
  <2> DEFINE metas == [store.metas EXCEPT ![slot] = Torn]
  <2>1. next = [metas |-> metas, pages |-> pages, state |-> old]
    BY <1>1, <1>3, <1>9
  <2>2. metas = <<metas[1], metas[2]>> /\ metas[slot] = Torn /\ metas[Slot(old.txn)] = Meta(old.txn, root)
    BY <1>5, <1>6
  <2> HIDE DEF metas
  <2>3. next.metas = metas /\ next.pages = pages /\ next.state = old
        /\ next = [metas |-> next.metas, pages |-> next.pages, state |-> next.state]
    BY <2>1
  <2>4. MetasOf(next, root)
    BY <1>4, <2>2, <2>3 DEF MetasOf
  <2>5. IsPageStore(next, root, n + 1, C)
    BY <2>3, <2>4, CutKeeps DEF pages
  <2> QED
    BY <2>5 DEF next
<1> QED
  BY <1>2, <1>7, <1>8, <1>9

(* What Init says of a page store. *)
ChosenPages(n) ==
    /\ format \in PageFormats /\ format \in DOMAIN Cells
    /\ n \in 0..Lengths[format] /\ doc \in [1..n -> DOMAIN Cells[format]]

Transacted(n) == {Cells[format][doc[i]] : i \in 1..n}

(* What its transactions change is of its databases.                       *)
LEMMA ChosenChange ==
    ASSUME NEW n, ChosenPages(n)
    PROVE  /\ Changing(Transacted(n)) /\ n \in Nat /\ DOMAIN doc = 1..n /\ Len(doc) = n
           /\ \A txn \in 0..n, root \in Pages \cup {0} : Meta(txn, root) \notin {Torn, Odd}
<1>1. /\ \A i, j \in DOMAIN Cells[format] :
            LET one == Cells[format][i]
                two == Cells[format][j]
            IN  /\ one.of \in Named \cup {Lmd!Unnamed} /\ one.ends \in {"commit", "before", "within"}
                /\ Order(one.key) \in Nat /\ (Order(one.key) = Order(two.key) => one.key = two.key)
      /\ \A txn \in 0..Lengths[format], root \in Pages \cup {0} : Meta(txn, root) \notin {Torn, Odd}
  BY ChangesAssumption DEF ChosenPages
<1>2. Lengths[format] \in Nat /\ n \in 0..Lengths[format] /\ doc \in [1..n -> DOMAIN Cells[format]]
  BY Bounds DEF ChosenPages
<1>3. \A i \in 1..n : doc[i] \in DOMAIN Cells[format]
  BY <1>2
<1>4. Changing(Transacted(n))
  BY <1>1, <1>3 DEF Changing, Transacted
<1>5. \A txn \in 0..n, root \in Pages \cup {0} : Meta(txn, root) \notin {Torn, Odd}
  <2> SUFFICES ASSUME NEW txn \in 0..n, NEW root \in Pages \cup {0} PROVE Meta(txn, root) \notin {Torn, Odd}
    OBVIOUS
  <2>1. txn \in 0..Lengths[format]
    BY <1>2
  <2> QED
    BY <1>1, <2>1
<1>6. Len(doc) = n
  <2>1. doc = [i \in 1..n |-> doc[i]] /\ n \in Nat
    BY <1>2
  <2> QED
    BY <2>1, MadeIsList
<1> QED
  BY <1>2, <1>4, <1>5, <1>6

(* What is left of it is such a store.                                     *)
LEMMA PageFileIs ==
    ASSUME NEW n, ChosenPages(n)
    PROVE  \E root : IsPageStore(PageFile, root, n, Transacted(n))
<1> DEFINE C == Transacted(n)
           Is(g, k) == g = [i \in 0..k |-> IF i = 0 THEN Created ELSE Transaction(g[i - 1], Cells[format][doc[i]])]
           T == {k \in 0..n : \E g : Is(g, k)}
<1>1. Changing(C) /\ n \in Nat /\ DOMAIN doc = 1..n /\ Len(doc) = n
  BY ChosenChange
<1>2. T = 0..n
  <2>1. 0 \in T
    <3> DEFINE g == [i \in 0..0 |-> Created]
    <3>1. g = [i \in 0..0 |-> IF i = 0 THEN Created ELSE Transaction(g[i - 1], Cells[format][doc[i]])]
      <4>1. \A i \in 0..0 : i = 0
        OBVIOUS
      <4> QED
        BY <4>1
    <3> HIDE DEF g
    <3>2. Is(g, 0)
      BY <3>1
    <3>3. 0 \in 0..n
      BY <1>1
    <3> QED
      BY <3>2, <3>3
  <2>2. ASSUME NEW k \in 1..n, k - 1 \in T
        PROVE  k \in T
    <3>1. PICK g : Is(g, k - 1)
      BY <2>2
    <3> DEFINE h == [i \in 0..k |-> IF i < k THEN g[i] ELSE Transaction(g[k - 1], Cells[format][doc[k]])]
    <3>2. ASSUME NEW i \in 0..k
          PROVE  h[i] = IF i = 0 THEN Created ELSE Transaction(h[i - 1], Cells[format][doc[i]])
      <4>1. CASE i < k
        <5>1. h[i] = g[i] /\ (i # 0 => h[i - 1] = g[i - 1]) /\ i \in 0..(k - 1)
          BY <1>1, <4>1
        <5>2. g[i] = IF i = 0 THEN Created ELSE Transaction(g[i - 1], Cells[format][doc[i]])
          BY <3>1, <5>1
        <5> HIDE DEF h
        <5> QED
          BY <5>1, <5>2
      <4>2. CASE i = k
        <5>1. h[i] = Transaction(g[k - 1], Cells[format][doc[k]]) /\ h[i - 1] = g[i - 1] /\ i # 0
          BY <1>1, <4>2
        <5> HIDE DEF h
        <5> QED
          BY <4>2, <5>1
      <4> QED
        BY <1>1, <4>1, <4>2
    <3>3. h = [i \in 0..k |-> h[i]]
      OBVIOUS
    <3> HIDE DEF h
    <3>4. Is(h, k)
      <4> DEFINE e(i) == IF i = 0 THEN Created ELSE Transaction(h[i - 1], Cells[format][doc[i]])
      <4>1. \A i \in 0..k : h[i] = e(i)
        BY <3>2
      <4> HIDE DEF e
      <4>2. h = [i \in 0..k |-> e(i)]
        BY <3>3, <4>1
      <4> QED
        BY <4>2 DEF e
    <3>5. k \in 0..n
      BY <1>1
    <3> QED
      BY <3>4, <3>5
  <2>3. T \in SUBSET (0..n)
    OBVIOUS
  <2> HIDE DEF T
  <2> QED
    BY <1>1, <2>1, <2>2, <2>3, UpTo
<1> DEFINE after == CHOOSE after : Is(after, n)
<1>3. Is(after, n)
  <2>1. n \in T
    <3>1. n \in 0..n
      BY <1>1
    <3> HIDE DEF T
    <3> QED
      BY <1>2, <3>1
  <2>2. \E g : Is(g, n)
    BY <2>1
  <2> HIDE DEF Is
  <2> QED
    BY <2>2
<1>4. PageFile = after[n]
  BY <1>1 DEF PageFile
<1> HIDE DEF after
<1> DEFINE U == {k \in 0..n : \E root : IsPageStore(after[k], root, k, C)}
<1>5. U = 0..n
  <2>1. 0 \in U
    <3>1. 0 \in 0..n /\ after[0] = Created
      BY <1>1, <1>3
    <3> HIDE DEF C
    <3> QED
      BY <1>1, <3>1, CreatedKept
  <2>2. ASSUME NEW k \in 1..n, k - 1 \in U
        PROVE  k \in U
    <3>1. PICK root : IsPageStore(after[k - 1], root, k - 1, C)
      BY <2>2
    <3>2. after[k] = Transaction(after[k - 1], Cells[format][doc[k]]) /\ k - 1 \in Nat /\ k \in 0..n /\ (k - 1) + 1 = k
      BY <1>1, <1>3
    <3>3. Cells[format][doc[k]] \in C
      BY DEF Transacted
    <3> HIDE DEF C
    <3>4. \E r : IsPageStore(Transaction(after[k - 1], Cells[format][doc[k]]), r, (k - 1) + 1, C)
      BY <1>1, <3>1, <3>2, <3>3, TransactionKeeps
    <3> QED
      BY <3>2, <3>4
  <2>3. U \in SUBSET (0..n)
    OBVIOUS
  <2> HIDE DEF U
  <2> QED
    BY <1>1, <2>1, <2>2, <2>3, UpTo
<1>6. n \in U
  <2>1. n \in 0..n
    BY <1>1
  <2> HIDE DEF U
  <2> QED
    BY <1>5, <2>1
<1> QED
  BY <1>4, <1>6

(* ----------------------------------------------- how a page store is read -- *)

(* What the reader of pages has of the other readers.                      *)
LEMMA LmdShares ==
    /\ \A u : Lmd!Flattened(u) = FlattenSeq(u)
    /\ \A list : Lmd!Members(list) = {list[i] : i \in DOMAIN list}
    /\ \A c, s : Lmd!When(c, s) = IF c THEN s ELSE <<>>
BY DEF Lmd!Flattened, FlattenSeq, Lmd!Members, Lmd!When

(* Nodes that are each there once, and pages that are leaves. *)
AreNodes(nodes, C) == Once(nodes) /\ \A x \in Range(nodes) : IsNode(x, C)
AreLeaves(pages, C) == 0 \notin DOMAIN pages /\ \A p \in DOMAIN pages : IsLeaf(pages[p], C)

(* Under a page that has no children is that page alone.                   *)
LEMMA LeafAlone ==
    ASSUME NEW pages, NEW root \in DOMAIN pages, root # 0, \A p \in DOMAIN pages : pages[p].children = <<>>
    PROVE  Lmd!PagesFrom(pages, root) = <<root>>
<1> DEFINE P == DOMAIN pages
           Under(walk, spot) == [i \in DOMAIN pages[spot[1]].children |->
                            IF pages[spot[1]].children[i] \in P \ (spot[2] \cup {spot[1]})
                            THEN walk[<<pages[spot[1]].children[i], spot[2] \cup {spot[1]}>>] ELSE <<>>]
           Walks(walk) == walk = [spot \in P \X (SUBSET P) |-> <<spot[1]>> \o Lmd!Flattened(Under(walk, spot))]
<1>1. Lmd!PagesFrom(pages, root) = (CHOOSE walk : Walks(walk))[<<root, {}>>]
  BY Zenon DEF Lmd!PagesFrom, Lmd!NoPage
<1>2. ASSUME NEW walk, NEW spot \in P \X (SUBSET P)
      PROVE  <<spot[1]>> \o Lmd!Flattened(Under(walk, spot)) = <<spot[1]>>
  <2>1. pages[spot[1]].children = <<>>
    BY <1>2
  <2>2. Under(walk, spot) = <<>>
    BY <2>1, SMT
  <2>3. FlattenSeq(<<>>) = <<>>
    BY FlattenShort
  <2>4. Lmd!Flattened(<<>>) = <<>>
    BY <2>3, LmdShares, Zenon
  <2>5. <<spot[1]>> \o <<>> = <<spot[1]>>
    BY ListsJoin, ShortLists
  <2> HIDE DEF Under
  <2> QED
    BY <2>2, <2>4, <2>5
<1> HIDE DEF Under
<1>3. \E w : Walks(w)
  <2> DEFINE w == [spot \in P \X (SUBSET P) |-> <<spot[1]>>]
  <2>1. Walks(w)
    BY <1>2
  <2> HIDE DEF w, Walks
  <2> QED
    BY <2>1
<1>4. Walks(CHOOSE walk : Walks(walk))
  <2> HIDE DEF Walks
  <2> QED
    BY <1>3
<1> DEFINE walk == CHOOSE walk : Walks(walk)
<1>5. Walks(walk)
  BY <1>4, Zenon
<1> HIDE DEF walk
<1>6. walk[<<root, {}>>] = <<root>>
  <2>1. <<root, {}>> \in P \X (SUBSET P)
    OBVIOUS
  <2>2. walk[<<root, {}>>] = <<root>> \o Lmd!Flattened(Under(walk, <<root, {}>>))
    BY <1>5, <2>1
  <2>3. <<root, {}>>[1] = root
    OBVIOUS
  <2> QED
    BY <2>1, <2>2, <2>3, <1>2
<1> QED
  BY <1>1, <1>6, Zenon DEF walk

(* What a record is made of a node. *)
RecordOf(node, page, name) ==
    [key |-> node.key, value |-> IF node.is = "database" THEN node.root ELSE node.value,
     page |-> page, nth |-> 0, of |-> name, is |-> node.is]

RecordsIn(nodes, page, name) == [i \in DOMAIN nodes |-> RecordOf(nodes[i], page, name)]

(* The records of a page: one for every node.                              *)
LEMMA PageRecordsAre ==
    ASSUME NEW C, NEW pages, NEW p, IsLeaf(pages[p], C), NEW name
    PROVE  Lmd!PageRecords(pages, p, name) = RecordsIn(pages[p].nodes, p, name)
<1> DEFINE nodes == pages[p].nodes
           s == RecordsIn(nodes, p, name)
           u == [i \in DOMAIN nodes |-> Lmd!RecordsOf(nodes[i], p, name)]
<1>1. IsList(nodes) /\ \A x \in Range(nodes) : IsNode(x, C)
  BY DEF IsLeaf, Leaf
<1>2. \A i \in DOMAIN nodes : Lmd!RecordsOf(nodes[i], p, name) = <<s[i]>>
  <2> TAKE i \in DOMAIN nodes
  <2>1. IsNode(nodes[i], C)
    BY <1>1, ListFacts
  <2>2. nodes[i].is # "duplicates"
    <3>1. \A key, value : ValueNode(key, value).is = "value"
      BY DEF ValueNode
    <3>2. \A of, r : RootNode(of, r).is = "database"
      BY DEF RootNode
    <3> QED
      BY <2>1, <3>1, <3>2 DEF IsNode
  <2>3. Lmd!RecordsOf(nodes[i], p, name) = <<RecordOf(nodes[i], p, name)>>
    BY <2>2 DEF Lmd!RecordsOf, RecordOf
  <2> QED
    BY <2>3 DEF RecordsIn
<1>3. DOMAIN s = DOMAIN nodes /\ IsList(s)
  <2>1. s = [i \in 1..Len(nodes) |-> s[i]] /\ Len(nodes) \in Nat
    BY <1>1, ListFacts DEF RecordsIn
  <2> HIDE DEF s
  <2>2. IsList(s)
    BY <2>1, MadeIsList
  <2> QED
    BY <2>2 DEF s, RecordsIn
<1> HIDE DEF s
<1>4. u = [k \in DOMAIN s |-> <<s[k]>>]
  BY <1>2, <1>3
<1>5. FlattenSeq(u) = s
  BY <1>3, <1>4, SinglesFlatten
<1>6. Lmd!PageRecords(pages, p, name) = Lmd!Flattened(u)
  BY Zenon DEF Lmd!PageRecords
<1> QED
  BY <1>5, <1>6, LmdShares DEF s

(* A list of one list, flattened.                                          *)
LEMMA OneFlattens ==
    ASSUME NEW u, NEW x, IsList(x), u = [i \in 1..1 |-> u[i]], u[1] = x
    PROVE  Lmd!Flattened(u) = x
<1>1. u = <<x>>
  OBVIOUS
<1> QED
  BY <1>1, FlattenShort, LmdShares

(* A tree is one page, or it is none.                                      *)
LEMMA TreeIs ==
    ASSUME NEW C, NEW pages, AreLeaves(pages, C), NEW root, NEW name
    PROVE  /\ root = 0 => Lmd!TreeRecords(pages, root, name) = <<>>
           /\ root \in DOMAIN pages => /\ Lmd!TreeRecords(pages, root, name) = RecordsIn(pages[root].nodes, root, name)
                                       /\ root \in Lmd!TreePages(pages, root)
<1>1. ASSUME root = 0
      PROVE  Lmd!TreeRecords(pages, root, name) = <<>>
  <2>1. Lmd!PagesFrom(pages, root) = <<>>
    BY <1>1, Zenon DEF Lmd!PagesFrom, Lmd!NoPage
  <2>2. Lmd!Flattened(<<>>) = <<>>
    <3>1. FlattenSeq(<<>>) = <<>>
      BY FlattenShort
    <3> QED
      BY <3>1, LmdShares, Zenon
  <2>3. \A f : [i \in DOMAIN <<>> |-> f[i]] = <<>>
    BY SMT
  <2>4. Lmd!LeavesFrom(pages, root) = <<>>
    <3> DEFINE u == [i \in DOMAIN <<>> |-> Lmd!When(pages[<<>>[i]].is = "leaf", <<<<>>[i]>>)]
    <3>1. u = <<>>
      BY SMT
    <3>2. Lmd!LeavesFrom(pages, root) = Lmd!Flattened(u)
      BY <2>1, Zenon DEF Lmd!LeavesFrom, Lmd!Those
    <3> QED
      BY <3>1, <3>2, <2>2
  <2>5. Lmd!TreeRecords(pages, root, name) = Lmd!Flattened([i \in DOMAIN <<>> |-> Lmd!PageRecords(pages, <<>>[i], name)])
    BY <2>4, Zenon DEF Lmd!TreeRecords
  <2>6. [i \in DOMAIN <<>> |-> Lmd!PageRecords(pages, <<>>[i], name)] = <<>>
    BY SMT
  <2> QED
    BY <2>2, <2>5, <2>6
<1>2. ASSUME root \in DOMAIN pages
      PROVE  /\ Lmd!TreeRecords(pages, root, name) = RecordsIn(pages[root].nodes, root, name)
             /\ root \in Lmd!TreePages(pages, root)
  <2> DEFINE one == <<root>>
             u == [i \in DOMAIN one |-> Lmd!When(pages[one[i]].is = "leaf", <<one[i]>>)]
             v == [i \in DOMAIN one |-> Lmd!PageRecords(pages, one[i], name)]
  <2>1. \A p \in DOMAIN pages : pages[p].children = <<>> /\ pages[p].is = "leaf"
    BY DEF AreLeaves, IsLeaf, Leaf
  <2>2. Lmd!PagesFrom(pages, root) = one /\ root # 0
    BY <1>2, <2>1, LeafAlone DEF AreLeaves
  <2>3. DOMAIN one = 1..1 /\ one[1] = root /\ IsList(one)
    BY ShortLists
  <2>4. Lmd!LeavesFrom(pages, root) = one
    <3>1. Lmd!When(pages[one[1]].is = "leaf", <<one[1]>>) = one
      BY <1>2, <2>1, <2>3 DEF Lmd!When
    <3>3. u[1] = one /\ u = [i \in 1..1 |-> u[i]]
      <4> HIDE DEF one
      <4> QED
        BY <2>3, <3>1
    <3>2. Lmd!LeavesFrom(pages, root) = Lmd!Flattened(u)
      BY <2>2, Zenon DEF Lmd!LeavesFrom, Lmd!Those
    <3> HIDE DEF u, one
    <3> QED
      BY <3>3, <3>2, <2>3, OneFlattens
  <2>5. Lmd!TreeRecords(pages, root, name) = RecordsIn(pages[root].nodes, root, name)
    <3> DEFINE x == RecordsIn(pages[root].nodes, root, name)
    <3>1. Lmd!PageRecords(pages, root, name) = x
      BY <1>2, PageRecordsAre DEF AreLeaves
    <3>2. IsList(x)
      <4>1. IsList(pages[root].nodes)
        BY <1>2 DEF AreLeaves, IsLeaf, Leaf
      <4>2. x = [i \in 1..Len(pages[root].nodes) |-> x[i]] /\ Len(pages[root].nodes) \in Nat
        BY <4>1, ListFacts DEF RecordsIn
      <4> HIDE DEF x
      <4> QED
        BY <4>2, MadeIsList
    <3> HIDE DEF x
    <3>3. v[1] = x /\ v = [i \in 1..1 |-> v[i]]
      BY <2>3, <3>1
    <3>4. Lmd!TreeRecords(pages, root, name) = Lmd!Flattened(v)
      BY <2>4, Zenon DEF Lmd!TreeRecords
    <3> HIDE DEF v, one
    <3> QED
      BY <3>2, <3>3, <3>4, OneFlattens DEF x
  <2>6. root \in Lmd!TreePages(pages, root)
    <3>1. root \in Lmd!Members(one)
      BY <2>3, LmdShares
    <3> HIDE DEF one
    <3> QED
      BY <2>2, <3>1, Zenon DEF Lmd!TreePages
  <2> QED
    BY <2>5, <2>6
<1> QED
  BY <1>1, <1>2

(* The current meta page is that of the last commit.                       *)
LEMMA CurrentIs ==
    ASSUME NEW C, NEW store, NEW root, NEW n \in Nat, IsPageStore(store, root, n, C),
           \A txn \in 0..n, r \in Pages \cup {0} : Meta(txn, r) \notin {Torn, Odd}
    PROVE  Lmd!CurrentMeta(store) = Meta(store.state.txn, root)
<1> DEFINE txn == store.state.txn
           one == store.metas[1]
           two == store.metas[2]
<1>1. txn \in 0..n /\ txn \in Nat /\ root \in Pages \cup {0}
  BY DEF IsPageStore, IsRoot
<1>2. Meta(txn, root) \notin {Torn, Odd} /\ Meta(txn, root).txn = txn
  BY <1>1 DEF Meta
<1>3. /\ store.metas[Slot(txn)] = Meta(txn, root)
      /\ store.metas[OtherSlot(txn)] = Torn \/ IsOlder(store.metas[OtherSlot(txn)], txn)
  BY DEF IsPageStore, MetasOf
<1>4. (Slot(txn) = 1 /\ OtherSlot(txn) = 2) \/ (Slot(txn) = 2 /\ OtherSlot(txn) = 1)
  BY <1>1, SlotsTurn
<1>5. ASSUME NEW meta, IsOlder(meta, txn)
      PROVE  /\ meta \notin {Torn, Odd} /\ meta.txn \in Nat /\ meta.txn <= txn
             /\ Slot(txn) = 2 => meta.txn < txn
  <2>1. PICK older \in 0..txn, was \in Pages \cup {0} : meta = Meta(older, was) /\ (Slot(txn) = 2 => older < txn)
    BY <1>5 DEF IsOlder
  <2>2. older \in 0..n /\ meta.txn = older /\ older \in Nat /\ older <= txn
    BY <2>1, <1>1 DEF Meta
  <2> QED
    BY <2>1, <2>2
<1> HIDE DEF one, two, txn
<1>6. Lmd!CurrentMeta(store) = IF one \in {Torn, Odd} THEN two
        ELSE IF two \in {Torn, Odd} \/ two.txn <= one.txn THEN one ELSE two
  BY Zenon DEF Lmd!CurrentMeta, one, two
<1>7. CASE Slot(txn) = 1 /\ OtherSlot(txn) = 2
  <2>1. one = Meta(txn, root) /\ (two = Torn \/ IsOlder(two, txn))
    BY <1>3, <1>7 DEF one, two
  <2>2. two \in {Torn, Odd} \/ two.txn <= one.txn
    BY <2>1, <1>2, <1>5
  <2> QED
    BY <1>2, <1>6, <2>1, <2>2 DEF txn
<1>8. CASE Slot(txn) = 2 /\ OtherSlot(txn) = 1
  <2>1. two = Meta(txn, root) /\ (one = Torn \/ IsOlder(one, txn))
    BY <1>3, <1>8 DEF one, two
  <2>2. one \in {Torn, Odd} \/ ~(two \in {Torn, Odd} \/ two.txn <= one.txn)
    BY <2>1, <1>1, <1>2, <1>5, <1>8
  <2> QED
    BY <1>6, <2>1, <2>2 DEF txn
<1> QED
  BY <1>4, <1>7, <1>8

(* Nodes that make one record are one.                                     *)
LEMMA RecordTellsNode ==
    ASSUME NEW C, NEW x, IsNode(x, C), NEW page, NEW name
    PROVE  /\ x.is = "value" => x = ValueNode(x.key, x.value)
           /\ x.is = "database" => x = RootNode(x.key, x.root)
           /\ x.is \in {"value", "database"}
           /\ RecordOf(x, page, name) =
                [key |-> x.key, value |-> IF x.is = "database" THEN x.root ELSE x.value,
                 page |-> page, nth |-> 0, of |-> name, is |-> x.is]
           /\ \A y : IsNode(y, C) /\ RecordOf(x, page, name) = RecordOf(y, page, name) => x = y
<1>1. \A y : IsNode(y, C) =>
         /\ y.is \in {"value", "database"}
         /\ y.is = "value" => y = ValueNode(y.key, y.value)
         /\ y.is = "database" => y = RootNode(y.key, y.root)
  <2> TAKE y
  <2>1. ASSUME NEW c \in C, y = ValueNode(c.key, c.value)
        PROVE  y.is = "value" /\ y = ValueNode(y.key, y.value)
    BY <2>1 DEF ValueNode
  <2>2. ASSUME NEW of \in Named, NEW root \in Pages, y = RootNode(of, root)
        PROVE  y.is = "database" /\ y = RootNode(y.key, y.root)
    BY <2>2 DEF RootNode
  <2> QED
    BY <2>1, <2>2 DEF IsNode
<1>2. ASSUME NEW y, IsNode(y, C), RecordOf(x, page, name) = RecordOf(y, page, name)
      PROVE  x = y
  <2>1. /\ x.key = y.key /\ x.is = y.is
        /\ (IF x.is = "database" THEN x.root ELSE x.value) = (IF y.is = "database" THEN y.root ELSE y.value)
    BY <1>2 DEF RecordOf
  <2>2. CASE x.is = "database"
    <3>1. x.root = y.root
      BY <2>1, <2>2
    <3>2. x = RootNode(x.key, x.root) /\ y = RootNode(y.key, y.root)
      BY <1>1, <1>2, <2>1, <2>2
    <3> QED
      BY <2>1, <3>1, <3>2
  <2>3. CASE x.is = "value"
    <3>1. x.value = y.value
      BY <2>1, <2>3
    <3>2. x = ValueNode(x.key, x.value) /\ y = ValueNode(y.key, y.value)
      BY <1>1, <1>2, <2>1, <2>3
    <3> QED
      BY <2>1, <3>1, <3>2
  <2> QED
    BY <1>1, <2>2, <2>3
<1> QED
  BY <1>1, <1>2 DEF RecordOf

(* The records of nodes that are each there once are there once.           *)
LEMMA RecordsInFacts ==
    ASSUME NEW C, NEW nodes, AreNodes(nodes, C), NEW page, NEW name
    PROVE  LET s == RecordsIn(nodes, page, name)
           IN  Once(s) /\ Len(s) = Len(nodes) /\ Range(s) = {RecordOf(x, page, name) : x \in Range(nodes)}
<1> DEFINE s == RecordsIn(nodes, page, name)
<1>1. /\ IsList(nodes) /\ Len(nodes) \in Nat /\ DOMAIN nodes = 1..Len(nodes)
      /\ Range(nodes) = {nodes[i] : i \in 1..Len(nodes)}
  BY ListFacts DEF AreNodes, Once
<1>2. s = [i \in 1..Len(nodes) |-> s[i]] /\ \A i \in 1..Len(nodes) : s[i] = RecordOf(nodes[i], page, name)
  BY <1>1 DEF RecordsIn
<1> HIDE DEF s
<1>3. IsList(s) /\ Len(s) = Len(nodes)
  BY <1>1, <1>2, MadeIsList
<1>4. Range(s) = {s[i] : i \in 1..Len(s)}
  BY <1>3, ListFacts
<1>5. \A i, j \in 1..Len(s) : i < j => s[i] # s[j]
  <2> TAKE i, j \in 1..Len(s)
  <2> HAVE i < j
  <2>1. nodes[i] # nodes[j] /\ IsNode(nodes[i], C) /\ IsNode(nodes[j], C)
    BY <1>1, <1>3 DEF AreNodes, Once
  <2> QED
    BY <1>2, <1>3, <2>1, RecordTellsNode
<1>6. Range(s) = {RecordOf(x, page, name) : x \in Range(nodes)}
  BY <1>1, <1>2, <1>3, <1>4
<1> QED
  BY <1>3, <1>5, <1>6 DEF Once, s

(* Those of a list that are in a set.                                      *)
LEMMA ThoseIn ==
    ASSUME NEW list, Once(list), NEW S, NEW u, u = [i \in DOMAIN list |-> IF list[i] \in S THEN <<list[i]>> ELSE <<>>]
    PROVE  Once(Lmd!Flattened(u)) /\ Range(Lmd!Flattened(u)) = Range(list) \cap S
<1>1. u = [i \in DOMAIN list |-> u[i]]
  OBVIOUS
<1>2. \A i \in DOMAIN list : u[i] \in {<<>>, <<list[i]>>} /\ (u[i] # <<>> <=> list[i] \in S)
  <2> TAKE i \in DOMAIN list
  <2>1. <<list[i]>> # <<>>
    BY ShortLists
  <2> QED
    BY <2>1
<1>3. /\ Once(FlattenSeq(u))
      /\ Range(FlattenSeq(u)) = {list[i] : i \in {k \in DOMAIN list : u[k] # <<>>}}
  BY <1>1, <1>2, OnceChosen
<1>4. Range(list) = {list[i] : i \in DOMAIN list}
  BY DEF Range
<1>5. {list[i] : i \in {k \in DOMAIN list : u[k] # <<>>}} = Range(list) \cap S
  BY <1>2, <1>4
<1>6. Lmd!Flattened(u) = FlattenSeq(u)
  BY LmdShares
<1> QED
  BY <1>3, <1>5, <1>6

(* The record that a store has under a key of a database. *)
RecordIs(store, root, of, key) ==
    RecordOf(ValueNode(key, store.state.content[of][key]),
             IF of = Lmd!Unnamed THEN root ELSE store.state.roots[of], of)

(* The record of the main tree that has the root of another. *)
RootRecord(store, root, of) == RecordOf(RootNode(of, store.state.roots[of]), root, Lmd!Unnamed)

RecordsHeld(store, root, of) == {RecordIs(store, root, of, key) : key \in DOMAIN store.state.content[of]}

HeldOf(store) == {of \in Named : store.state.roots[of] # 0}

(* What the trees of a store hold, each record once.                       *)
LEMMA TreesHold ==
    ASSUME NEW C, Changing(C), NEW store, NEW root, NEW n \in Nat, IsPageStore(store, root, n, C)
    PROVE  LET content == store.state.content
               inMain == Lmd!TreeRecords(store.pages, root, Lmd!Unnamed)
           IN  /\ Once(inMain)
               /\ Range(inMain) = RecordsHeld(store, root, Lmd!Unnamed)
                                 \cup {RootRecord(store, root, of) : of \in HeldOf(store)}
               /\ \A of \in HeldOf(store) :
                     LET records == Lmd!TreeRecords(store.pages, store.state.roots[of], of)
                     IN  Once(records) /\ Range(records) = RecordsHeld(store, root, of)
               /\ \A of \in Named \ HeldOf(store) : content[of] = NoRecords
<1> DEFINE content == store.state.content
           roots == store.state.roots
           main == MainNodes(content, roots)
           inMain == Lmd!TreeRecords(store.pages, root, Lmd!Unnamed)
<1>1. AreLeaves(store.pages, C)
  BY PagesAssumption DEF IsPageStore, AreLeaves
<1>2. /\ \A of \in Named \cup {Lmd!Unnamed} : Content(content[of], C)
      /\ \A of \in Named : IsRoot(roots[of])
  BY DEF IsPageStore
<1>3. /\ AreNodes(main, C)
      /\ Range(main) = {ValueNode(key, content[Lmd!Unnamed][key]) : key \in DOMAIN content[Lmd!Unnamed]}
                       \cup {RootNode(of, roots[of]) : of \in {d \in Named : roots[d] # 0}}
  <2>1. Content(content[Lmd!Unnamed], C)
    BY <1>2
  <2> HIDE DEF content, roots
  <2> QED
    BY <1>2, <2>1, MainFacts DEF AreNodes
<1>4. inMain = RecordsIn(main, root, Lmd!Unnamed)
  <2>1. CASE root = 0 /\ main = <<>>
    <3>1. inMain = <<>>
      BY <1>1, <2>1, TreeIs
    <3>2. RecordsIn(main, root, Lmd!Unnamed) = <<>>
      BY <2>1 DEF RecordsIn
    <3> QED
      BY <3>1, <3>2
  <2>2. CASE root \in DOMAIN store.pages /\ store.pages[root] = Leaf(main)
    <3>1. store.pages[root].nodes = main
      BY <2>2 DEF Leaf
    <3>2. inMain = RecordsIn(store.pages[root].nodes, root, Lmd!Unnamed)
      BY <1>1, <2>2, TreeIs
    <3> QED
      BY <3>1, <3>2
  <2> QED
    BY <2>1, <2>2 DEF IsPageStore, TreesOf
<1>5. Once(inMain) /\ Range(inMain) = {RecordOf(x, root, Lmd!Unnamed) : x \in Range(main)}
  <2> HIDE DEF main, inMain
  <2> QED
    BY <1>3, <1>4, RecordsInFacts
<1>6. Range(inMain) = RecordsHeld(store, root, Lmd!Unnamed)
                     \cup {RootRecord(store, root, of) : of \in HeldOf(store)}
  <2> DEFINE A == {ValueNode(key, content[Lmd!Unnamed][key]) : key \in DOMAIN content[Lmd!Unnamed]}
             B == {RootNode(of, roots[of]) : of \in HeldOf(store)}
  <2>1. Range(main) = A \cup B
    BY <1>3 DEF HeldOf
  <2>2. {RecordOf(x, root, Lmd!Unnamed) : x \in A}
          = RecordsHeld(store, root, Lmd!Unnamed)
    BY DEF RecordIs, RecordsHeld
  <2>3. {RecordOf(x, root, Lmd!Unnamed) : x \in B} = {RootRecord(store, root, of) : of \in HeldOf(store)}
    BY DEF RootRecord
  <2> HIDE DEF A, B, main, inMain
  <2>4. Range(inMain) = {RecordOf(x, root, Lmd!Unnamed) : x \in A} \cup {RecordOf(x, root, Lmd!Unnamed) : x \in B}
    BY <1>5, <2>1
  <2> QED
    BY <2>2, <2>3, <2>4
<1>7. ASSUME NEW of \in Named
      PROVE  /\ of \notin HeldOf(store) => content[of] = NoRecords
             /\ of \in HeldOf(store) =>
                  LET records == Lmd!TreeRecords(store.pages, roots[of], of)
                  IN  Once(records) /\ Range(records) = RecordsHeld(store, root, of)
  <2>1. \/ roots[of] = 0 /\ content[of] = NoRecords
        \/ roots[of] \in DOMAIN store.pages /\ store.pages[roots[of]] = Leaf(Nodes(content[of]))
    BY DEF IsPageStore, TreesOf
  <2>2. of \in HeldOf(store) <=> roots[of] # 0
    BY DEF HeldOf
  <2>3. ASSUME of \in HeldOf(store)
        PROVE  LET records == Lmd!TreeRecords(store.pages, roots[of], of)
               IN  Once(records) /\ Range(records) = RecordsHeld(store, root, of)
    <3> DEFINE nodes == Nodes(content[of])
               page == roots[of]
               records == Lmd!TreeRecords(store.pages, roots[of], of)
    <3>1. page \in DOMAIN store.pages /\ store.pages[page].nodes = nodes
      BY <2>1, <2>2, <2>3 DEF Leaf
    <3>2. records = RecordsIn(nodes, page, of)
      <4>1. records = RecordsIn(store.pages[page].nodes, page, of)
        BY <1>1, <3>1, TreeIs
      <4> QED
        BY <3>1, <4>1
    <3>3. /\ AreNodes(nodes, C)
          /\ Range(nodes) = {ValueNode(key, content[of][key]) : key \in DOMAIN content[of]}
      BY <1>2, NodesFacts DEF AreNodes
    <3>4. Once(records) /\ Range(records) = {RecordOf(x, page, of) : x \in Range(nodes)}
      <4> HIDE DEF nodes, page, records
      <4> QED
        BY <3>2, <3>3, RecordsInFacts
    <3>5. of # Lmd!Unnamed
      BY DEF Named, Lmd!METADATA, Lmd!BODIES, Lmd!Unnamed
    <3>6. {RecordOf(x, page, of) : x \in {ValueNode(key, content[of][key]) : key \in DOMAIN content[of]}}
            = RecordsHeld(store, root, of)
      BY <3>5 DEF RecordIs, RecordsHeld
    <3> QED
      BY <3>3, <3>4, <3>6
  <2>4. of \notin HeldOf(store) => content[of] = NoRecords
    BY <1>1, <2>1, <2>2 DEF AreLeaves
  <2> QED
    BY <2>3, <2>4, Zenon
<1> HIDE DEF inMain
<1>8. \A of \in HeldOf(store) : of \in Named
  BY DEF HeldOf
<1> QED
  BY <1>5, <1>6, <1>7, <1>8 DEF inMain

(* The records and the databases of the main tree.                         *)
LEMMA MainSplits ==
    ASSUME NEW C, Changing(C), NEW store, NEW root, NEW n \in Nat, IsPageStore(store, root, n, C)
    PROVE  LET inMain == Lmd!TreeRecords(store.pages, root, Lmd!Unnamed)
               plain == Lmd!Those(inMain, Lmd!IsRecord)
               named == Lmd!Those(inMain, Lmd!IsDatabase)
           IN  /\ Once(plain) /\ Range(plain) = RecordsHeld(store, root, Lmd!Unnamed)
               /\ Once(named) /\ Range(named) = {RootRecord(store, root, of) : of \in HeldOf(store)}
<1> DEFINE inMain == Lmd!TreeRecords(store.pages, root, Lmd!Unnamed)
           S == {x \in Range(inMain) : Lmd!IsRecord(x)}
           T == {x \in Range(inMain) : Lmd!IsDatabase(x)}
           A == RecordsHeld(store, root, Lmd!Unnamed)
           B == {RootRecord(store, root, of) : of \in HeldOf(store)}
           plain == Lmd!Those(inMain, Lmd!IsRecord)
           named == Lmd!Those(inMain, Lmd!IsDatabase)
           u == [i \in DOMAIN inMain |-> IF inMain[i] \in S THEN <<inMain[i]>> ELSE <<>>]
           v == [i \in DOMAIN inMain |-> IF inMain[i] \in T THEN <<inMain[i]>> ELSE <<>>]
<1>1. Once(inMain) /\ Range(inMain) = A \cup B
  BY TreesHold
<1>2. \A x \in A : x.is = "value"
  BY DEF RecordsHeld, RecordIs, RecordOf, ValueNode
<1>3. \A x \in B : x.is = "database"
  BY DEF RootRecord, RecordOf, RootNode
<1> HIDE DEF A, B
<1>4. S = A /\ T = B
  BY <1>1, <1>2, <1>3 DEF Lmd!IsRecord, Lmd!IsDatabase
<1> HIDE DEF inMain
<1>5. \A i \in DOMAIN inMain : inMain[i] \in Range(inMain)
  BY DEF Range
<1>6. plain = Lmd!Flattened(u)
  <2>1. \A i \in DOMAIN inMain : Lmd!When(Lmd!IsRecord(inMain[i]), <<inMain[i]>>) = IF inMain[i] \in S THEN <<inMain[i]>> ELSE <<>>
    BY <1>5 DEF Lmd!When
  <2>2. [i \in DOMAIN inMain |-> Lmd!When(Lmd!IsRecord(inMain[i]), <<inMain[i]>>)] = u
    BY <2>1
  <2> HIDE DEF u
  <2> QED
    BY <2>2, Zenon DEF Lmd!Those
<1>7. named = Lmd!Flattened(v)
  <2>1. \A i \in DOMAIN inMain : Lmd!When(Lmd!IsDatabase(inMain[i]), <<inMain[i]>>) = IF inMain[i] \in T THEN <<inMain[i]>> ELSE <<>>
    BY <1>5 DEF Lmd!When
  <2>2. [i \in DOMAIN inMain |-> Lmd!When(Lmd!IsDatabase(inMain[i]), <<inMain[i]>>)] = v
    BY <2>1
  <2> HIDE DEF v
  <2> QED
    BY <2>2, Zenon DEF Lmd!Those
<1>8. /\ Once(Lmd!Flattened(u)) /\ Range(Lmd!Flattened(u)) = Range(inMain) \cap S
      /\ Once(Lmd!Flattened(v)) /\ Range(Lmd!Flattened(v)) = Range(inMain) \cap T
  <2> HIDE DEF S, T
  <2>1. Once(Lmd!Flattened(u)) /\ Range(Lmd!Flattened(u)) = Range(inMain) \cap S
    BY <1>1, ThoseIn
  <2>2. Once(Lmd!Flattened(v)) /\ Range(Lmd!Flattened(v)) = Range(inMain) \cap T
    BY <1>1, ThoseIn
  <2> QED
    BY <2>1, <2>2
<1> HIDE DEF S, T, u, v, plain, named
<1>9. Once(plain) /\ Range(plain) = A /\ Once(named) /\ Range(named) = B
  BY <1>1, <1>4, <1>6, <1>7, <1>8
<1> QED
  BY <1>9 DEF plain, named, inMain, A, B

(* The records of a store are those of its databases, each once.           *)
LEMMA AllAre ==
    ASSUME NEW C, Changing(C), NEW store, NEW root, NEW n \in Nat, IsPageStore(store, root, n, C),
           \A txn \in 0..n, r \in Pages \cup {0} : Meta(txn, r) \notin {Torn, Odd}
    PROVE  /\ Once(Lmd!AllRecords(store))
           /\ Range(Lmd!AllRecords(store)) = UNION {RecordsHeld(store, root, of) : of \in Named \cup {Lmd!Unnamed}}
<1> DEFINE inMain == Lmd!TreeRecords(store.pages, root, Lmd!Unnamed)
           plain == Lmd!Those(inMain, Lmd!IsRecord)
           named == Lmd!Those(inMain, Lmd!IsDatabase)
           u == [i \in DOMAIN named |-> Lmd!TreeRecords(store.pages, named[i].value, named[i].key)]
<1>1. Lmd!CurrentMeta(store).root = root
  BY CurrentIs DEF Meta
<1>2. Lmd!AllRecords(store) = plain \o Lmd!Flattened(u)
  BY <1>1, Zenon DEF Lmd!AllRecords
<1>3. /\ Once(plain) /\ Range(plain) = RecordsHeld(store, root, Lmd!Unnamed)
      /\ Once(named) /\ Range(named) = {RootRecord(store, root, of) : of \in HeldOf(store)}
  BY MainSplits
<1> HIDE DEF plain, named, inMain
<1>4. /\ DOMAIN named = 1..Len(named) /\ Len(named) \in Nat /\ \A i \in 1..Len(named) : named[i] \in Range(named)
      /\ Range(named) = {named[i] : i \in 1..Len(named)} /\ \A i, j \in 1..Len(named) : i < j => named[i] # named[j]
  BY <1>3, ListFacts DEF Once
<1>5. \A of : RootRecord(store, root, of).key = of /\ RootRecord(store, root, of).value = store.state.roots[of]
  BY DEF RootRecord, RecordOf, RootNode
<1>6. \A i \in 1..Len(named) :
         named[i].key \in HeldOf(store) /\ named[i] = RootRecord(store, root, named[i].key)
  BY <1>3, <1>4, <1>5
<1>7. \A i \in 1..Len(named) : Once(u[i]) /\ Range(u[i]) = RecordsHeld(store, root, named[i].key)
  <2> TAKE i \in 1..Len(named)
  <2>1. u[i] = Lmd!TreeRecords(store.pages, store.state.roots[named[i].key], named[i].key)
    BY <1>4, <1>5, <1>6
  <2> QED
    BY <1>6, <2>1, TreesHold
<1>8. u = [i \in 1..Len(named) |-> u[i]]
  BY <1>4
<1> HIDE DEF u
<1>9. IsList(u) /\ Len(u) = Len(named) /\ AreLists(u)
  <2>1. IsList(u) /\ Len(u) = Len(named)
    BY <1>4, <1>8, MadeIsList
  <2> QED
    BY <1>7, <2>1 DEF AreLists, Once
<1>10. \A of : \A x \in RecordsHeld(store, root, of) : x.of = of
  BY DEF RecordsHeld, RecordIs, RecordOf
<1>11. \A i, j \in 1..Len(u) : i < j => Range(u[i]) \cap Range(u[j]) = {}
  <2> TAKE i, j \in 1..Len(u)
  <2> HAVE i < j
  <2>1. named[i].key # named[j].key
    <3>1. i \in 1..Len(named) /\ j \in 1..Len(named) /\ named[i] # named[j]
      BY <1>4, <1>9
    <3>2. named[i] = RootRecord(store, root, named[i].key) /\ named[j] = RootRecord(store, root, named[j].key)
      BY <1>6, <3>1
    <3> QED
      BY <3>1, <3>2
  <2> QED
    BY <1>7, <1>9, <1>10, <2>1
<1>12. Once(FlattenSeq(u)) /\ Range(FlattenSeq(u)) = UNION {Range(u[i]) : i \in 1..Len(u)}
  BY <1>7, <1>9, <1>11, OnceFlatten, FlattenFacts
<1>13. Range(FlattenSeq(u)) = UNION {RecordsHeld(store, root, of) : of \in HeldOf(store)}
  <2>1. \A of \in HeldOf(store) : \E i \in 1..Len(named) : named[i].key = of
    <3> TAKE of \in HeldOf(store)
    <3>1. RootRecord(store, root, of) \in Range(named)
      BY <1>3
    <3>2. PICK i \in 1..Len(named) : named[i] = RootRecord(store, root, of)
      BY <1>4, <3>1
    <3>3. named[i].key = of
      BY <1>5, <3>2
    <3> QED
      BY <3>3
  <2> QED
    BY <1>6, <1>7, <1>9, <1>12, <2>1
<1>14. \A of \in HeldOf(store) : of \in Named
  BY DEF HeldOf
<1>15. Lmd!Unnamed \notin Named
  BY DEF Named, Lmd!METADATA, Lmd!BODIES, Lmd!Unnamed
<1>16. Range(plain) \cap Range(FlattenSeq(u)) = {}
  BY <1>3, <1>10, <1>13, <1>14, <1>15
<1>17. Once(plain \o FlattenSeq(u)) /\ Range(plain \o FlattenSeq(u)) = Range(plain) \cup Range(FlattenSeq(u))
  BY <1>3, <1>12, <1>16, OnceJoin
<1>18. \A of \in Named \ HeldOf(store) : RecordsHeld(store, root, of) = {}
  <2>1. \A of \in Named \ HeldOf(store) : store.state.content[of] = NoRecords
    BY TreesHold
  <2>2. DOMAIN NoRecords = {}
    BY DEF NoRecords
  <2> QED
    BY <2>1, <2>2 DEF RecordsHeld
<1>19. Range(plain) \cup Range(FlattenSeq(u)) = UNION {RecordsHeld(store, root, of) : of \in Named \cup {Lmd!Unnamed}}
  BY <1>3, <1>13, <1>14, <1>18
<1>20. Lmd!Flattened(u) = FlattenSeq(u)
  BY LmdShares
<1> QED
  BY <1>2, <1>17, <1>19, <1>20

(* A record that a store holds tells what it is.                           *)
LEMMA HeldTells ==
    ASSUME NEW store, NEW root, NEW of, NEW x \in RecordsHeld(store, root, of)
    PROVE  /\ x.of = of /\ x.key \in DOMAIN store.state.content[of] /\ x = RecordIs(store, root, of, x.key)
           /\ x.value = store.state.content[of][x.key]
           /\ x.page = IF of = Lmd!Unnamed THEN root ELSE store.state.roots[of]
<1>1. PICK key \in DOMAIN store.state.content[of] : x = RecordIs(store, root, of, key)
  BY DEF RecordsHeld
<1>2. \A node, page : /\ RecordOf(node, page, of).of = of /\ RecordOf(node, page, of).key = node.key
                      /\ RecordOf(node, page, of).page = page
                      /\ RecordOf(node, page, of).value = IF node.is = "database" THEN node.root ELSE node.value
  BY DEF RecordOf
<1>3. \A value : ValueNode(key, value).key = key /\ ValueNode(key, value).value = value /\ ValueNode(key, value).is = "value"
  BY DEF ValueNode
<1>4. x.of = of /\ x.key = key /\ x.value = store.state.content[of][key]
  BY <1>1, <1>2, <1>3 DEF RecordIs
<1>5. x.page = IF of = Lmd!Unnamed THEN root ELSE store.state.roots[of]
  BY <1>1, <1>2 DEF RecordIs
<1> QED
  BY <1>1, <1>4, <1>5

(* What is read of a store is what was committed.                          *)
LEMMA AllIsCommitted ==
    ASSUME NEW C, Changing(C), NEW root, NEW n \in Nat, IsPageStore(file, root, n, C),
           \A txn \in 0..n, r \in Pages \cup {0} : Meta(txn, r) \notin {Torn, Odd}
    PROVE  LET all == Lmd!AllRecords(file)
           IN  /\ {<<all[i].of, all[i].key, all[i].value>> : i \in DOMAIN all} = Committed
               /\ Len(all) = Cardinality(Committed)
<1> DEFINE all == Lmd!AllRecords(file)
           dbs == Named \cup {Lmd!Unnamed}
           content == file.state.content
           T == [i \in 1..Len(all) |-> <<all[i].of, all[i].key, all[i].value>>]
<1>1. Once(all) /\ Range(all) = UNION {RecordsHeld(file, root, of) : of \in dbs}
  BY AllAre
<1> HIDE DEF all
<1>2. /\ Len(all) \in Nat /\ DOMAIN all = 1..Len(all) /\ Range(all) = {all[i] : i \in 1..Len(all)}
      /\ \A i, j \in 1..Len(all) : i < j => all[i] # all[j]
  BY <1>1, ListFacts DEF Once
<1>3. \A x \in Range(all) : /\ x.of \in dbs /\ x.key \in DOMAIN content[x.of] /\ x = RecordIs(file, root, x.of, x.key)
                            /\ x.value = content[x.of][x.key]
  BY <1>1, HeldTells
<1>4. T = [i \in 1..Len(all) |-> T[i]] /\ \A i \in 1..Len(all) : T[i] = <<all[i].of, all[i].key, all[i].value>>
  OBVIOUS
<1> HIDE DEF T
<1>5. IsList(T) /\ Len(T) = Len(all)
  BY <1>2, <1>4, MadeIsList
<1>6. Range(T) = {T[i] : i \in 1..Len(all)}
  BY <1>5, ListFacts
<1>7. Once(T)
  <2> SUFFICES ASSUME NEW i \in 1..Len(all), NEW j \in 1..Len(all), i < j, T[i] = T[j]
               PROVE  FALSE
    BY <1>5 DEF Once
  <2>1. all[i].of = all[j].of /\ all[i].key = all[j].key
    BY <1>4
  <2>2. all[i] \in Range(all) /\ all[j] \in Range(all) /\ all[i] # all[j]
    BY <1>2
  <2>3. all[i] = RecordIs(file, root, all[i].of, all[i].key) /\ all[j] = RecordIs(file, root, all[j].of, all[j].key)
    BY <1>3, <2>2
  <2> QED
    BY <2>1, <2>2, <2>3
<1>8. DOMAIN content = dbs
  BY DEF IsPageStore
<1>9. Range(T) = Committed
  <2>1. \A t \in Range(T) : t \in Committed
    <3> TAKE t \in Range(T)
    <3>1. PICK i \in 1..Len(all) : t = <<all[i].of, all[i].key, all[i].value>>
      BY <1>4, <1>6
    <3>2. all[i] \in Range(all)
      BY <1>2
    <3>3. all[i].of \in dbs /\ all[i].key \in DOMAIN content[all[i].of] /\ all[i].value = content[all[i].of][all[i].key]
      BY <1>3, <3>2
    <3> QED
      BY <1>8, <3>1, <3>3 DEF Committed
  <2>2. ASSUME NEW t \in Committed
        PROVE  t \in Range(T)
    <3>0. PICK of \in dbs : t \in {<<of, key, content[of][key]>> : key \in DOMAIN content[of]}
      BY <1>8 DEF Committed
    <3>1. PICK key \in DOMAIN content[of] : t = <<of, key, content[of][key]>>
      BY <3>0
    <3>2. RecordIs(file, root, of, key) \in RecordsHeld(file, root, of)
      BY DEF RecordsHeld
    <3>3. PICK i \in 1..Len(all) : all[i] = RecordIs(file, root, of, key)
      BY <1>1, <1>2, <3>2
    <3>4. all[i].of = of /\ all[i].key = key /\ all[i].value = content[of][key]
      BY <3>3 DEF RecordIs, RecordOf, ValueNode
    <3> QED
      BY <1>4, <1>6, <3>1, <3>4, SMTT(30)
  <2> QED
    BY <2>1, <2>2
<1>10. {<<all[i].of, all[i].key, all[i].value>> : i \in DOMAIN all} = Range(T)
  <2> DEFINE U == {<<all[i].of, all[i].key, all[i].value>> : i \in DOMAIN all}
  <2>1. \A t \in U : t \in Range(T)
    BY <1>2, <1>4, <1>6
  <2>2. ASSUME NEW t \in Range(T)
        PROVE  t \in U
    <3>1. PICK i \in 1..Len(all) : t = T[i]
      BY <1>6
    <3> QED
      BY <1>2, <1>4, <3>1
  <2> HIDE DEF U
  <2>3. U = Range(T)
    BY <2>1, <2>2
  <2> QED
    BY <2>3 DEF U
<1>11. Len(T) = Cardinality(Committed)
  BY <1>7, <1>9, OnceCounts
<1> QED
  BY <1>5, <1>9, <1>10, <1>11 DEF all

(* A page store that is read, which transactions left. *)
WholePages(n) == ChosenPages(n) /\ file = PageFile /\ IsReadWholly

(* All of its records are live ones.                                       *)
LEMMA LiveIs ==
    ASSUME NEW n, WholePages(n)
    PROVE  LET live == Lmd!LiveRecords(file, MaxRecords)
           IN  /\ live = Lmd!AllRecords(file)
               /\ {<<live[i].of, live[i].key, live[i].value>> : i \in DOMAIN live} = Committed
               /\ Len(live) = Cardinality(Committed)
<1> DEFINE all == Lmd!AllRecords(file)
<1>1. /\ Changing(Transacted(n)) /\ n \in Nat
      /\ \A txn \in 0..n, r \in Pages \cup {0} : Meta(txn, r) \notin {Torn, Odd}
  BY ChosenChange DEF WholePages
<1>2. PICK root : IsPageStore(file, root, n, Transacted(n))
  BY PageFileIs DEF WholePages
<1>3. /\ {<<all[i].of, all[i].key, all[i].value>> : i \in DOMAIN all} = Committed
      /\ Len(all) = Cardinality(Committed)
  BY <1>1, <1>2, AllIsCommitted
<1>4. Len(all) <= MaxRecords
  BY <1>3 DEF WholePages, IsReadWholly
<1>5. Lmd!LiveRecords(file, MaxRecords) = all
  BY <1>4 DEF Lmd!LiveRecords, Lmd!Upto
<1> QED
  BY <1>3, <1>5

(* The beginning of a list in which nothing is twice has no more of a      *)
(* sort than the list.                                                     *)
LEMMA FewerAtFirst ==
    ASSUME NEW listed, Once(listed), NEW i \in DOMAIN listed
    PROVE  LET first == Len(Lmd!Those(SubSeq(listed, 1, i), Lmd!IsRecord))
               all == Len(Lmd!Those(listed, Lmd!IsRecord))
           IN  first \in Nat /\ all \in Nat /\ first <= all
<1> DEFINE S(list) == {x \in Range(list) : Lmd!IsRecord(x)}
<1>1. ASSUME NEW list, Once(list)
      PROVE  /\ Once(Lmd!Those(list, Lmd!IsRecord)) /\ Range(Lmd!Those(list, Lmd!IsRecord)) = S(list)
  <2> DEFINE u == [k \in DOMAIN list |-> IF list[k] \in S(list) THEN <<list[k]>> ELSE <<>>]
  <2>1. \A k \in DOMAIN list : Lmd!When(Lmd!IsRecord(list[k]), <<list[k]>>) = IF list[k] \in S(list) THEN <<list[k]>> ELSE <<>>
    <3>1. \A k \in DOMAIN list : list[k] \in Range(list)
      BY DEF Range
    <3> QED
      BY <3>1 DEF Lmd!When
  <2>2. [k \in DOMAIN list |-> Lmd!When(Lmd!IsRecord(list[k]), <<list[k]>>)] = u
    BY <2>1
  <2> HIDE DEF u
  <2>3. Lmd!Those(list, Lmd!IsRecord) = Lmd!Flattened(u)
    BY <2>2, Zenon DEF Lmd!Those
  <2>4. Once(Lmd!Flattened(u)) /\ Range(Lmd!Flattened(u)) = Range(list) \cap S(list)
    <3> HIDE DEF S
    <3> QED
      BY <1>1, ThoseIn DEF u
  <2> QED
    BY <2>3, <2>4
<1>2. /\ Len(listed) \in Nat /\ DOMAIN listed = 1..Len(listed) /\ IsList(listed)
      /\ Range(listed) = {listed[k] : k \in 1..Len(listed)}
      /\ \A k, m \in 1..Len(listed) : k < m => listed[k] # listed[m]
  BY ListFacts DEF Once
<1> DEFINE t == SubSeq(listed, 1, i)
<1>3. IsList(t) /\ Len(t) = i /\ \A k \in 1..i : t[k] = listed[k]
  BY <1>2, BeginningOf
<1> HIDE DEF t
<1>4. Once(t)
  BY <1>2, <1>3 DEF Once
<1>5. Range(t) \subseteq Range(listed)
  <2>1. Range(t) = {t[k] : k \in 1..i}
    BY <1>3, ListFacts
  <2> QED
    BY <1>2, <1>3, <2>1
<1>6. S(t) \in SUBSET S(listed)
  BY <1>5
<1> HIDE DEF S
<1>7. /\ IsFiniteSet(S(listed)) /\ Cardinality(S(listed)) = Len(Lmd!Those(listed, Lmd!IsRecord))
      /\ IsFiniteSet(S(t)) /\ Cardinality(S(t)) = Len(Lmd!Those(t, Lmd!IsRecord))
  <2>1. Once(Lmd!Those(listed, Lmd!IsRecord)) /\ Range(Lmd!Those(listed, Lmd!IsRecord)) = S(listed)
    BY <1>1
  <2>2. Once(Lmd!Those(t, Lmd!IsRecord)) /\ Range(Lmd!Those(t, Lmd!IsRecord)) = S(t)
    BY <1>1, <1>4
  <2>3. IsFiniteSet(S(listed)) /\ Cardinality(S(listed)) = Len(Lmd!Those(listed, Lmd!IsRecord))
    BY <2>1, OnceCounts
  <2>4. IsFiniteSet(S(t)) /\ Cardinality(S(t)) = Len(Lmd!Those(t, Lmd!IsRecord))
    BY <2>2, OnceCounts
  <2> QED
    BY <2>3, <2>4
<1>8. Cardinality(S(t)) <= Cardinality(S(listed))
  BY <1>6, <1>7, FS_Subset
<1>9. Cardinality(S(t)) \in Nat /\ Cardinality(S(listed)) \in Nat
  BY <1>7, FS_CardinalityType
<1> QED
  BY <1>7, <1>8, <1>9 DEF t

(* Of the main tree nothing is cut.                                        *)
LEMMA MainIsWhole ==
    ASSUME NEW n, WholePages(n), NEW root, IsPageStore(file, root, n, Transacted(n))
    PROVE  Lmd!Databases(file, MaxRecords) = Lmd!Those(Lmd!TreeRecords(file.pages, root, Lmd!Unnamed), Lmd!IsDatabase)
<1> DEFINE listed == Lmd!TreeRecords(file.pages, Lmd!CurrentMeta(file).root, Lmd!Unnamed)
           plain == Lmd!Those(listed, Lmd!IsRecord)
           over == {i \in DOMAIN listed :
                      Lmd!IsRecord(listed[i]) /\ Len(Lmd!Those(SubSeq(listed, 1, i), Lmd!IsRecord)) > MaxRecords}
<1>1. /\ Changing(Transacted(n)) /\ n \in Nat
      /\ \A txn \in 0..n, r \in Pages \cup {0} : Meta(txn, r) \notin {Torn, Odd}
  BY ChosenChange DEF WholePages
<1>2. Lmd!CurrentMeta(file).root = root
  BY <1>1, CurrentIs DEF Meta
<1>3. Once(listed) /\ Once(plain) /\ Range(plain) = RecordsHeld(file, root, Lmd!Unnamed)
  BY <1>1, <1>2, TreesHold, MainSplits
<1>4. Len(plain) <= MaxRecords
  <2> DEFINE all == Lmd!AllRecords(file)
  <2>1. Len(all) = Cardinality(Committed) /\ Cardinality(Committed) <= MaxRecords
    BY LiveIs DEF WholePages, IsReadWholly
  <2>2. Once(all) /\ Range(all) = UNION {RecordsHeld(file, root, of) : of \in Named \cup {Lmd!Unnamed}}
    BY <1>1, AllAre
  <2> HIDE DEF all, plain
  <2>3. Range(plain) \in SUBSET Range(all)
    BY <1>3, <2>2
  <2>4. IsFiniteSet(Range(all)) /\ Cardinality(Range(all)) = Len(all)
    BY <2>2, OnceCounts
  <2>5. IsFiniteSet(Range(plain)) /\ Cardinality(Range(plain)) = Len(plain)
    BY <1>3, OnceCounts
  <2>6. Cardinality(Range(plain)) <= Cardinality(Range(all))
    BY <2>3, <2>4, FS_Subset
  <2>7. Len(all) \in Nat /\ Len(plain) \in Nat
    BY <1>3, <2>2, ListFacts DEF Once
  <2> QED
    BY <2>1, <2>4, <2>5, <2>6, <2>7, Bounds
<1>5. \A i \in DOMAIN listed : ~(Len(Lmd!Those(SubSeq(listed, 1, i), Lmd!IsRecord)) > MaxRecords)
  <2> TAKE i \in DOMAIN listed
  <2> DEFINE first == Lmd!Those(SubSeq(listed, 1, i), Lmd!IsRecord)
  <2>1. Len(first) <= Len(plain) /\ Len(first) \in Nat /\ Len(plain) \in Nat
    <3> HIDE DEF listed
    <3> QED
      BY <1>3, FewerAtFirst
  <2> HIDE DEF first, plain
  <2>2. ~(Len(first) > MaxRecords)
    BY <1>4, <2>1, Bounds
  <2> QED
    BY <2>2 DEF first
<1>6. over = {}
  BY <1>5
<1> HIDE DEF over, listed
<1>7. Lmd!MainItems(file, MaxRecords) = listed
  <2>1. Lmd!MainItems(file, MaxRecords) =
           IF over = {} THEN listed ELSE SubSeq(listed, 1, (CHOOSE i \in over : \A j \in over : i <= j) - 1)
    BY Zenon DEF Lmd!MainItems, over, listed
  <2> QED
    BY <1>6, <2>1
<1>8. Lmd!Databases(file, MaxRecords) = Lmd!Those(listed, Lmd!IsDatabase)
  BY <1>7, Zenon DEF Lmd!Databases
<1> QED
  BY <1>2, <1>8 DEF listed

(* The pages that the last commit uses are reached.                        *)
LEMMA UsedReached ==
    ASSUME NEW n, WholePages(n), NEW p \in file.state.used, p # 0
    PROVE  p \in Lmd!Reachable(file, MaxRecords)
<1>1. /\ Changing(Transacted(n)) /\ n \in Nat
      /\ \A txn \in 0..n, r \in Pages \cup {0} : Meta(txn, r) \notin {Torn, Odd}
  BY ChosenChange DEF WholePages
<1>2. PICK root : IsPageStore(file, root, n, Transacted(n))
  BY PageFileIs DEF WholePages
<1>3. Lmd!CurrentMeta(file).root = root
  BY <1>1, <1>2, CurrentIs DEF Meta
<1>4. AreLeaves(file.pages, Transacted(n))
  BY <1>2, PagesAssumption DEF IsPageStore, AreLeaves
<1> DEFINE roots == file.state.roots
           named == Lmd!Databases(file, MaxRecords)
<1>5. Lmd!TreePages(file.pages, root) \subseteq Lmd!Reachable(file, MaxRecords)
  <2> HIDE DEF named
  <2> QED
    BY <1>3, Zenon DEF Lmd!Reachable
<1>6. \A i \in DOMAIN named : Lmd!TreePages(file.pages, named[i].value) \subseteq Lmd!Reachable(file, MaxRecords)
  BY Zenon DEF Lmd!Reachable
<1>7. Once(named) /\ Range(named) = {RootRecord(file, root, of) : of \in HeldOf(file)}
  BY <1>1, <1>2, MainIsWhole, MainSplits
<1> HIDE DEF named
<1>8. \A of \in HeldOf(file) : \E i \in DOMAIN named : named[i].value = roots[of]
  <2> TAKE of \in HeldOf(file)
  <2>1. RootRecord(file, root, of) \in Range(named)
    BY <1>7
  <2>2. PICK i \in DOMAIN named : named[i] = RootRecord(file, root, of)
    BY <2>1 DEF Range
  <2>3. RootRecord(file, root, of).value = roots[of]
    BY DEF RootRecord, RecordOf, RootNode
  <2> QED
    BY <2>2, <2>3
<1>9. p = root \/ \E of \in Named : p = roots[of]
  BY <1>2 DEF IsPageStore, UsedIs
<1>10. CASE p = root
  <2>1. root \in DOMAIN file.pages
    BY <1>2, <1>10 DEF IsPageStore, TreesOf
  <2>2. root \in Lmd!TreePages(file.pages, root)
    BY <1>4, <2>1, TreeIs
  <2> QED
    BY <1>5, <1>10, <2>2
<1>11. ASSUME NEW of \in Named, p = roots[of]
       PROVE  p \in Lmd!Reachable(file, MaxRecords)
  <2>1. of \in HeldOf(file)
    BY <1>11 DEF HeldOf
  <2>2. p \in DOMAIN file.pages
    BY <1>2, <1>11 DEF IsPageStore, TreesOf
  <2>3. p \in Lmd!TreePages(file.pages, p)
    BY <1>4, <2>2, TreeIs
  <2> QED
    BY <1>6, <1>8, <1>11, <2>1, <2>3
<1> QED
  BY <1>9, <1>10, <1>11

(* Pages in the order of their numbers.                                    *)
LEMMA PagesSorted ==
    ASSUME NEW K, IsFiniteSet(K), \A x \in K : x \in Nat
    PROVE  LET s == Lmd!Sorted(K, LAMBDA p : p) IN Once(s) /\ Range(s) = K
<1> DEFINE place == [x \in K |-> x]
           rank == [x \in K |-> Cardinality({y \in K : y <= x})]
           s == Lmd!Sorted(K, LAMBDA p : p)
<1>1. \A n \in 1..Cardinality(K) : \E x \in K : rank[x] = n
  <2>1. \A x \in K : place[x] = x
    OBVIOUS
  <2>2. \A x \in K : place[x] \in Nat
    OBVIOUS
  <2>3. \A x, y \in K : place[x] = place[y] => x = y
    OBVIOUS
  <2> HIDE DEF place
  <2>4. \A n \in 1..Cardinality(K) : \E x \in K : Cardinality({y \in K : place[y] <= place[x]}) = n
    BY <2>2, <2>3, RanksExist
  <2>5. \A x \in K : {y \in K : place[y] <= place[x]} = {y \in K : y <= x}
    BY <2>1
  <2>6. \A x \in K : rank[x] = Cardinality({y \in K : place[y] <= place[x]})
    BY <2>5
  <2> HIDE DEF rank
  <2> QED
    BY <2>4, <2>6
<1>2. s = [n \in 1..Cardinality(K) |-> CHOOSE x \in K : Cardinality({y \in K : y <= x}) = n]
  <2>1. s = [n \in 1..Lmd!Cardinality(K) |-> CHOOSE x \in K : Lmd!Cardinality({y \in K : y <= x}) = n]
    BY DEF Lmd!Sorted
  <2>2. \A S : Lmd!Cardinality(S) = Cardinality(S)
    BY Zenon DEF Lmd!Cardinality, Cardinality
  <2> QED
    BY <2>1, <2>2
<1> HIDE DEF s
<1>3. \A n \in 1..Cardinality(K) : s[n] \in K /\ rank[s[n]] = n
  <2> SUFFICES ASSUME NEW n \in 1..Cardinality(K) PROVE s[n] \in K /\ rank[s[n]] = n
    OBVIOUS
  <2>1. \E x \in K : Cardinality({y \in K : y <= x}) = n
    BY <1>1
  <2>2. s[n] = CHOOSE x \in K : Cardinality({y \in K : y <= x}) = n
    BY <1>2
  <2>3. s[n] \in K /\ Cardinality({y \in K : y <= s[n]}) = n
    BY <2>1, <2>2
  <2> QED
    BY <2>3
<1>4. s = [n \in 1..Cardinality(K) |-> s[n]]
  <2> DEFINE m == Cardinality(K)
             e(n) == CHOOSE x \in K : Cardinality({y \in K : y <= x}) = n
  <2>1. s = [n \in 1..m |-> e(n)]
    BY <1>2
  <2> HIDE DEF e, m
  <2>2. s = [n \in 1..m |-> s[n]]
    BY <2>1
  <2> QED
    BY <2>2 DEF m
<1> HIDE DEF rank
<1> QED
  BY <1>3, <1>4, SortedOnce DEF s

(* The pages that no commit reaches. *)
Left(store) == {p \in DOMAIN store.pages : store.pages[p].is = "leaf"} \ Lmd!Reachable(store, MaxRecords)

(* What is recovered stood on such a page, as one of the changes wrote it. *)
LEMMA StaleIs ==
    ASSUME NEW n, WholePages(n), NEW limit \in Nat
    PROVE  LET stale == Lmd!StaleRecords(file, limit)
           IN  /\ IsList(stale)
               /\ \A r \in Range(stale) :
                     /\ r.page \in Left(file)
                     /\ \E c \in Transacted(n) : c.key = r.key /\ c.value = r.value
<1>1. Changing(Transacted(n)) /\ n \in Nat
  BY ChosenChange DEF WholePages
<1>2. PICK root : IsPageStore(file, root, n, Transacted(n))
  BY PageFileIs DEF WholePages
<1>3. /\ DOMAIN file.pages \subseteq Pages /\ \A p \in DOMAIN file.pages : IsLeaf(file.pages[p], Transacted(n))
  BY <1>2 DEF IsPageStore
<1> DEFINE leaves == Left(file)
           inOrder == Lmd!Sorted(leaves, LAMBDA p : p)
           u == [i \in DOMAIN inOrder |-> Lmd!PageRecords(file.pages, inOrder[i], Lmd!Unnamed)]
           found == Lmd!Flattened(u)
           v == [i \in DOMAIN found |-> Lmd!When(Lmd!IsRecord(found[i]), <<found[i]>>)]
           kept == Lmd!Those(found, Lmd!IsRecord)
<1>4. Lmd!StaleRecords(file, limit) = Lmd!Upto(kept, limit)
  BY Zenon DEF Lmd!StaleRecords, Left
<1>5. leaves \in SUBSET Pages /\ \A p \in leaves : p \in DOMAIN file.pages
  BY <1>3 DEF Left
<1>6. Once(inOrder) /\ Range(inOrder) = leaves
  <2>1. IsFiniteSet(leaves) /\ \A x \in leaves : x \in Nat
    BY <1>5, PagesAssumption, FS_Subset
  <2> HIDE DEF leaves
  <2> QED
    BY <2>1, PagesSorted
<1> HIDE DEF leaves, inOrder
<1>7. /\ DOMAIN inOrder = 1..Len(inOrder) /\ Len(inOrder) \in Nat
      /\ \A i \in 1..Len(inOrder) : inOrder[i] \in leaves
  BY <1>6, ListFacts DEF Once
<1> DEFINE Stood(x) == \E p \in leaves : \E y \in Range(file.pages[p].nodes) : x = RecordOf(y, p, Lmd!Unnamed)
<1>8. \A i \in 1..Len(inOrder) : IsList(u[i]) /\ \A x \in Range(u[i]) : Stood(x)
  <2> TAKE i \in 1..Len(inOrder)
  <2> DEFINE p == inOrder[i]
             nodes == file.pages[p].nodes
             s == RecordsIn(nodes, p, Lmd!Unnamed)
  <2>1. p \in leaves /\ IsLeaf(file.pages[p], Transacted(n))
    BY <1>3, <1>5, <1>7
  <2>2. u[i] = s
    <3>1. u[i] = Lmd!PageRecords(file.pages, p, Lmd!Unnamed)
      BY <1>7
    <3>2. Lmd!PageRecords(file.pages, p, Lmd!Unnamed) = s
      <4> DEFINE pages == file.pages
      <4>1. IsLeaf(pages[p], Transacted(n))
        BY <2>1
      <4> HIDE DEF p, pages
      <4>2. Lmd!PageRecords(pages, p, Lmd!Unnamed) = RecordsIn(pages[p].nodes, p, Lmd!Unnamed)
        BY <4>1, PageRecordsAre
      <4> QED
        BY <4>2 DEF pages
    <3> QED
      BY <3>1, <3>2
  <2>3. IsList(nodes)
    BY <2>1 DEF IsLeaf, Leaf
  <2>4. Len(nodes) \in Nat /\ DOMAIN nodes = 1..Len(nodes) /\ \A k \in 1..Len(nodes) : nodes[k] \in Range(nodes)
    BY <2>3, ListFacts
  <2>5. s = [k \in 1..Len(nodes) |-> s[k]] /\ \A k \in 1..Len(nodes) : s[k] = RecordOf(nodes[k], p, Lmd!Unnamed)
    BY <2>4 DEF RecordsIn
  <2> HIDE DEF s, nodes, u, p
  <2>6. IsList(s) /\ Len(s) = Len(nodes)
    BY <2>4, <2>5, MadeIsList
  <2>7. Range(s) = {s[k] : k \in 1..Len(nodes)}
    BY <2>6, ListFacts
  <2>8. \A x \in Range(s) : Stood(x)
    BY <2>1, <2>4, <2>5, <2>7 DEF nodes
  <2> QED
    BY <2>2, <2>6, <2>8
<1>9. u = [i \in 1..Len(inOrder) |-> u[i]]
  BY <1>7
<1> HIDE DEF u
<1>10. IsList(u) /\ Len(u) = Len(inOrder) /\ AreLists(u)
  <2>1. IsList(u) /\ Len(u) = Len(inOrder)
    BY <1>7, <1>9, MadeIsList
  <2> QED
    BY <1>8, <2>1 DEF AreLists
<1>11. IsList(found) /\ \A x \in Range(found) : Stood(x)
  <2>1. IsList(FlattenSeq(u)) /\ Range(FlattenSeq(u)) = UNION {Range(u[i]) : i \in 1..Len(u)}
    BY <1>10, FlattenFacts
  <2>2. found = FlattenSeq(u)
    BY LmdShares
  <2> HIDE DEF Stood, found
  <2> QED
    BY <1>8, <1>10, <2>1, <2>2
<1> HIDE DEF found
<1>12. \A i \in DOMAIN found : found[i] \in Range(found)
  BY DEF Range
<1>13. kept = FlattenSeq(v)
  <2>1. kept = Lmd!Flattened(v)
    BY Zenon DEF Lmd!Those
  <2> HIDE DEF kept, v
  <2> QED
    BY <2>1, LmdShares
<1>14. \A i \in DOMAIN found : v[i] = IF Lmd!IsRecord(found[i]) THEN <<found[i]>> ELSE <<>>
  BY DEF Lmd!When
<1>15. v = [i \in DOMAIN found |-> v[i]]
  OBVIOUS
<1> HIDE DEF v, kept
<1>16. IsList(kept) /\ Range(kept) \subseteq {x \in Range(found) : Lmd!IsRecord(x)}
  <2>1. /\ Len(found) \in Nat /\ DOMAIN found = 1..Len(found)
    BY <1>11, ListFacts
  <2>2. \A i \in 1..Len(found) : IsList(v[i]) /\ Range(v[i]) \subseteq {x \in Range(found) : Lmd!IsRecord(x)}
    <3> TAKE i \in 1..Len(found)
    <3>1. CASE Lmd!IsRecord(found[i])
      <4>1. v[i] = <<found[i]>>
        BY <1>14, <2>1, <3>1
      <4> QED
        BY <1>12, <2>1, <3>1, <4>1, ShortLists
    <3>2. CASE ~Lmd!IsRecord(found[i])
      <4>1. v[i] = <<>>
        BY <1>14, <2>1, <3>2
      <4> QED
        BY <4>1, ShortLists
    <3> QED
      BY <3>1, <3>2
  <2>3. IsList(v) /\ Len(v) = Len(found)
    <3>1. v = [i \in 1..Len(found) |-> v[i]]
      BY <1>15, <2>1
    <3> QED
      BY <2>1, <3>1, MadeIsList
  <2>4. AreLists(v)
    BY <2>2, <2>3 DEF AreLists
  <2>5. IsList(FlattenSeq(v)) /\ Range(FlattenSeq(v)) = UNION {Range(v[i]) : i \in 1..Len(v)}
    BY <2>4, FlattenFacts
  <2> QED
    BY <1>13, <2>2, <2>3, <2>5
<1>17. IsList(Lmd!Upto(kept, limit)) /\ Range(Lmd!Upto(kept, limit)) \subseteq Range(kept)
  <2> DEFINE read == Lmd!Upto(kept, limit)
  <2>2. /\ IsList(read) /\ Len(read) <= Len(kept) /\ \A j \in 1..Len(read) : read[j] = kept[j]
    BY <1>16, RoomFor DEF Lmd!Upto
  <2> HIDE DEF read
  <2>3. Len(kept) \in Nat /\ Len(read) \in Nat /\ \A j \in 1..Len(kept) : kept[j] \in Range(kept)
    BY <1>16, <2>2, ListFacts
  <2>4. Range(read) = {read[j] : j \in 1..Len(read)}
    BY <2>2, ListFacts
  <2>5. \A j \in 1..Len(read) : read[j] \in Range(kept)
    BY <2>2, <2>3
  <2>6. Range(read) \subseteq Range(kept)
    BY <2>4, <2>5
  <2> QED
    BY <2>2, <2>6 DEF read
<1>18. \A r \in Range(kept) : /\ r.page \in Left(file)
                              /\ \E c \in Transacted(n) : c.key = r.key /\ c.value = r.value
  <2> TAKE r \in Range(kept)
  <2>1. r \in Range(found) /\ Lmd!IsRecord(r)
    BY <1>16
  <2>2. PICK p \in leaves : \E y \in Range(file.pages[p].nodes) : r = RecordOf(y, p, Lmd!Unnamed)
    BY <1>11, <2>1
  <2>3. PICK y \in Range(file.pages[p].nodes) : r = RecordOf(y, p, Lmd!Unnamed)
    BY <2>2
  <2>4. IsNode(y, Transacted(n))
    <3>1. IsLeaf(file.pages[p], Transacted(n))
      BY <1>3, <1>5
    <3>2. PICK nodes : file.pages[p] = Leaf(nodes) /\ \A x \in Range(nodes) : IsNode(x, Transacted(n))
      BY <3>1 DEF IsLeaf
    <3>3. Leaf(nodes).nodes = nodes
      BY DEF Leaf
    <3> QED
      BY <2>3, <3>2, <3>3
  <2>5. r.is = y.is /\ r.key = y.key /\ r.page = p /\ r.value = IF y.is = "database" THEN y.root ELSE y.value
    BY <2>3 DEF RecordOf
  <2>6. y.is # "database"
    BY <2>1, <2>5 DEF Lmd!IsRecord, Lmd!IsDatabase
  <2>7. PICK c \in Transacted(n) : y = ValueNode(c.key, c.value)
    <3>1. \A of, rt : RootNode(of, rt).is = "database"
      BY DEF RootNode
    <3> QED
      BY <2>4, <2>6, <3>1 DEF IsNode
  <2>8. y.key = c.key /\ y.value = c.value
    BY <2>7 DEF ValueNode
  <2> QED
    BY <2>2, <2>5, <2>6, <2>8 DEF leaves
<1> QED
  BY <1>4, <1>17, <1>18

(* Lists that are each one event of some, one after the other.             *)
LEMMA EventsOf ==
    ASSUME NEW m \in Nat, NEW u, u = [i \in 1..m |-> u[i]], NEW S, \A i \in 1..m : \E e \in S : u[i] = <<e>>
    PROVE  IsList(Lmd!Flattened(u)) /\ Range(Lmd!Flattened(u)) \subseteq S
<1>1. \A i \in 1..m : IsList(u[i]) /\ Range(u[i]) \subseteq S
  <2> TAKE i \in 1..m
  <2>1. PICK e \in S : u[i] = <<e>>
    OBVIOUS
  <2> QED
    BY <2>1, ShortLists
<1>2. IsList(u) /\ Len(u) = m
  BY MadeIsList
<1>3. AreLists(u)
  BY <1>1, <1>2 DEF AreLists
<1>4. IsList(FlattenSeq(u)) /\ Range(FlattenSeq(u)) = UNION {Range(u[i]) : i \in 1..Len(u)}
  BY <1>3, FlattenFacts
<1> QED
  BY <1>1, <1>2, <1>4, LmdShares

(* Nothing that is in the store is told as recovered.                      *)
LEMMA LiveSays ==
    ASSUME NEW n, WholePages(n)
    PROVE  LET told == Lmd!LivePrompts(file, Places)
           IN  IsList(told) /\ \A e \in Range(told) : e.says \notin {"earlier", "removed"}
<1> DEFINE live == Lmd!LiveRecords(file, MaxRecords)
           pairs == Lmd!Those(live, LAMBDA r : r.of \in Lmd!METADATA \cup Lmd!BODIES)
           others == Lmd!Those(live, LAMBDA r : r.of \notin Lmd!METADATA \cup Lmd!BODIES)
           keys == Lmd!Sorted({pairs[i].key : i \in DOMAIN pairs}, LAMBDA key : Places[key])
           Unknown(r) == <<Lmd!Unparsed(r.page, "page", 0, <<r>>, Lmd!NoStamp)>>
           Prompt(key) ==
             <<Lmd!Ev(0, "prompt", key, "instruction.source",
                 <<Lmd!HalfOf(Lmd!Halves(pairs, Lmd!METADATA), key), Lmd!HalfOf(Lmd!Halves(pairs, Lmd!BODIES), key)>>,
                 Lmd!NoStamp, "live")>>
           u == [i \in DOMAIN others |-> Unknown(others[i])]
           v == [i \in DOMAIN keys |-> Prompt(keys[i])]
<1>1. Lmd!LivePrompts(file, Places) = Lmd!Flattened(u) \o Lmd!StoreNote \o Lmd!Flattened(v)
  BY Zenon DEF Lmd!LivePrompts
<1>2. IsList(live)
  <2>1. /\ Changing(Transacted(n)) /\ n \in Nat
        /\ \A txn \in 0..n, r \in Pages \cup {0} : Meta(txn, r) \notin {Torn, Odd}
    BY ChosenChange DEF WholePages
  <2>2. PICK root : IsPageStore(file, root, n, Transacted(n))
    BY PageFileIs DEF WholePages
  <2>3. Once(Lmd!AllRecords(file))
    BY <2>1, <2>2, AllAre
  <2> QED
    BY <2>3, LiveIs DEF Once
<1> HIDE DEF live
<1>3. IsList(pairs) /\ IsList(others)
  <2> DEFINE x == [i \in DOMAIN live |-> Lmd!When(live[i].of \in Lmd!METADATA \cup Lmd!BODIES, <<live[i]>>)]
             y == [i \in DOMAIN live |-> Lmd!When(live[i].of \notin Lmd!METADATA \cup Lmd!BODIES, <<live[i]>>)]
  <2>1. \A i \in DOMAIN live : x[i] \in {<<>>, <<live[i]>>} /\ y[i] \in {<<>>, <<live[i]>>}
    BY DEF Lmd!When
  <2>2. x = [i \in DOMAIN live |-> x[i]] /\ y = [i \in DOMAIN live |-> y[i]]
    OBVIOUS
  <2>3. pairs = Lmd!Flattened(x) /\ others = Lmd!Flattened(y)
    BY Zenon DEF Lmd!Those
  <2> HIDE DEF x, y
  <2>4. IsList(FlattenSeq(x)) /\ IsList(FlattenSeq(y))
    <3>1. IsList(FlattenSeq(x))
      BY <1>2, <2>1, <2>2, ChosenFacts
    <3>2. IsList(FlattenSeq(y))
      BY <1>2, <2>1, <2>2, ChosenFacts
    <3> QED
      BY <3>1, <3>2
  <2> HIDE DEF pairs, others
  <2> QED
    BY <2>3, <2>4, LmdShares
<1> HIDE DEF pairs, others
<1>4. \E m \in Nat : DOMAIN keys = 1..m
  <2> DEFINE K == {pairs[i].key : i \in DOMAIN pairs}
             g == [i \in 1..Len(pairs) |-> pairs[i].key]
  <2>1. DOMAIN pairs = 1..Len(pairs) /\ Len(pairs) \in Nat
    BY <1>3, ListFacts
  <2>2. g \in Surjection(1..Len(pairs), K)
    BY <2>1 DEF Surjection
  <2>3. IsFiniteSet(1..Len(pairs))
    BY <2>1, CountTo
  <2> HIDE DEF K, g
  <2>4. Cardinality(K) \in Nat
    BY <2>2, <2>3, FS_Surjection, FS_CardinalityType
  <2>5. \A T : Lmd!Cardinality(T) = Cardinality(T)
    BY Zenon DEF Lmd!Cardinality, Cardinality
  <2>6. DOMAIN keys = 1..Lmd!Cardinality(K)
    BY DEF Lmd!Sorted, K
  <2> QED
    BY <2>4, <2>5, <2>6
<1>5. \E m \in Nat : DOMAIN others = 1..m
  BY <1>3, ListFacts
<1>6. /\ \A a, b, c, d, e : Lmd!Unparsed(a, b, c, d, e).says \notin {"earlier", "removed"}
      /\ \A a, b, c, d, e, f : Lmd!Ev(a, b, c, d, e, f, "live").says \notin {"earlier", "removed"}
  BY Marks DEF Lmd!Unparsed, Lmd!Ev
<1>7. IsList(Lmd!Flattened(u)) /\ \A e \in Range(Lmd!Flattened(u)) : e.says \notin {"earlier", "removed"}
  <2>1. PICK m \in Nat : DOMAIN others = 1..m
    BY <1>5
  <2> DEFINE T == {Lmd!Unparsed(others[i].page, "page", 0, <<others[i]>>, Lmd!NoStamp) : i \in 1..m}
  <2>2. \A i \in 1..m : \E e \in T : u[i] = <<e>>
    BY <2>1
  <2>3. u = [i \in 1..m |-> u[i]]
    BY <2>1
  <2>4. \A e \in T : e.says \notin {"earlier", "removed"}
    BY <1>6
  <2> HIDE DEF T, u
  <2>5. IsList(Lmd!Flattened(u)) /\ Range(Lmd!Flattened(u)) \subseteq T
    BY <2>2, <2>3, EventsOf
  <2> QED
    BY <2>4, <2>5
<1>8. IsList(Lmd!Flattened(v)) /\ \A e \in Range(Lmd!Flattened(v)) : e.says \notin {"earlier", "removed"}
  <2>1. PICK m \in Nat : DOMAIN keys = 1..m
    BY <1>4
  <2> HIDE DEF keys
  <2> DEFINE T == {Lmd!Ev(0, "prompt", keys[i], "instruction.source",
                     <<Lmd!HalfOf(Lmd!Halves(pairs, Lmd!METADATA), keys[i]), Lmd!HalfOf(Lmd!Halves(pairs, Lmd!BODIES), keys[i])>>,
                     Lmd!NoStamp, "live") : i \in 1..m}
  <2>2. \A i \in 1..m : \E e \in T : v[i] = <<e>>
    BY <2>1
  <2>3. v = [i \in 1..m |-> v[i]]
    BY <2>1
  <2>4. \A e \in T : e.says \notin {"earlier", "removed"}
    BY <1>6
  <2> HIDE DEF T, v
  <2>5. IsList(Lmd!Flattened(v)) /\ Range(Lmd!Flattened(v)) \subseteq T
    BY <2>2, <2>3, EventsOf
  <2> QED
    BY <2>4, <2>5
<1>9. IsList(Lmd!StoreNote) /\ \A e \in Range(Lmd!StoreNote) : e.says \notin {"earlier", "removed"}
  BY <1>6, ShortLists DEF Lmd!StoreNote
<1> HIDE DEF u, v
<1>10. /\ IsList(Lmd!Flattened(u) \o Lmd!StoreNote)
       /\ Range(Lmd!Flattened(u) \o Lmd!StoreNote) = Range(Lmd!Flattened(u)) \cup Range(Lmd!StoreNote)
  BY <1>7, <1>9, ListsJoin
<1> DEFINE w == Lmd!Flattened(u) \o Lmd!StoreNote
<1>11. IsList(w) /\ \A e \in Range(w) : e.says \notin {"earlier", "removed"}
  BY <1>7, <1>9, <1>10
<1>12. Lmd!LivePrompts(file, Places) = w \o Lmd!Flattened(v)
  BY <1>1
<1> HIDE DEF w
<1>13. IsList(w \o Lmd!Flattened(v)) /\ Range(w \o Lmd!Flattened(v)) = Range(w) \cup Range(Lmd!Flattened(v))
  BY <1>8, <1>11, ListsJoin
<1> QED
  BY <1>8, <1>11, <1>12, <1>13

(* What is told as recovered is told as an earlier version exactly when    *)
(* the store has a prompt under the key.                                   *)
LEMMA RecoveredSays ==
    ASSUME NEW n, WholePages(n)
    PROVE  LET told == Lmd!RecoveredPrompts(file, Places)
           IN  /\ IsList(told)
               /\ \A e \in Range(told) : e.says \in {"earlier", "removed"} =>
                     (e.says = "earlier" <=> \E c \in Committed : c[2] = e.loc[3])
<1> DEFINE live == Lmd!LiveRecords(file, MaxRecords)
           all == Lmd!StaleRecords(file, 4 * MaxRecovered)
           stale == Lmd!Upto(all, MaxRecovered)
           note == Lmd!When(Len(all) > MaxRecovered, Lmd!StoreNote)
           One(r) ==
              IF r.key \notin DOMAIN Places
              THEN <<Lmd!Unparsed(r.page, "page", 0, <<r>>, Lmd!NoStamp)>>
              ELSE <<Lmd!Ev(r.page, "prompt", r.key, "instruction.source", <<r>>, Lmd!NoStamp,
                            IF r.key \in Lmd!LiveKeys(file) THEN "earlier" ELSE "removed")>>
           u == [i \in DOMAIN stale |-> One(stale[i])]
           SaidSo(e) == e.says \in {"earlier", "removed"} =>
                          (e.says = "earlier" <=> \E c \in Committed : c[2] = e.loc[3])
<1>1. Lmd!RecoveredPrompts(file, Places) = Lmd!Flattened(u) \o note
  BY Zenon DEF Lmd!RecoveredPrompts
<1>2. \A key : key \in Lmd!LiveKeys(file) <=> \E c \in Committed : c[2] = key
  <2> TAKE key
  <2>1. {<<live[i].of, live[i].key, live[i].value>> : i \in DOMAIN live} = Committed
    BY LiveIs
  <2>2. key \in Lmd!LiveKeys(file) <=> \E i \in DOMAIN live : live[i].key = key
    BY DEF Lmd!LiveKeys
  <2> HIDE DEF live
  <2>3. \A c : c \in Committed <=> \E i \in DOMAIN live : c = <<live[i].of, live[i].key, live[i].value>>
    BY <2>1
  <2>4. \A i \in DOMAIN live : /\ <<live[i].of, live[i].key, live[i].value>> \in Committed
                               /\ <<live[i].of, live[i].key, live[i].value>>[2] = live[i].key
    BY <2>3
  <2>5. ASSUME NEW i \in DOMAIN live, live[i].key = key
        PROVE  \E c \in Committed : c[2] = key
    BY <2>4, <2>5
  <2>6. ASSUME NEW c \in Committed, c[2] = key
        PROVE  \E i \in DOMAIN live : live[i].key = key
    <3>1. PICK i \in DOMAIN live : c = <<live[i].of, live[i].key, live[i].value>>
      BY <2>3
    <3>2. c[2] = live[i].key
      BY <3>1, <2>4
    <3> QED
      BY <2>6, <3>2
  <2> QED
    BY <2>2, <2>5, <2>6
<1>3. IsList(stale)
  <2>1. MaxRecovered \in Nat /\ 4 * MaxRecovered \in Nat
    BY Bounds
  <2>2. IsList(all)
    BY <2>1, StaleIs
  <2> HIDE DEF all
  <2> QED
    BY <2>1, <2>2, RoomFor DEF Lmd!Upto
<1> HIDE DEF stale
<1>4. DOMAIN stale = 1..Len(stale) /\ Len(stale) \in Nat
  BY <1>3, ListFacts
<1>5. \A r : \E e : One(r) = <<e>> /\ SaidSo(e)
  <2> TAKE r
  <2>1. CASE r.key \notin DOMAIN Places
    <3> DEFINE e == Lmd!Unparsed(r.page, "page", 0, <<r>>, Lmd!NoStamp)
    <3>1. e.says \notin {"earlier", "removed"}
      BY Marks DEF Lmd!Unparsed, Lmd!Ev
    <3>2. One(r) = <<e>>
      BY <2>1
    <3> HIDE DEF e, One
    <3> QED
      BY <3>1, <3>2
  <2>2. CASE r.key \in DOMAIN Places
    <3> DEFINE says == IF r.key \in Lmd!LiveKeys(file) THEN "earlier" ELSE "removed"
               e == Lmd!Ev(r.page, "prompt", r.key, "instruction.source", <<r>>, Lmd!NoStamp, says)
    <3>1. e.says = says /\ e.loc[3] = r.key
      BY DEF Lmd!Ev
    <3>2. One(r) = <<e>>
      BY <2>2
    <3> HIDE DEF e, One
    <3> QED
      BY <1>2, <3>1, <3>2
  <2> QED
    BY <2>1, <2>2
<1> HIDE DEF One
<1> DEFINE S == {e \in UNION {Range(One(r)) : r \in Range(stale)} : SaidSo(e)}
<1>6. \A i \in 1..Len(stale) : \E e \in S : u[i] = <<e>>
  <2> TAKE i \in 1..Len(stale)
  <2>1. u[i] = One(stale[i]) /\ stale[i] \in Range(stale)
    BY <1>3, <1>4, ListFacts
  <2>2. PICK e : One(stale[i]) = <<e>> /\ SaidSo(e)
    BY <1>5
  <2>3. e \in Range(One(stale[i]))
    BY <2>2, ShortLists
  <2> HIDE DEF SaidSo
  <2> QED
    BY <2>1, <2>2, <2>3
<1>7. u = [i \in 1..Len(stale) |-> u[i]]
  BY <1>4
<1>8. \A e \in S : SaidSo(e)
  OBVIOUS
<1> HIDE DEF S, u, SaidSo
<1>9. IsList(Lmd!Flattened(u)) /\ Range(Lmd!Flattened(u)) \subseteq S
  BY <1>4, <1>6, <1>7, EventsOf
<1>10. IsList(note) /\ \A e \in Range(note) : e.says \notin {"earlier", "removed"}
  BY Marks, ShortLists DEF Lmd!When, Lmd!StoreNote, Lmd!Unparsed, Lmd!Ev
<1> HIDE DEF note
<1>11. /\ IsList(Lmd!Flattened(u) \o note)
       /\ Range(Lmd!Flattened(u) \o note) = Range(Lmd!Flattened(u)) \cup Range(note)
  BY <1>9, <1>10, ListsJoin
<1> QED
  BY <1>1, <1>8, <1>9, <1>10, <1>11 DEF SaidSo

(* What its writer left, by what is given. *)
PageFileOf(f, d) ==
    LET after[n \in 0..Len(d)] ==
            IF n = 0 THEN Created ELSE Transaction(after[n - 1], Cells[f][d[n]])
    IN  after[Len(d)]

PlacesOf(f, d) ==
    [key \in {c.key : c \in {e \in {Cells[f][d[i]] : i \in DOMAIN d} : e.of \in Named}} |-> Order(key)]

(* A page store is what transactions left, and nothing is told of it but   *)
(* when it is opened, or all of it then.                                   *)
LeftByWriter == format \in PageFormats => file = PageFileOf(format, doc) /\ \E n : ChosenPages(n)

PromptsTold ==
    format = "prompts" =>
        \/ events \in {<<>>, Lmd!StoreNote}
        \/ LET places == PlacesOf(format, doc)
           IN  events = Lmd!LivePrompts(file, places) \o Lmd!RecoveredPrompts(file, places)

(* Both stay so.                                                           *)
LEMMA AlwaysLeft == Spec => [](LeftByWriter /\ PromptsTold)
<1>1. Init => LeftByWriter /\ PromptsTold
  <2> SUFFICES ASSUME Init PROVE LeftByWriter /\ PromptsTold
    OBVIOUS
  <2>1. events = <<>>
    BY DEF Init
  <2>2. ASSUME format \in PageFormats
        PROVE  file = PageFileOf(format, doc) /\ \E n : ChosenPages(n)
    <3>1. file = PageFile
      BY <2>2 DEF Init
    <3>2. PageFile = PageFileOf(format, doc)
      BY Zenon DEF PageFile, PageFileOf
    <3>3. \E n : ChosenPages(n)
      BY <2>2 DEF Init, ChosenPages
    <3> QED
      BY <3>1, <3>2, <3>3
  <2> QED
    BY <2>1, <2>2 DEF LeftByWriter, PromptsTold
<1>2. LeftByWriter /\ PromptsTold /\ [Next]_vars => LeftByWriter' /\ PromptsTold'
  <2> SUFFICES ASSUME LeftByWriter, PromptsTold, [Next]_vars PROVE LeftByWriter' /\ PromptsTold'
    OBVIOUS
  <2>1. format' = format /\ doc' = doc /\ file' = file
    BY DEF Next, vars, Open, Read, ReadPages, ReadGoose, ReadOpencode, ReadAmazonQ, ReadHermes, ReadZed, ReadSidebar,
           ReadThreads, ReadEditor, ReadGeneric
  <2>2. LeftByWriter'
    BY <2>1 DEF LeftByWriter, ChosenPages
  <2>3. CASE Open
    <3>1. events' = Preface
      BY <2>3 DEF Open
    <3>2. ASSUME format = "prompts"
          PROVE  \/ events' = Lmd!StoreNote
                 \/ events' = Lmd!LivePrompts(file, Places) \o Lmd!RecoveredPrompts(file, Places)
      BY <3>1, <3>2 DEF Preface, PageFormats
    <3>3. Places = PlacesOf(format, doc)
      BY Zenon DEF Places, Prompts, PlacesOf
    <3> QED
      BY <2>1, <2>2, <3>2, <3>3 DEF PromptsTold
  <2>4. CASE ~Open
    <3>1. format = "prompts" => events' = events
      BY <2>4 DEF Next, vars, ReadPages, ReadGoose, ReadOpencode, ReadAmazonQ, ReadHermes, ReadZed, ReadSidebar,
                  ReadThreads, ReadEditor, ReadGeneric
    <3> QED
      BY <2>1, <2>2, <3>1 DEF PromptsTold
  <2> QED
    BY <2>2, <2>3, <2>4
<1> QED
  BY <1>1, <1>2, PTL DEF Spec

(* A store that is opened is read as of its last commit, wherever the      *)
(* transaction after it was cut: each record of it once and no other one   *)
(* (lmdb.py, read).                                                        *)
THEOREM AlwaysLiveIsCommitted == Spec => []LiveIsCommitted
<1>1. LeftByWriter => LiveIsCommitted
  <2> SUFFICES ASSUME LeftByWriter, format \in PageFormats, IsReadWholly
               PROVE  LET live == Lmd!LiveRecords(file, MaxRecords)
                      IN  /\ {<<live[i].of, live[i].key, live[i].value>> : i \in DOMAIN live} = Committed
                          /\ Len(live) = Cardinality(Committed)
    BY Zenon DEF LiveIsCommitted
  <2>1. \E n : WholePages(n)
    <3>1. PageFile = PageFileOf(format, doc)
      BY Zenon DEF PageFile, PageFileOf
    <3> QED
      BY <3>1 DEF LeftByWriter, WholePages
  <2> QED
    BY <2>1, LiveIs
<1> QED
  BY <1>1, AlwaysLeft, PTL

(* What is told as recovered is on no page that the last commit uses, is   *)
(* as one of the transactions wrote it, and a prompt is told as removed    *)
(* exactly when the store has none under its key (lmdb.py, stale;          *)
(* prompt_library.py, _recovered).                                         *)
THEOREM AlwaysRecoveredIsNotLive == Spec => []RecoveredIsNotLive
<1>1. LeftByWriter /\ PromptsTold => RecoveredIsNotLive
  <2> SUFFICES ASSUME LeftByWriter, PromptsTold, format \in PageFormats, Lmd!Opens(file), IsReadWholly
               PROVE  RecoveredIsNotLive
    BY Zenon DEF RecoveredIsNotLive
  <2> DEFINE stale == Lmd!StaleRecords(file, MaxRecords)
  <2>1. PICK n : WholePages(n)
    <3>1. PageFile = PageFileOf(format, doc)
      BY Zenon DEF PageFile, PageFileOf
    <3> QED
      BY <3>1 DEF LeftByWriter, WholePages
  <2>2. ASSUME NEW i \in DOMAIN stale
        PROVE  /\ stale[i].page \notin file.state.used
               /\ \E j \in DOMAIN doc : Cells[format][doc[j]].key = stale[i].key /\ Cells[format][doc[j]].value = stale[i].value
    <3>1. stale[i] \in Range(stale)
      BY DEF Range
    <3> HIDE DEF stale
    <3>2. stale[i].page \in Left(file) /\ \E c \in Transacted(n) : c.key = stale[i].key /\ c.value = stale[i].value
      BY <2>1, <3>1, Bounds, StaleIs DEF stale
    <3>3. stale[i].page # 0
      <4>1. PICK root : IsPageStore(file, root, n, Transacted(n))
        BY <2>1, PageFileIs DEF WholePages
      <4>2. stale[i].page \in Pages
        BY <3>2, <4>1 DEF Left, IsPageStore
      <4> QED
        BY <4>2, PagesAssumption
    <3>4. stale[i].page \notin Lmd!Reachable(file, MaxRecords)
      BY <3>2 DEF Left
    <3>5. DOMAIN doc = 1..n
      BY <2>1, ChosenChange DEF WholePages
    <3> QED
      BY <2>1, <3>2, <3>3, <3>4, <3>5, UsedReached DEF Transacted
  <2>3. ASSUME format = "prompts", NEW i \in DOMAIN events, events[i].says \in {"earlier", "removed"}
        PROVE  events[i].says = "earlier" <=> \E c \in Committed : c[2] = events[i].loc[3]
    <3> DEFINE live == Lmd!LivePrompts(file, Places)
               rest == Lmd!RecoveredPrompts(file, Places)
    <3>1. events[i] \in Range(events)
      BY <2>3 DEF Range
    <3>2. IsList(live) /\ \A e \in Range(live) : e.says \notin {"earlier", "removed"}
      BY <2>1, LiveSays
    <3>3. IsList(rest) /\ \A e \in Range(rest) : e.says \in {"earlier", "removed"} =>
             (e.says = "earlier" <=> \E c \in Committed : c[2] = e.loc[3])
      BY <2>1, RecoveredSays
    <3>4. \A e \in Range(Lmd!StoreNote) : e.says \notin {"earlier", "removed"}
      BY Marks, ShortLists DEF Lmd!StoreNote, Lmd!Unparsed, Lmd!Ev
    <3>5. Range(<<>>) = {}
      BY ShortLists
    <3>6. \/ events \in {<<>>, Lmd!StoreNote}
          \/ events = live \o rest
      <4>1. Places = PlacesOf(format, doc)
        BY Zenon DEF Places, Prompts, PlacesOf
      <4> QED
        BY <2>3, <4>1 DEF PromptsTold
    <3> HIDE DEF live, rest
    <3>7. Range(live \o rest) = Range(live) \cup Range(rest)
      BY <3>2, <3>3, ListsJoin
    <3>8. events[i] \in Range(rest)
      BY <2>3, <3>1, <3>2, <3>4, <3>5, <3>6, <3>7
    <3> QED
      BY <2>3, <3>3, <3>8
  <2> QED
    BY <2>2, <2>3 DEF RecoveredIsNotLive
<1> QED
  BY <1>1, AlwaysLeft, PTL

================================================================================
