---------------------------- MODULE ServeProofs ----------------------------
(***************************************************************************)
(* What a client of Serve is told, for any events, any ingests and scans   *)
(* that land between two queries, any page size and any number of          *)
(* requests.                                                               *)
(***************************************************************************)
EXTENDS Serve, FunctionTheorems, FiniteSetTheorems, TLAPS

(* ------------------------------------------------------ a listing's order *)

(* Every event has a place in an order.                                    *)
LEMMA PlaceFacts ==
    ASSUME NEW o \in Orders
    PROVE  /\ IsFiniteSet(Events)
           /\ \A e \in Events : Place(o, e) \in Nat /\ o[Place(o, e)] = e
<1>1. o \in Seq(Events) /\ Range(o) = Events
  BY ServeAssumption
<1>2. DOMAIN o = 1..Len(o) /\ Len(o) \in Nat
  BY <1>1
<1>3. o \in Surjection(1..Len(o), Events)
  BY <1>1, <1>2 DEF Range, Surjection
<1>4. IsFiniteSet(Events)
  BY <1>2, <1>3, FS_Interval, FS_Surjection
<1>5. \A e \in Events : Place(o, e) \in DOMAIN o /\ o[Place(o, e)] = e
  BY <1>1 DEF Place, Range
<1> QED
  BY <1>2, <1>4, <1>5

(* The rank of an event among rows: from one to their number, and no two   *)
(* are alike.                                                              *)
LEMMA RankFacts ==
    ASSUME NEW o \in Orders, NEW rows \in SUBSET Events
    PROVE  /\ IsFiniteSet(rows) /\ Cardinality(rows) \in Nat
           /\ \A e \in rows : Rank(o, rows, e) \in 1..Cardinality(rows)
           /\ \A e, x \in rows : Rank(o, rows, e) = Rank(o, rows, x) => e = x
<1> DEFINE Upto(e) == {x \in rows : Place(o, x) <= Place(o, e)}
<1>1. IsFiniteSet(rows) /\ Cardinality(rows) \in Nat
  BY PlaceFacts, FS_Subset, FS_CardinalityType
<1>2. \A e \in rows : Place(o, e) \in Nat /\ o[Place(o, e)] = e
  BY PlaceFacts
<1>3. \A e \in rows : /\ IsFiniteSet(Upto(e)) /\ e \in Upto(e)
                      /\ Cardinality(Upto(e)) \in Nat
                      /\ Cardinality(Upto(e)) <= Cardinality(rows)
                      /\ Cardinality(Upto(e)) # 0
  <2> TAKE e \in rows
  <2>1. Upto(e) \in SUBSET rows /\ e \in Upto(e)
    BY <1>2
  <2> HIDE DEF Upto
  <2> QED
    BY <1>1, <2>1, FS_Subset, FS_CardinalityType, FS_EmptySet
<1>4. \A e, x \in rows : Place(o, e) < Place(o, x) => Cardinality(Upto(e)) < Cardinality(Upto(x))
  <2> SUFFICES ASSUME NEW e \in rows, NEW x \in rows, Place(o, e) < Place(o, x)
               PROVE  Cardinality(Upto(e)) < Cardinality(Upto(x))
    OBVIOUS
  <2>1. Upto(e) \in SUBSET Upto(x) /\ x \in Upto(x) /\ x \notin Upto(e)
    BY <1>2
  <2> HIDE DEF Upto
  <2>2. Cardinality(Upto(e)) <= Cardinality(Upto(x)) /\ Cardinality(Upto(e)) # Cardinality(Upto(x))
    BY <1>3, <2>1, FS_Subset
  <2> QED
    BY <1>3, <2>2
<1>5. \A e \in rows : Rank(o, rows, e) = Cardinality(Upto(e))
  BY DEF Rank
<1> HIDE DEF Upto
<1>6. \A e \in rows : Rank(o, rows, e) \in 1..Cardinality(rows)
  BY <1>1, <1>3, <1>5
<1>7. ASSUME NEW e \in rows, NEW x \in rows, Rank(o, rows, e) = Rank(o, rows, x) PROVE e = x
  <2>1. ~(Place(o, e) < Place(o, x)) /\ ~(Place(o, x) < Place(o, e))
    BY <1>3, <1>4, <1>5, <1>7
  <2>2. Place(o, e) = Place(o, x)
    BY <1>2, <2>1
  <2> QED
    BY <1>2, <2>2
<1> QED
  BY <1>1, <1>6, <1>7

(* Every place of a listing is taken by one row. *)
LEMMA OrderedFacts ==
    ASSUME order \in Orders, NEW rows \in SUBSET Events
    PROVE  /\ Ordered(rows) \in Seq(rows) /\ Len(Ordered(rows)) = Cardinality(rows)
           /\ \A n \in 1..Cardinality(rows) : \A e \in rows :
                 Ordered(rows)[n] = e <=> Rank(order, rows, e) = n
<1> DEFINE f == [e \in rows |-> Rank(order, rows, e)]
           size == Cardinality(rows)
<1>1. IsFiniteSet(rows) /\ size \in Nat
  BY RankFacts
<1>2. f \in Injection(rows, 1..size)
  BY RankFacts DEF Injection, IsInjective
<1>3. IsFiniteSet(1..size) /\ Cardinality(1..size) = size
  BY <1>1, FS_Interval
<1>4. f \in Surjection(rows, 1..size)
  <2> HIDE DEF f
  <2> QED
    BY <1>1, <1>2, <1>3, FS_Injection
<1>5. \A n \in 1..size : \E e \in rows : Rank(order, rows, e) = n
  BY <1>4 DEF Surjection
<1>6. \A n \in 1..size : /\ Ordered(rows)[n] \in rows
                         /\ Rank(order, rows, Ordered(rows)[n]) = n
  BY <1>5 DEF Ordered
<1>7. Ordered(rows) \in Seq(rows) /\ Len(Ordered(rows)) = size
  BY <1>1, <1>6 DEF Ordered
<1> QED
  BY <1>6, <1>7, RankFacts

(* What lands moves a row to later places, never to earlier ones. *)
LEMMA RankGrows ==
    ASSUME NEW o \in Orders, NEW more \in SUBSET Events, NEW rows \in SUBSET more,
           NEW e \in rows
    PROVE  /\ Rank(o, rows, e) \in Nat /\ Rank(o, more, e) \in Nat
           /\ Rank(o, rows, e) <= Rank(o, more, e)
           /\ Cardinality(rows) <= Cardinality(more)
<1>1. IsFiniteSet(more) /\ rows \in SUBSET Events /\ e \in more
  BY RankFacts
<1>2. /\ {x \in rows : Place(o, x) <= Place(o, e)} \in SUBSET {x \in more : Place(o, x) <= Place(o, e)}
      /\ {x \in more : Place(o, x) <= Place(o, e)} \in SUBSET more
  OBVIOUS
<1>3. IsFiniteSet({x \in more : Place(o, x) <= Place(o, e)})
  BY <1>1, <1>2, FS_Subset
<1>4. Rank(o, rows, e) <= Rank(o, more, e)
  BY <1>2, <1>3, FS_Subset DEF Rank
<1> QED
  BY <1>1, <1>4, RankFacts, FS_Subset

(* --------------------------------------------------------------- a page *)

(* The first n of a sequence.                                              *)
LEMMA FirstOfFacts ==
    ASSUME NEW S, NEW s \in Seq(S), NEW n \in Nat
    PROVE  /\ FirstOf(n, s) \in Seq(S)
           /\ Len(FirstOf(n, s)) = IF n < Len(s) THEN n ELSE Len(s)
           /\ \A i \in 1..Len(FirstOf(n, s)) : FirstOf(n, s)[i] = s[i]
BY DEF FirstOf

(* What a LIMIT and an OFFSET leave of the ordered rows.                   *)
LEMMA CutFacts ==
    ASSUME order \in Orders, NEW rows \in SUBSET Events,
           NEW offset \in Nat, offset <= Cardinality(rows)
    PROVE  LET fetched == Cut(Ordered(rows), offset)
               left == Cardinality(rows) - offset
           IN  /\ fetched \in Seq(rows)
               /\ Len(fetched) = IF MaxPage + 1 < left THEN MaxPage + 1 ELSE left
               /\ \A i \in 1..Len(fetched) : fetched[i] = Ordered(rows)[offset + i]
<1> DEFINE rest == SubSeq(Ordered(rows), offset + 1, Len(Ordered(rows)))
<1>1. Cardinality(rows) \in Nat /\ MaxPage + 1 \in Nat
  BY RankFacts, ServeAssumption
<1>2. Ordered(rows) \in Seq(rows) /\ Len(Ordered(rows)) = Cardinality(rows)
  BY OrderedFacts
<1>3. /\ rest \in Seq(rows) /\ Len(rest) = Cardinality(rows) - offset
      /\ \A i \in 1..Len(rest) : rest[i] = Ordered(rows)[offset + i]
  BY <1>1, <1>2
<1>4. Cut(Ordered(rows), offset) = FirstOf(MaxPage + 1, rest)
  BY DEF Cut
<1> HIDE DEF rest
<1> QED
  BY <1>1, <1>3, <1>4, FirstOfFacts

(* A page holds the rows of its places, each once, and tells whether more  *)
(* of them remain.                                                         *)
LEMMA PageFacts ==
    ASSUME order \in Orders, NEW rows \in SUBSET Events,
           NEW offset \in Nat, offset <= Cardinality(rows),
           NEW fetched, fetched = Cut(Ordered(rows), offset)
    PROVE  /\ fetched \in Seq(rows) /\ Page(fetched) \in Seq(rows)
           /\ IsInjective(Page(fetched))
           /\ \A e \in rows : e \in Range(Page(fetched)) <=>
                 offset < Rank(order, rows, e) /\ Rank(order, rows, e) <= offset + MaxPage
           /\ Len(fetched) > MaxPage => offset + MaxPage <= Cardinality(rows)
           /\ ~(Len(fetched) > MaxPage) => Cardinality(rows) <= offset + MaxPage
<1> DEFINE page == Page(fetched)
           size == Cardinality(rows)
<1>1. size \in Nat /\ MaxPage \in Nat
  BY RankFacts, ServeAssumption
<1>2. /\ fetched \in Seq(rows)
      /\ Len(fetched) = IF MaxPage + 1 < size - offset THEN MaxPage + 1 ELSE size - offset
      /\ \A i \in 1..Len(fetched) : fetched[i] = Ordered(rows)[offset + i]
  BY CutFacts
<1>3. /\ page \in Seq(rows)
      /\ Len(page) = IF MaxPage < Len(fetched) THEN MaxPage ELSE Len(fetched)
      /\ \A i \in 1..Len(page) : page[i] = fetched[i]
  BY <1>1, <1>2, FirstOfFacts DEF Page
<1> HIDE DEF page
<1>4. Len(page) = IF MaxPage < size - offset THEN MaxPage ELSE size - offset
  BY <1>1, <1>2, <1>3
<1>5. \A i \in 1..Len(page) : /\ page[i] \in rows
                              /\ Rank(order, rows, page[i]) = offset + i
  <2> TAKE i \in 1..Len(page)
  <2>1. page[i] \in rows /\ page[i] = Ordered(rows)[offset + i] /\ offset + i \in 1..size
    BY <1>1, <1>2, <1>3, <1>4
  <2> QED
    BY <2>1, OrderedFacts
<1>6. ASSUME NEW e \in rows, offset < Rank(order, rows, e), Rank(order, rows, e) <= offset + MaxPage
      PROVE  e \in Range(page)
  <2>1. Rank(order, rows, e) \in 1..size
    BY RankFacts
  <2>2. Rank(order, rows, e) - offset \in 1..Len(page)
    BY <1>1, <1>4, <1>6, <2>1
  <2>3. page[Rank(order, rows, e) - offset] = e
    BY <1>5, <2>1, <2>2, RankFacts
  <2> QED
    BY <1>3, <2>2, <2>3 DEF Range
<1>7. ASSUME NEW e \in rows, e \in Range(page)
      PROVE  offset < Rank(order, rows, e) /\ Rank(order, rows, e) <= offset + MaxPage
  <2>1. PICK i \in 1..Len(page) : page[i] = e
    BY <1>3, <1>7 DEF Range
  <2> QED
    BY <1>1, <1>4, <1>5, <2>1
<1>8. IsInjective(page)
  <2>1. DOMAIN page = 1..Len(page)
    BY <1>3
  <2>2. \A i, j \in 1..Len(page) : page[i] = page[j] => i = j
    BY <1>1, <1>4, <1>5
  <2> QED
    BY <2>1, <2>2 DEF IsInjective
<1>9. /\ Len(fetched) > MaxPage => offset + MaxPage <= size
      /\ ~(Len(fetched) > MaxPage) => size <= offset + MaxPage
  BY <1>1, <1>2
<1> QED
  BY <1>2, <1>3, <1>6, <1>7, <1>8, <1>9 DEF page

Occurs(s, e) == {i \in DOMAIN s : s[i] = e}

Times(s, e) == Cardinality(Occurs(s, e))

(* How often an event occurs is a number, zero for one that does not.      *)
LEMMA TimesFacts ==
    ASSUME NEW s \in Seq(Events), NEW e
    PROVE  /\ IsFiniteSet(Occurs(s, e)) /\ Times(s, e) \in Nat
           /\ e \notin Range(s) => Times(s, e) = 0
<1>1. Len(s) \in Nat /\ Occurs(s, e) \in SUBSET (1..Len(s))
  BY DEF Occurs
<1>2. IsFiniteSet(1..Len(s))
  BY <1>1, FS_Interval
<1>3. IsFiniteSet(Occurs(s, e))
  BY <1>1, <1>2, FS_Subset
<1>4. e \notin Range(s) => Occurs(s, e) = {}
  BY DEF Range, Occurs
<1> QED
  BY <1>3, <1>4, FS_CardinalityType, FS_EmptySet DEF Times

(* Nothing occurs in an empty listing.                                     *)
LEMMA NothingSeen ==
    ASSUME NEW s, s = <<>>, NEW e
    PROVE  s \in Seq(Events) /\ Range(s) = {} /\ Times(s, e) = 0
<1>1. s \in Seq(Events) /\ DOMAIN s = {}
  OBVIOUS
<1>2. Range(s) = {}
  BY <1>1 DEF Range
<1> QED
  BY <1>1, <1>2, TimesFacts

(* A page without repeats adds one to how often each of its events occurs. *)
LEMMA TimesGrow ==
    ASSUME NEW s \in Seq(Events), NEW p \in Seq(Events), IsInjective(p), NEW e
    PROVE  /\ s \o p \in Seq(Events)
           /\ Range(s \o p) = Range(s) \cup Range(p)
           /\ Times(s \o p, e) = Times(s, e) + (IF e \in Range(p) THEN 1 ELSE 0)
<1>1. /\ DOMAIN s = 1..Len(s) /\ DOMAIN p = 1..Len(p) /\ DOMAIN (s \o p) = 1..Len(s) + Len(p)
      /\ Len(s) \in Nat /\ Len(p) \in Nat
      /\ \A i \in 1..Len(s) : (s \o p)[i] = s[i]
      /\ \A i \in 1..Len(p) : (s \o p)[Len(s) + i] = p[i]
      /\ s \o p \in Seq(Events)
  OBVIOUS
<1>2. \A i \in 1..Len(s) + Len(p) : i \in 1..Len(s) \/ \E j \in 1..Len(p) : i = Len(s) + j
  <2> TAKE i \in 1..Len(s) + Len(p)
  <2>1. i \notin 1..Len(s) => i - Len(s) \in 1..Len(p) /\ i = Len(s) + (i - Len(s))
    BY <1>1
  <2> QED
    BY <2>1
<1>3. \A j \in 1..Len(p) : Len(s) + j \in 1..Len(s) + Len(p) /\ Len(s) + j \notin 1..Len(s)
  BY <1>1
<1>4. 1..Len(s) \subseteq 1..Len(s) + Len(p)
  BY <1>1
<1> DEFINE both == s \o p
<1> HIDE DEF both
<1>5. /\ DOMAIN both = 1..Len(s) + Len(p)
      /\ \A i \in 1..Len(s) : both[i] = s[i]
      /\ \A i \in 1..Len(p) : both[Len(s) + i] = p[i]
  BY <1>1 DEF both
<1>6. \A i \in DOMAIN both : \/ i \in DOMAIN s /\ both[i] = s[i]
                            \/ \E j \in DOMAIN p : i = Len(s) + j /\ both[i] = p[j]
  <2> TAKE i \in DOMAIN both
  <2>1. CASE i \in 1..Len(s)
    BY <1>1, <1>5, <2>1
  <2>2. CASE i \notin 1..Len(s)
    <3>1. i \in 1..Len(s) + Len(p)
      BY <1>5
    <3>2. PICK j \in 1..Len(p) : i = Len(s) + j
      BY <1>2, <2>2, <3>1
    <3>3. j \in DOMAIN p /\ both[i] = p[j]
      BY <1>1, <1>5, <3>2
    <3> QED
      BY <3>2, <3>3
  <2> QED
    BY <2>1, <2>2
<1>7. Range(both) = Range(s) \cup Range(p)
  <2>1. \A x \in Range(both) : x \in Range(s) \cup Range(p)
    BY <1>6 DEF Range
  <2>2. \A x \in Range(s) : x \in Range(both)
    BY <1>1, <1>4, <1>5 DEF Range
  <2>3. \A x \in Range(p) : x \in Range(both)
    BY <1>1, <1>3, <1>5 DEF Range
  <2> QED
    BY <2>1, <2>2, <2>3
<1>8. IsFiniteSet(Occurs(s, e)) /\ Times(s, e) \in Nat
  BY TimesFacts
<1>9. CASE e \notin Range(p)
  <2>1. Occurs(both, e) \subseteq Occurs(s, e)
    BY <1>9, <1>6 DEF Range, Occurs
  <2>2. Occurs(s, e) \subseteq Occurs(both, e)
    BY <1>1, <1>4, <1>5 DEF Occurs
  <2>3. Occurs(both, e) = Occurs(s, e)
    BY <2>1, <2>2
  <2> QED
    BY <1>1, <1>7, <1>8, <1>9, <2>3 DEF Times, both
<1>10. CASE e \in Range(p)
  <2>1. PICK j \in 1..Len(p) : p[j] = e
    BY <1>1, <1>10 DEF Range
  <2>2. \A i \in 1..Len(p) : p[i] = e => i = j
    BY <1>1, <2>1 DEF IsInjective
  <2>3. Occurs(both, e) \subseteq Occurs(s, e) \cup {Len(s) + j}
    BY <1>1, <1>6, <2>2 DEF Occurs
  <2>4. Occurs(s, e) \cup {Len(s) + j} \subseteq Occurs(both, e)
    BY <1>1, <1>3, <1>4, <1>5, <2>1 DEF Occurs
  <2>5. Occurs(both, e) = Occurs(s, e) \cup {Len(s) + j}
    BY <2>3, <2>4
  <2>6. Len(s) + j \notin Occurs(s, e)
    BY <1>1, <1>3 DEF Occurs
  <2>7. Cardinality(Occurs(both, e)) = Cardinality(Occurs(s, e)) + 1
    BY <1>8, <2>5, <2>6, FS_AddElement
  <2> QED
    BY <1>1, <1>7, <1>10, <2>7 DEF Times, both
<1> QED
  BY <1>9, <1>10

(* ---------------------------------------------------------- invariants -- *)

Prefix(op, k) == {Queries[op][i] : i \in 1..k}

IsRequest(r) ==
    /\ r = [op |-> r.op, tool |-> r.tool, failedOnly |-> r.failedOnly,
            key |-> r.key, offset |-> r.offset, done |-> r.done]
    /\ r.op \in DOMAIN Queries /\ r.offset \in Nat /\ r.done \in BOOLEAN

IsListing(l) ==
    /\ l = [op |-> l.op, todo |-> l.todo, seen |-> l.seen, end |-> l.end]
    /\ l.op \in Listings /\ l.seen \in Seq(Events) /\ l.end \in {"no", "served", "not found"}

(* What is there, and that the queries of a request are made in order.     *)
Shape ==
    /\ order \in Orders /\ events \subseteq Events
    /\ had = [events |-> had.events, ingests |-> had.ingests]
    /\ had.events \subseteq events /\ had.ingests \in Nat
    /\ \/ listing = None /\ request = None
       \/ listing = None /\ IsRequest(request) /\ request.op \notin Listings
       \/ IsListing(listing) /\ IsRequest(request) /\ request.op \in Listings
    /\ request # None =>
          /\ \E k \in 0..Len(Queries[request.op]) : DOMAIN answer = Prefix(request.op, k)
          /\ request.done /\ request.op \notin {"session", "log"} =>
                DOMAIN answer = Range(Queries[request.op])
          /\ request.op # "session" => request.key = None

(* The rows that a request pages through, in a case of these events, and   *)
(* the query that cuts a page of them.                                     *)
RowsOf(r, t) ==
    {e \in t : /\ r.op = "tools" => Wanted(t, r.tool, r.failedOnly, e)
               /\ r.op = "session" => GroupKey(t, e.group) = r.key}

PageQuery(r) ==
    CASE r.op = "tools" -> "calls"
      [] r.op = "pages" -> "page of rows"
      [] r.op = "session" -> "session's rows"

Fetching == Asked(PageQuery(request))

(* What a client has got with the page that is fetched, and the last place *)
(* of the listing that it has got.                                         *)
Got == IF Fetching THEN listing.seen \o Page(answer[PageQuery(request)]) ELSE listing.seen
Reach == IF Fetching THEN request.offset + MaxPage ELSE request.offset

(* In the middle of a listing the client has got every row that it may     *)
(* expect and that stands within its reach now, because rows only move     *)
(* away from the beginning; and a row beyond its reach as often as an      *)
(* ingest has moved it there.                                              *)
PageInv ==
    /\ Fetching =>
          /\ Page(answer[PageQuery(request)]) \in Seq(Events)
          /\ IsInjective(Page(answer[PageQuery(request)]))
          /\ Range(Page(answer[PageQuery(request)])) \subseteq RowsOf(request, events)
          /\ IF Len(answer[PageQuery(request)]) > MaxPage
             THEN request.offset + MaxPage <= Cardinality(RowsOf(request, events))
             ELSE RowsOf(request, had.events) \subseteq Range(Got)
    /\ ~Fetching => request.offset <= Cardinality(RowsOf(request, events))
    /\ request.op # "session" => Range(listing.seen) \subseteq RowsOf(request, events)
    /\ \A e \in RowsOf(request, had.events) :
          Rank(order, RowsOf(request, events), e) <= Reach => e \in Range(Got)
    /\ \A e \in RowsOf(request, events) :
          Times(Got, e) <= had.ingests
              + (IF Rank(order, RowsOf(request, events), e) <= Reach THEN 1 ELSE 0)

(* A log goes through the sessions that it has read, and none of them is   *)
(* ever gone.                                                              *)
LogInv ==
    /\ listing.end # "not found"
    /\ listing.todo \subseteq Sessions(events)
    /\ \A e \in Range(listing.seen) : GroupKey(events, e.group) \notin listing.todo
    /\ request.op = "log" => /\ listing.seen = <<>>
                             /\ ~request.done => listing.todo = {}
                             /\ request.done => Sessions(had.events) \subseteq listing.todo
                             /\ Asked("sessions") =>
                                   /\ Sessions(had.events) \subseteq answer["sessions"]
                                   /\ answer["sessions"] \subseteq Sessions(events)
    /\ request.op = "session" =>
          /\ request.key \in Sessions(events) \ listing.todo
          /\ Asked("sessions") => request.key \in answer["sessions"]
          /\ \A e \in had.events :
                \/ GroupKey(events, e.group) \in listing.todo
                \/ ~request.done /\ GroupKey(events, e.group) = request.key
                \/ e \in Range(listing.seen)

ListingInv ==
    listing # None =>
        /\ \/ request.op = listing.op
           \/ listing.op = "log" /\ request.op = "session"
        /\ Range(listing.seen) \subseteq events
        /\ \A e \in Events : Times(listing.seen, e) <= 1 + had.ingests
        /\ ~request.done => listing.end = "no"
        /\ listing.op # "log" => listing.todo = {}
        /\ listing.op = "log" => LogInv
        /\ ~request.done /\ request.op # "log" => PageInv
        /\ listing.end = "served" =>
              /\ listing.todo = {}
              /\ listing.op # "log" => RowsOf(request, had.events) \subseteq Range(listing.seen)

(* ---------------------------------------------- a request's queries -- *)

Listed(q) == Len(q) \in Nat /\ DOMAIN q = 1..Len(q) /\ IsInjective(q)

(* The queries of a request are a list without repeats.                    *)
LEMMA QueriesListed ==
    ASSUME NEW op \in DOMAIN Queries
    PROVE  Listed(Queries[op])
<1>1. Listed(SummaryQueries)
  <2> DEFINE q == SummaryQueries
  <2>1. DOMAIN q = 1..Len(q) /\ Len(q) \in Nat
    BY DEF SummaryQueries
  <2>2. /\ DOMAIN q = {1, 2, 3, 4, 5, 6} /\ q[1] = "events" /\ q[2] = "unread"
        /\ q[3] = "agents" /\ q[4] = "kinds" /\ q[5] = "runs" /\ q[6] = "unread by artifact"
    BY DEF SummaryQueries
  <2> HIDE DEF q
  <2>3. IsInjective(q)
    BY <2>2 DEF IsInjective
  <2> QED
    BY <2>1, <2>3 DEF q, Listed
<1>2. Listed(FindingsQueries)
  <2> DEFINE q == FindingsQueries
  <2>1. DOMAIN q = 1..Len(q) /\ Len(q) \in Nat
    BY DEF FindingsQueries
  <2>2. /\ DOMAIN q = {1, 2, 3}
        /\ q[1] = "runs" /\ q[2] = "findings" /\ q[3] = "findings' events"
    BY DEF FindingsQueries
  <2> HIDE DEF q
  <2>3. IsInjective(q)
    BY <2>2 DEF IsInjective
  <2> QED
    BY <2>1, <2>3 DEF q, Listed
<1>3. Listed(ToolQueries)
  <2> DEFINE q == ToolQueries
  <2>1. DOMAIN q = 1..Len(q) /\ Len(q) \in Nat
    BY DEF ToolQueries
  <2>2. /\ DOMAIN q = {1, 2, 3, 4}
        /\ q[1] = "by tool" /\ q[2] = "calls" /\ q[3] = "results" /\ q[4] = "failed"
    BY DEF ToolQueries
  <2> HIDE DEF q
  <2>3. IsInjective(q)
    BY <2>2 DEF IsInjective
  <2> QED
    BY <2>1, <2>3 DEF q, Listed
<1>4. Listed(TimelineQueries)
  <2> DEFINE q == TimelineQueries
  <2>1. DOMAIN q = 1..Len(q) /\ Len(q) \in Nat
    BY DEF TimelineQueries
  <2>2. /\ DOMAIN q = {1, 2, 3}
        /\ q[1] = "rows" /\ q[2] = "events" /\ q[3] = "unread"
    BY DEF TimelineQueries
  <2> HIDE DEF q
  <2>3. IsInjective(q)
    BY <2>2 DEF IsInjective
  <2> QED
    BY <2>1, <2>3 DEF q, Listed
<1>5. Listed(SessionQueries)
  <2> DEFINE q == SessionQueries
  <2>1. DOMAIN q = 1..Len(q) /\ Len(q) \in Nat
    BY DEF SessionQueries
  <2>2. DOMAIN q = {1, 2} /\ q[1] = "sessions" /\ q[2] = "session's rows"
    BY DEF SessionQueries
  <2> HIDE DEF q
  <2>3. IsInjective(q)
    BY <2>2 DEF IsInjective
  <2> QED
    BY <2>1, <2>3 DEF q, Listed
<1>6. ASSUME NEW x PROVE Listed(<<x>>)
  <2>1. Len(<<x>>) = 1 /\ DOMAIN <<x>> = 1..1
    OBVIOUS
  <2>2. IsInjective(<<x>>)
    BY DEF IsInjective
  <2> QED
    BY <2>1, <2>2 DEF Listed
<1>7. Listed(Queries["log"]) /\ Listed(Queries["pages"]) /\ Listed(Queries["corroboration"])
  BY <1>6 DEF Queries
<1>8. /\ Queries["case"] = SummaryQueries /\ Queries["findings"] = FindingsQueries
      /\ Queries["tools"] = ToolQueries /\ Queries["timeline"] = TimelineQueries
      /\ Queries["session"] = SessionQueries
  BY DEF Queries
<1>9. op \in {"case", "findings", "tools", "timeline", "session", "log", "pages", "corroboration"}
  BY DEF Queries
<1> QED
  BY <1>1, <1>2, <1>3, <1>4, <1>5, <1>7, <1>8, <1>9

(* The first k queries of a request are k, and the next is not among them. *)
LEMMA PrefixFacts ==
    ASSUME NEW op \in DOMAIN Queries, NEW k \in 0..Len(Queries[op])
    PROVE  /\ Cardinality(Prefix(op, k)) = k
           /\ k = Len(Queries[op]) => Prefix(op, k) = Range(Queries[op])
           /\ k < Len(Queries[op]) =>
                 /\ Queries[op][k + 1] \notin Prefix(op, k)
                 /\ Prefix(op, k + 1) = Prefix(op, k) \cup {Queries[op][k + 1]}
<1> DEFINE q == Queries[op]
<1>1. Listed(q)
  BY QueriesListed
<1> HIDE DEF q
<1>2. Len(q) \in Nat /\ DOMAIN q = 1..Len(q)
  BY <1>1 DEF Listed
<1>3. k \in 0..Len(q) /\ Prefix(op, k) = {q[i] : i \in 1..k}
  BY DEF q, Prefix
<1>4. \A i, j \in 1..Len(q) : q[i] = q[j] => i = j
  BY <1>1, <1>2 DEF Listed, IsInjective
<1> DEFINE f == [i \in 1..k |-> q[i]]
<1>5. f \in Bijection(1..k, Prefix(op, k))
  BY <1>2, <1>3, <1>4 DEF Bijection, Injection, Surjection, IsInjective
<1> HIDE DEF f
<1>6. ExistsBijection(1..k, Prefix(op, k))
  BY <1>5 DEF ExistsBijection
<1>7. IsFiniteSet(1..k) /\ Cardinality(1..k) = k
  BY <1>2, <1>3, FS_Interval
<1>8. Cardinality(Prefix(op, k)) = k
  BY <1>6, <1>7, FS_Bijection
<1>9. k = Len(q) => Prefix(op, k) = Range(q)
  BY <1>2, <1>3 DEF Range
<1>10. ASSUME k < Len(q)
       PROVE  /\ q[k + 1] \notin Prefix(op, k)
              /\ Prefix(op, k + 1) = Prefix(op, k) \cup {q[k + 1]}
  <2>1. k + 1 \in 1..Len(q) /\ k + 1 \notin 1..k /\ 1..k \subseteq 1..Len(q)
    BY <1>2, <1>3, <1>10
  <2>2. 1..(k + 1) = (1..k) \cup {k + 1}
    BY <1>2, <1>3
  <2>3. q[k + 1] \notin Prefix(op, k)
    BY <1>3, <1>4, <2>1
  <2>4. Prefix(op, k + 1) = {q[i] : i \in 1..(k + 1)}
    BY DEF q, Prefix
  <2> QED
    BY <1>3, <2>2, <2>3, <2>4
<1> QED
  BY <1>8, <1>9, <1>10 DEF q

(* The k-th query is asked after the k - 1 before it, and adds its finding.*)
Asks(q, k) ==
    /\ k \in 1..Len(Queries[request.op])
    /\ q = Queries[request.op][k] /\ q \notin DOMAIN answer
    /\ DOMAIN answer = Prefix(request.op, k - 1)
    /\ DOMAIN answer' = Prefix(request.op, k)
    /\ DOMAIN answer' = DOMAIN answer \cup {q}
    /\ \A x \in DOMAIN answer : answer'[x] = answer[x]
    /\ answer'[q] = Result(q)

(* A step that asks the case asks the next query of its request.           *)
LEMMA QueryAsks ==
    ASSUME Shape, Query
    PROVE  \E k \in Nat : Asks(Queries[request.op][k], k)
<1> DEFINE q == Queries[request.op][Cardinality(DOMAIN answer) + 1]
           n == Cardinality(DOMAIN answer)
<1>1. request # None /\ request.op \in DOMAIN Queries
  BY DEF Shape, Query, Answering, IsRequest
<1>2. PICK k \in 0..Len(Queries[request.op]) : DOMAIN answer = Prefix(request.op, k)
  BY <1>1 DEF Shape
<1>3. Len(Queries[request.op]) \in Nat
  BY <1>1, QueriesListed DEF Listed
<1>4. k = n /\ k < Len(Queries[request.op])
  BY <1>1, <1>2, PrefixFacts DEF Query
<1>5. /\ q \notin Prefix(request.op, k)
      /\ Prefix(request.op, k + 1) = Prefix(request.op, k) \cup {q}
  BY <1>1, <1>2, <1>4, PrefixFacts
<1>6. answer' = [x \in DOMAIN answer \cup {q} |-> IF x = q THEN Result(q) ELSE answer[x]]
  BY DEF Query
<1>7. /\ DOMAIN answer' = DOMAIN answer \cup {q}
      /\ q \notin DOMAIN answer =>
            \A x \in DOMAIN answer : answer'[x] = answer[x]
      /\ answer'[q] = Result(q)
  <2> HIDE DEF q
  <2> QED
    BY <1>6
<1>8. k + 1 \in 1..Len(Queries[request.op]) /\ (k + 1) - 1 = k /\ k + 1 \in Nat
  BY <1>2, <1>3, <1>4
<1>9. q = Queries[request.op][k + 1]
  BY <1>4
<1>10. Asks(q, k + 1)
  <2> HIDE DEF q
  <2> QED
    BY <1>2, <1>5, <1>7, <1>8, <1>9 DEF Asks
<1> QED
  BY <1>8, <1>9, <1>10

(* The queries of each request, in the order they are asked.               *)
LEMMA QueryNames ==
    /\ DOMAIN Queries = {"case", "findings", "tools", "timeline", "session", "log", "pages",
                         "corroboration"}
    /\ DOMAIN Queries["case"] = {1, 2, 3, 4, 5, 6} /\ Queries["case"][1] = "events"
    /\ Queries["case"][2] = "unread" /\ Queries["case"][3] = "agents"
    /\ Queries["case"][4] = "kinds" /\ Queries["case"][5] = "runs"
    /\ Queries["case"][6] = "unread by artifact"
    /\ DOMAIN Queries["findings"] = {1, 2, 3} /\ Queries["findings"][1] = "runs"
    /\ Queries["findings"][2] = "findings" /\ Queries["findings"][3] = "findings' events"
    /\ DOMAIN Queries["tools"] = {1, 2, 3, 4} /\ Queries["tools"][1] = "by tool"
    /\ Queries["tools"][2] = "calls" /\ Queries["tools"][3] = "results"
    /\ Queries["tools"][4] = "failed"
    /\ DOMAIN Queries["timeline"] = {1, 2, 3} /\ Queries["timeline"][1] = "rows"
    /\ Queries["timeline"][2] = "events" /\ Queries["timeline"][3] = "unread"
    /\ DOMAIN Queries["session"] = {1, 2} /\ Queries["session"][1] = "sessions"
    /\ Queries["session"][2] = "session's rows"
    /\ DOMAIN Queries["log"] = {1} /\ Queries["log"][1] = "sessions"
    /\ DOMAIN Queries["pages"] = {1} /\ Queries["pages"][1] = "page of rows"
    /\ DOMAIN Queries["corroboration"] = {1} /\ Queries["corroboration"][1] = "stores"
<1>1. DOMAIN Queries = {"case", "findings", "tools", "timeline", "session", "log", "pages",
                        "corroboration"}
  BY DEF Queries
<1>2. /\ DOMAIN Queries["case"] = {1, 2, 3, 4, 5, 6} /\ Queries["case"][1] = "events"
      /\ Queries["case"][2] = "unread" /\ Queries["case"][3] = "agents"
      /\ Queries["case"][4] = "kinds" /\ Queries["case"][5] = "runs"
      /\ Queries["case"][6] = "unread by artifact"
  BY DEF Queries, SummaryQueries
<1>3. /\ DOMAIN Queries["findings"] = {1, 2, 3} /\ Queries["findings"][1] = "runs"
      /\ Queries["findings"][2] = "findings"
      /\ Queries["findings"][3] = "findings' events"
  BY DEF Queries, FindingsQueries
<1>4. /\ DOMAIN Queries["tools"] = {1, 2, 3, 4} /\ Queries["tools"][1] = "by tool"
      /\ Queries["tools"][2] = "calls" /\ Queries["tools"][3] = "results"
      /\ Queries["tools"][4] = "failed"
  BY DEF Queries, ToolQueries
<1>5. /\ DOMAIN Queries["timeline"] = {1, 2, 3} /\ Queries["timeline"][1] = "rows"
      /\ Queries["timeline"][2] = "events" /\ Queries["timeline"][3] = "unread"
  BY DEF Queries, TimelineQueries
<1>6. /\ DOMAIN Queries["session"] = {1, 2} /\ Queries["session"][1] = "sessions"
      /\ Queries["session"][2] = "session's rows"
  BY DEF Queries, SessionQueries
<1>7. /\ DOMAIN Queries["log"] = {1} /\ Queries["log"][1] = "sessions"
  BY DEF Queries
<1>8. /\ DOMAIN Queries["pages"] = {1} /\ Queries["pages"][1] = "page of rows"
  BY DEF Queries
<1>9. /\ DOMAIN Queries["corroboration"] = {1} /\ Queries["corroboration"][1] = "stores"
  BY DEF Queries
<1> QED
  BY <1>1, <1>2, <1>3, <1>4, <1>5, <1>6, <1>7, <1>8, <1>9

(* A query that is asked under only some requests tells which they are.    *)
LEMMA OnlyAsked ==
    ASSUME Shape, request # None
    PROVE  /\ Asked("sessions") => request.op \in {"session", "log"}
           /\ request.op = "tools" /\ Complete => Asked("calls")
           /\ request.op = "pages" /\ Complete => Asked("page of rows")
           /\ request.op = "session" /\ Complete => Asked("sessions") /\ Asked("session's rows")
           /\ request.op = "log" /\ Complete => Asked("sessions")
<1>1. request.op \in DOMAIN Queries /\ Listed(Queries[request.op])
  BY QueriesListed DEF Shape, IsRequest
<1>2. DOMAIN answer \subseteq Range(Queries[request.op])
  <2>1. PICK k \in 0..Len(Queries[request.op]) : DOMAIN answer = Prefix(request.op, k)
    BY DEF Shape
  <2>2. 1..k \subseteq DOMAIN Queries[request.op]
    BY <1>1 DEF Listed
  <2> QED
    BY <2>1, <2>2 DEF Prefix, Range
<1>3. "sessions" \in Range(Queries[request.op]) => request.op \in {"session", "log"}
  BY <1>1, QueryNames, ZenonT(30) DEF Range
<1>4. /\ "calls" \in Range(Queries["tools"])
      /\ "page of rows" \in Range(Queries["pages"])
      /\ "sessions" \in Range(Queries["session"]) /\ "session's rows" \in Range(Queries["session"])
      /\ "sessions" \in Range(Queries["log"])
  BY QueryNames, ZenonT(30) DEF Range
<1> QED
  BY <1>2, <1>3, <1>4 DEF Asked, Complete

(* A page is served: its rows were fetched by the query of its request.    *)
LEMMA PageIsFetched ==
    ASSUME Shape, ListingInv, Complete, listing # None, request.op # "log"
    PROVE  /\ request.op \in {"tools", "pages", "session"}
           /\ IsListing(listing) /\ IsRequest(request) /\ ~request.done
           /\ Fetching /\ Fetched = answer[PageQuery(request)]
           /\ PageInv
<1>1. /\ request # None /\ IsListing(listing) /\ IsRequest(request) /\ ~request.done
      /\ request.op \in {"tools", "pages", "session"}
  BY DEF Complete, Answering, Shape, Listings
<1>2. Fetching
  BY <1>1, OnlyAsked DEF Fetching, PageQuery
<1>3. Fetched = answer[PageQuery(request)]
  BY <1>1 DEF Fetched, PageQuery
<1> QED
  BY <1>1, <1>2, <1>3 DEF ListingInv

(* The server begins of its shape.                                         *)
LEMMA ShapeInit == Init => Shape
<1> SUFFICES ASSUME Init PROVE Shape
  OBVIOUS
<1> QED
  BY DEF Init, Shape

(* Every step keeps the shape.                                             *)
LEMMA ShapeStep ==
    ASSUME Shape, ListingInv, [Next]_vars
    PROVE  Shape'
<1>1. ASSUME Ingest PROVE Shape'
  <2>1. /\ events' \subseteq Events /\ events \subseteq events'
        /\ UNCHANGED <<order, request, answer, listing>>
        /\ had' = [had EXCEPT !.ingests = @ + 1]
    BY <1>1, ServeAssumption DEF Ingest, Shape
  <2>2. /\ had' = [events |-> had'.events, ingests |-> had'.ingests]
        /\ had'.events = had.events /\ had'.ingests = had.ingests + 1
    BY <2>1 DEF Shape
  <2> QED
    BY <2>1, <2>2 DEF Shape
<1>2. ASSUME Scan PROVE Shape'
  BY <1>2 DEF Scan, Shape, IsRequest, IsListing
<1>3. ASSUME NEW r \in Requests, Receive(r) PROVE Shape'
  <2>1. r.op \in DOMAIN Queries /\ (r.key # None <=> r.op = "session") /\ Listed(Queries[r.op])
    BY RequestsAssumption, QueriesListed
  <2>2. \A op : DOMAIN Nothing = Prefix(op, 0)
    BY DEF Nothing, Prefix
  <2>3. /\ order' \in Orders /\ events' \subseteq Events
        /\ had' = [events |-> had'.events, ingests |-> had'.ingests]
        /\ had'.events \subseteq events' /\ had'.ingests \in Nat
    BY <1>3 DEF Receive, Shape
  <2>4. CASE Refusal(r).status = 200
    <3>1. /\ request' = [op |-> r.op, tool |-> r.tool, failedOnly |-> r.failedOnly,
                         key |-> r.key, offset |-> 0, done |-> FALSE]
          /\ listing' = IF r.op \in Listings
                        THEN [op |-> r.op, todo |-> {}, seen |-> <<>>, end |-> "no"]
                        ELSE None
          /\ answer' = Nothing
      BY <1>3, <2>4 DEF Receive
    <3>2. IsRequest(request') /\ request'.op = r.op /\ request'.key = r.key /\ ~request'.done
      BY <2>1, <3>1 DEF IsRequest
    <3>3. r.op \in Listings => IsListing(listing')
      BY <3>1 DEF IsListing
    <3>4. 0 \in 0..Len(Queries[r.op])
      BY <2>1 DEF Listed
    <3> QED
      BY <2>1, <2>2, <2>3, <3>1, <3>2, <3>3, <3>4 DEF Shape
  <2>5. CASE Refusal(r).status # 200
    BY <1>3, <2>3, <2>5 DEF Receive, Shape
  <2> QED
    BY <2>4, <2>5
<1>4. ASSUME Reconnect PROVE Shape'
  BY <1>4 DEF Reconnect, Shape, IsRequest, IsListing
<1>5. ASSUME Query PROVE Shape'
  <2>1. /\ UNCHANGED <<events, order, request, listing, had>>
        /\ request # None /\ ~request.done
    BY <1>5 DEF Query, Answering
  <2>2. PICK k \in Nat : Asks(Queries[request.op][k], k)
    BY <1>5, QueryAsks
  <2>3. k \in 0..Len(Queries[request.op]) /\ DOMAIN answer' = Prefix(request.op, k)
    BY <2>2 DEF Asks
  <2> QED
    BY <2>1, <2>3 DEF Shape, IsRequest, IsListing
<1>6. ASSUME Answer PROVE Shape'
  <2>1. /\ UNCHANGED <<events, order, answer, listing, had>>
        /\ request # None /\ request.op \notin Listings
        /\ request' = [request EXCEPT !.done = TRUE]
        /\ DOMAIN answer = Range(Queries[request.op])
    BY <1>6 DEF Answer, Complete, Answering
  <2>2. listing = None /\ IsRequest(request)
    BY <2>1 DEF Shape
  <2>3. IsRequest(request') /\ request'.op = request.op /\ request'.key = request.key
    BY <2>1, <2>2 DEF IsRequest
  <2> QED
    BY <2>1, <2>2, <2>3 DEF Shape
<1>7. ASSUME NextPage PROVE Shape'
  <2>1. /\ request.op \in {"tools", "pages", "session"}
        /\ IsListing(listing) /\ IsRequest(request)
        /\ Fetching /\ Fetched = answer[PageQuery(request)] /\ PageInv
        /\ request # None /\ DOMAIN answer = Range(Queries[request.op])
    BY <1>7, PageIsFetched DEF NextPage, Complete, Answering
  <2>2. listing.seen \o Page(Fetched) \in Seq(Events)
    <3>1. Page(Fetched) \in Seq(Events)
      BY <2>1 DEF PageInv
    <3>2. listing.seen \in Seq(Events)
      BY <2>1 DEF IsListing
    <3> QED
      BY <3>1, <3>2
  <2>3. IsListing(listing')
    BY <1>7, <2>1, <2>2 DEF NextPage, IsListing
  <2>4. UNCHANGED <<events, order, had>>
    BY <1>7 DEF NextPage
  <2>5. CASE NextOffset(Fetched, request.offset) # None
    <3>1. /\ request' = [op |-> request.op, tool |-> request.tool, failedOnly |-> request.failedOnly,
                         key |-> request.key, offset |-> request.offset + MaxPage, done |-> FALSE]
          /\ answer' = Nothing
      BY <1>7, <2>5 DEF NextPage, Ask, NextOffset
    <3>2. IsRequest(request') /\ request'.op = request.op /\ request'.key = request.key
      BY <2>1, <3>1, ServeAssumption DEF IsRequest
    <3>3. DOMAIN answer' = Prefix(request.op, 0) /\ 0 \in 0..Len(Queries[request.op])
      BY <2>1, <3>1, QueriesListed DEF Nothing, Prefix, Listed, IsRequest
    <3> QED
      BY <2>1, <2>3, <2>4, <3>1, <3>2, <3>3 DEF Shape, Listings
  <2>6. CASE NextOffset(Fetched, request.offset) = None
    <3>1. request' = [request EXCEPT !.done = TRUE] /\ answer' = answer
      BY <1>7, <2>6 DEF NextPage
    <3>2. IsRequest(request') /\ request'.op = request.op /\ request'.key = request.key
      BY <2>1, <3>1 DEF IsRequest
    <3> QED
      BY <2>1, <2>3, <2>4, <3>1, <3>2 DEF Shape, Listings
  <2> QED
    BY <2>5, <2>6
<1>8. ASSUME ReadSessions PROVE Shape'
  <2>1. /\ UNCHANGED <<events, order, answer, had>>
        /\ request # None /\ request.op = "log" /\ request.op \in Listings
        /\ request' = [request EXCEPT !.done = TRUE]
        /\ listing' = [listing EXCEPT !.todo = answer["sessions"],
                         !.end = IF answer["sessions"] = {} THEN "served" ELSE @]
    BY <1>8 DEF ReadSessions, Complete, Answering, Listings
  <2>2. IsListing(listing) /\ IsRequest(request)
    BY <2>1 DEF Shape
  <2>3. IsRequest(request') /\ request'.op = request.op /\ request'.key = request.key
    BY <2>1, <2>2 DEF IsRequest
  <2>4. IsListing(listing')
    BY <2>1, <2>2 DEF IsListing
  <2> QED
    BY <2>1, <2>2, <2>3, <2>4 DEF Shape
<1>9. ASSUME NextSession PROVE Shape'
  <2>1. /\ UNCHANGED <<events, order, had>> /\ answer' = Nothing /\ listing # None
    BY <1>9 DEF NextSession
  <2>2. PICK key : /\ listing' = [listing EXCEPT !.todo = @ \ {key}]
                   /\ Ask("session", key, 0)
    BY <1>9 DEF NextSession
  <2>3. IsListing(listing)
    BY <2>1 DEF Shape
  <2>4. IsListing(listing')
    BY <2>2, <2>3 DEF IsListing
  <2>5. IsRequest(request') /\ request'.op = "session" /\ ~request'.done
    BY <2>2 DEF Ask, IsRequest, Queries
  <2>6. DOMAIN answer' = Prefix("session", 0)
    BY <2>1 DEF Nothing, Prefix
  <2>7. 0 \in 0..Len(Queries["session"])
    <3>1. Listed(Queries["session"])
      BY QueriesListed, QueryNames
    <3> QED
      BY <3>1 DEF Listed
  <2> QED
    BY <2>1, <2>4, <2>5, <2>6, <2>7 DEF Shape, Listings
<1>10. ASSUME NotFound PROVE Shape'
  <2>1. /\ UNCHANGED <<events, order, answer, had>>
        /\ request # None /\ Asked("sessions") /\ request.key # None
        /\ request' = [request EXCEPT !.done = TRUE]
        /\ listing' = [listing EXCEPT !.todo = {}, !.end = "not found"]
    BY <1>10 DEF NotFound, Answering
  <2>2. request.op = "session" /\ request.op \in Listings
    BY <2>1, OnlyAsked DEF Shape, Listings
  <2>3. IsListing(listing) /\ IsRequest(request)
    BY <2>1, <2>2 DEF Shape
  <2>4. IsListing(listing')
    BY <2>1, <2>3 DEF IsListing
  <2>5. IsRequest(request') /\ request'.op = request.op
    BY <2>1, <2>3 DEF IsRequest
  <2> QED
    BY <2>1, <2>2, <2>4, <2>5 DEF Shape
<1>11. ASSUME UNCHANGED vars PROVE Shape'
  BY <1>11 DEF vars, Shape, IsRequest, IsListing
<1> QED
  BY <1>1, <1>2, <1>3, <1>4, <1>5, <1>6, <1>7, <1>8, <1>9, <1>10, <1>11 DEF Next

(* ------------------------------------------------------------ listings -- *)

(* What a listing holds is never less when more has landed. *)
LEMMA RowsGrow ==
    ASSUME NEW u, NEW t \in SUBSET u, NEW r
    PROVE  /\ RowsOf(r, t) \subseteq t /\ RowsOf(r, t) \subseteq RowsOf(r, u)
           /\ r.op = "session" => RowsOf(r, t) = RowsOf(r, u) \cap t
           /\ Sessions(t) \subseteq Sessions(u)
BY DEF RowsOf, Wanted, ResultsIn, GroupKey, Sessions

(* What a client has got: the pages before, and the one being answered.    *)
LEMMA GotFacts ==
    ASSUME Shape, PageInv, listing # None
    PROVE  /\ Got \in Seq(Events)
           /\ Range(Got) = Range(listing.seen) \cup
                 (IF Fetching THEN Range(Page(answer[PageQuery(request)])) ELSE {})
           /\ \A e : Times(Got, e) = Times(listing.seen, e) +
                 (IF Fetching /\ e \in Range(Page(answer[PageQuery(request)])) THEN 1 ELSE 0)
           /\ \A e : Times(Got, e) \in Nat /\ (e \notin Range(Got) => Times(Got, e) = 0)
<1>1. listing.seen \in Seq(Events)
  BY DEF Shape, IsListing
<1>2. \A e : Times(listing.seen, e) \in Nat
  BY <1>1, TimesFacts
<1>3. CASE ~Fetching
  BY <1>1, <1>2, <1>3, TimesFacts DEF Got
<1>4. CASE Fetching
  <2> DEFINE page == Page(answer[PageQuery(request)])
  <2>1. page \in Seq(Events) /\ IsInjective(page)
    BY <1>4 DEF PageInv
  <2>2. Got = listing.seen \o page
    BY <1>4 DEF Got
  <2> HIDE DEF page
  <2>3. /\ Got \in Seq(Events) /\ Range(Got) = Range(listing.seen) \cup Range(page)
        /\ \A e : Times(Got, e) = Times(listing.seen, e) + (IF e \in Range(page) THEN 1 ELSE 0)
    BY <1>1, <2>1, <2>2, TimesGrow
  <2> QED
    BY <1>4, <2>3, TimesFacts DEF page
<1> QED
  BY <1>3, <1>4

(* The rows of a request are events of the case, more of them when the     *)
(* case has more, and ranked.                                              *)
LEMMA RowsAre ==
    ASSUME NEW o \in Orders, NEW u \in SUBSET Events, NEW t \in SUBSET u, NEW r
    PROVE  /\ RowsOf(r, u) \in SUBSET Events
           /\ RowsOf(r, t) \subseteq RowsOf(r, u)
           /\ \A e \in RowsOf(r, u) : /\ Rank(o, RowsOf(r, u), e) \in Nat
                                     /\ Rank(o, RowsOf(r, u), e) # 0
           /\ Cardinality(RowsOf(r, u)) \in Nat
<1> DEFINE now == RowsOf(r, u)
<1>1. now \in SUBSET Events /\ RowsOf(r, t) \subseteq now
  BY RowsGrow
<1> HIDE DEF now
<1>2. /\ Cardinality(now) \in Nat
      /\ \A e \in now : Rank(o, now, e) \in 1..Cardinality(now)
  BY <1>1, RankFacts
<1> QED
  BY <1>1, <1>2 DEF now

(* While nothing lands and nothing is served, a listing rests. *)
LEMMA ListingRests ==
    ASSUME ListingInv, UNCHANGED <<events, order, request, answer, listing, had>>
    PROVE  ListingInv'
BY DEF ListingInv, LogInv, PageInv, Got, Reach, Fetching, Asked

(* An ingest changes no listing that is to be exact.                       *)
LEMMA ListingIngest ==
    ASSUME Shape, ListingInv, Ingest
    PROVE  ListingInv'
<1>1. /\ events \in SUBSET events' /\ events' \in SUBSET Events
      /\ UNCHANGED <<order, request, answer, listing>>
      /\ had'.events = had.events /\ had'.ingests = had.ingests + 1
      /\ had.ingests \in Nat /\ order \in Orders /\ had.events \subseteq events
  BY ServeAssumption DEF Ingest, Shape
<1> SUFFICES ASSUME listing # None PROVE ListingInv'
  BY <1>1 DEF ListingInv
<1>2. listing.seen \in Seq(Events)
  BY DEF Shape, IsListing
<1>3. ASSUME PageInv, request.op # "log", request.op \in Listings PROVE PageInv'
  <2> DEFINE now == RowsOf(request, events)
             later == RowsOf(request, events')
             then == RowsOf(request, had.events)
             page == Page(answer[PageQuery(request)])
  <2>1. /\ now \in SUBSET later /\ later \in SUBSET Events /\ then \subseteq now
        /\ now \subseteq events
        /\ request.op = "session" => now = later \cap events
    <3>1. had.events \in SUBSET events
      BY <1>1
    <3> QED
      BY <1>1, <3>1, RowsGrow, ZenonT(30)
  <2>2. /\ Fetching' = Fetching /\ Got' = Got /\ Reach' = Reach
    BY <1>1 DEF Fetching, Asked, Got, Reach
  <2>3. Reach \in Nat
    BY ServeAssumption DEF Reach, Shape, IsRequest
  <2>4. \A e \in now : /\ Rank(order, now, e) \in Nat /\ Rank(order, later, e) \in Nat
                       /\ Rank(order, now, e) <= Rank(order, later, e)
    BY <1>1, <2>1, RankGrows
  <2>5. Cardinality(now) <= Cardinality(later) /\ Cardinality(now) \in Nat /\ Cardinality(later) \in Nat
    BY <1>1, <2>1, PlaceFacts, FS_Subset, FS_CardinalityType
  <2>6. \A e \in Range(Got) : e \in now \/ e \notin later
    <3>1. Fetching => Range(page) \subseteq now
      BY <1>3 DEF PageInv
    <3>2. request.op # "session" => Range(listing.seen) \subseteq now
      BY <1>3 DEF PageInv
    <3>3. request.op = "session" => \A e \in Range(listing.seen) : e \in now \/ e \notin later
      BY <2>1 DEF ListingInv
    <3>4. Range(Got) = Range(listing.seen) \cup (IF Fetching THEN Range(page) ELSE {})
      BY <1>3, GotFacts
    <3> QED
      BY <3>1, <3>2, <3>3, <3>4
  <2>7. \A e \in later : Times(Got, e) <= had.ingests + 1
    <3> TAKE e \in later
    <3>1. CASE e \in now
      <4>1. Times(Got, e) <= had.ingests + (IF Rank(order, now, e) <= Reach THEN 1 ELSE 0)
        BY <1>3, <3>1 DEF PageInv
      <4> QED
        BY <1>1, <1>3, <4>1, GotFacts
    <3>2. CASE e \notin now
      BY <1>1, <1>3, <2>6, <3>2, GotFacts
    <3> QED
      BY <3>1, <3>2
  <2>8. \A e \in then : Rank(order, later, e) <= Reach => e \in Range(Got)
    <3> TAKE e \in then
    <3>1. Rank(order, now, e) <= Reach => e \in Range(Got)
      BY <1>3 DEF PageInv
    <3> QED
      BY <2>1, <2>3, <2>4, <3>1
  <2>9. \A e \in later : Times(Got, e) <= (had.ingests + 1)
                            + (IF Rank(order, later, e) <= Reach THEN 1 ELSE 0)
    BY <1>1, <1>3, <2>7, GotFacts
  <2>10. /\ Fetching =>
              /\ page \in Seq(Events) /\ IsInjective(page) /\ Range(page) \subseteq later
              /\ IF Len(answer[PageQuery(request)]) > MaxPage
                 THEN request.offset + MaxPage <= Cardinality(later)
                 ELSE then \subseteq Range(Got)
         /\ ~Fetching => request.offset <= Cardinality(later)
    <3>1. request.offset \in Nat /\ MaxPage \in Nat
      BY ServeAssumption DEF Shape, IsRequest
    <3> QED
      BY <1>3, <2>1, <2>5, <3>1 DEF PageInv
  <2>11. request.op # "session" => Range(listing.seen) \subseteq later
    BY <1>3, <2>1 DEF PageInv
  <2>12. /\ RowsOf(request, events)' = later /\ RowsOf(request, had.events)' = then
         /\ page' = page
    BY <1>1
  <2> HIDE DEF now, later, then
  <2> QED
    BY <1>1, <2>2, <2>8, <2>9, <2>10, <2>11, <2>12 DEF PageInv
<1>4. ASSUME LogInv PROVE LogInv'
  BY <1>1, <1>4, RowsGrow DEF LogInv, GroupKey, Asked
<1>5. \A e \in Events : Times(listing.seen, e) <= 1 + (had.ingests + 1)
  BY <1>1, <1>2, TimesFacts DEF ListingInv
<1>6. request.op \in Listings
  BY DEF Shape
<1> QED
  BY <1>1, <1>3, <1>4, <1>5, <1>6 DEF ListingInv

(* A request that comes in keeps a listing exact.                          *)
LEMMA ListingReceive ==
    ASSUME Shape, ListingInv, NEW r \in Requests, Receive(r)
    PROVE  ListingInv'
<1>1. /\ UNCHANGED <<events, order>> /\ answer' = Nothing
      /\ had' = [events |-> events, ingests |-> 0]
  BY DEF Receive
<1>2. CASE Refusal(r).status = 200 /\ r.op \in Listings
  <2>1. /\ request' = [op |-> r.op, tool |-> r.tool, failedOnly |-> r.failedOnly,
                       key |-> r.key, offset |-> 0, done |-> FALSE]
        /\ listing' = [op |-> r.op, todo |-> {}, seen |-> <<>>, end |-> "no"]
    BY <1>2 DEF Receive
  <2>2. ~Fetching' /\ Got' = listing'.seen /\ Reach' = 0
    BY <1>1, <2>1 DEF Fetching, Asked, Got, Reach, Nothing
  <2>3. order \in Orders /\ events \in SUBSET Events
    BY DEF Shape
  <2>4. /\ RowsOf(request', events') \in SUBSET Events
        /\ \A e \in RowsOf(request', events') :
              /\ Rank(order, RowsOf(request', events'), e) \in Nat
              /\ Rank(order, RowsOf(request', events'), e) # 0
        /\ Cardinality(RowsOf(request', events')) \in Nat
        /\ RowsOf(request', had'.events) \subseteq RowsOf(request', events')
    BY <1>1, <2>3, RowsAre
  <2>5. listing'.seen = <<>>
    BY <2>1
  <2>6. /\ Range(listing'.seen) = {}
        /\ \A e : Times(listing'.seen, e) = 0
    BY <2>5, NothingSeen
  <2>7. PageInv'
    <3>1. /\ request'.offset = 0 /\ had'.ingests = 0 /\ Got' = listing'.seen
      BY <1>1, <2>1, <2>2
    <3>2. /\ ~Fetching' => request'.offset <= Cardinality(RowsOf(request', events'))
          /\ request'.op # "session" => Range(listing'.seen) \subseteq RowsOf(request', events')
      BY <2>4, <2>6, <3>1
    <3>3. \A e \in RowsOf(request', events') :
             ~(Rank(order', RowsOf(request', events'), e) <= Reach')
      BY <1>1, <2>2, <2>4
    <3>4. \A e \in RowsOf(request', events') : Times(Got', e) <= had'.ingests + 0
      BY <2>6, <3>1
    <3> QED
      BY <2>2, <2>4, <3>2, <3>3, <3>4 DEF PageInv
  <2>8. r.op = "log" => LogInv'
    BY <1>1, <2>1, <2>6 DEF LogInv, Asked, Nothing
  <2> QED
    BY <1>1, <2>1, <2>7, <2>8, <2>6 DEF ListingInv
<1>3. CASE ~(Refusal(r).status = 200 /\ r.op \in Listings)
  BY <1>3 DEF Receive, ListingInv
<1> QED
  BY <1>2, <1>3

(* The query of a page cuts it from the rows there are now. *)
LEMMA PageResult ==
    ASSUME request.op \in {"tools", "pages", "session"}
    PROVE  Result(PageQuery(request)) = Cut(Ordered(RowsOf(request, events)), request.offset)
<1>1. CASE request.op = "tools"
  <2>1. RowsOf(request, events) = {e \in events : Wanted(events, request.tool, request.failedOnly, e)}
    BY <1>1 DEF RowsOf
  <2> QED
    BY <1>1, <2>1 DEF Result, PageQuery, ToolRows
<1>2. CASE request.op = "pages"
  <2>1. RowsOf(request, events) = events
    BY <1>2 DEF RowsOf
  <2> QED
    BY <1>2, <2>1 DEF Result, PageQuery, Rows
<1>3. CASE request.op = "session"
  <2>1. RowsOf(request, events) = {e \in events : GroupKey(events, e.group) = request.key}
    BY <1>3 DEF RowsOf
  <2> QED
    BY <1>3, <2>1 DEF Result, PageQuery, SessionRows
<1> QED
  BY <1>1, <1>2, <1>3

(* A page that is fetched adds the rows that come next, each once.         *)
LEMMA ListingFetch ==
    ASSUME Shape, PageInv, listing # None, request.op \in {"tools", "pages", "session"},
           ~Fetching, NEW fetched, fetched = Result(PageQuery(request)),
           NEW got, got = listing.seen \o Page(fetched)
    PROVE  /\ Page(fetched) \in Seq(Events) /\ IsInjective(Page(fetched))
           /\ Range(Page(fetched)) \subseteq RowsOf(request, events)
           /\ IF Len(fetched) > MaxPage
              THEN request.offset + MaxPage <= Cardinality(RowsOf(request, events))
              ELSE RowsOf(request, had.events) \subseteq Range(got)
           /\ \A e \in RowsOf(request, had.events) :
                 Rank(order, RowsOf(request, events), e) <= request.offset + MaxPage =>
                     e \in Range(got)
           /\ \A e \in RowsOf(request, events) :
                 Times(got, e) <= had.ingests +
                     (IF Rank(order, RowsOf(request, events), e) <= request.offset + MaxPage
                      THEN 1 ELSE 0)
<1> DEFINE now == RowsOf(request, events)
           then == RowsOf(request, had.events)
           page == Page(fetched)
<1>1. /\ order \in Orders /\ events \in SUBSET Events /\ had.events \in SUBSET events
      /\ request.offset \in Nat /\ MaxPage \in Nat /\ had.ingests \in Nat
      /\ listing.seen \in Seq(Events)
  BY ServeAssumption DEF Shape, IsRequest, IsListing
<1>2. /\ now \in SUBSET Events /\ then \subseteq now /\ Cardinality(now) \in Nat
      /\ \A e \in now : Rank(order, now, e) \in 1..Cardinality(now)
  <2>1. now \in SUBSET Events
    BY <1>1, RowsAre
  <2> QED
    BY <1>1, <2>1, RowsAre, RankFacts
<1>3. request.offset <= Cardinality(now)
  BY DEF PageInv
<1>4. fetched = Cut(Ordered(now), request.offset)
  BY PageResult
<1>5. /\ \A e \in then : Rank(order, now, e) <= request.offset => e \in Range(listing.seen)
      /\ \A e \in now : Times(listing.seen, e) <= had.ingests
                              + (IF Rank(order, now, e) <= request.offset THEN 1 ELSE 0)
  BY DEF PageInv, Got, Reach
<1> HIDE DEF now, then
<1>6. /\ page \in Seq(now) /\ IsInjective(page)
      /\ \A e \in now : e \in Range(page) <=>
             request.offset < Rank(order, now, e) /\ Rank(order, now, e) <= request.offset + MaxPage
      /\ Len(fetched) > MaxPage => request.offset + MaxPage <= Cardinality(now)
      /\ ~(Len(fetched) > MaxPage) => Cardinality(now) <= request.offset + MaxPage
  BY <1>1, <1>2, <1>3, <1>4, PageFacts
<1> HIDE DEF page
<1>7. page \in Seq(Events) /\ Range(page) \subseteq now
  BY <1>2, <1>6 DEF Range
<1>8. /\ Range(got) = Range(listing.seen) \cup Range(page)
      /\ \A e : Times(got, e) = Times(listing.seen, e) + (IF e \in Range(page) THEN 1 ELSE 0)
      /\ \A e : Times(listing.seen, e) \in Nat
  BY <1>1, <1>6, <1>7, TimesGrow, TimesFacts DEF page
<1>9. \A e \in then : Rank(order, now, e) <= request.offset + MaxPage => e \in Range(got)
  <2> SUFFICES ASSUME NEW e \in then, Rank(order, now, e) <= request.offset + MaxPage
               PROVE  e \in Range(got)
    OBVIOUS
  <2>1. e \in now /\ Rank(order, now, e) \in Nat
    BY <1>2
  <2>2. CASE Rank(order, now, e) <= request.offset
    BY <1>5, <1>8, <2>2
  <2>3. CASE ~(Rank(order, now, e) <= request.offset)
    BY <1>1, <1>6, <1>8, <2>1, <2>3
  <2> QED
    BY <2>2, <2>3
<1>10. ~(Len(fetched) > MaxPage) => then \subseteq Range(got)
  BY <1>1, <1>2, <1>6, <1>9
<1>11. \A e \in now : Times(got, e) <= had.ingests +
                 (IF Rank(order, now, e) <= request.offset + MaxPage THEN 1 ELSE 0)
  <2> TAKE e \in now
  <2>1. Rank(order, now, e) \in Nat
    BY <1>2
  <2>2. Times(listing.seen, e) <= had.ingests + (IF Rank(order, now, e) <= request.offset THEN 1 ELSE 0)
    BY <1>5
  <2>3. CASE e \in Range(page)
    BY <1>1, <1>6, <1>8, <2>1, <2>2, <2>3
  <2>4. CASE e \notin Range(page)
    <3>1. Times(got, e) = Times(listing.seen, e) /\ Times(listing.seen, e) \in Nat
      BY <1>8, <2>4
    <3> QED
      BY <1>1, <2>1, <2>2, <3>1
  <2> QED
    BY <2>3, <2>4
<1> QED
  BY <1>6, <1>7, <1>9, <1>10, <1>11 DEF now, then, page

(* So does the step that asks for it.                                      *)
LEMMA ListingQuery ==
    ASSUME Shape, ListingInv, Query
    PROVE  ListingInv'
<1>1. /\ UNCHANGED <<events, order, request, listing, had>>
      /\ request # None /\ ~request.done
  BY DEF Query, Answering
<1> SUFFICES ASSUME listing # None PROVE ListingInv'
  BY <1>1 DEF ListingInv
<1>2. PICK k \in Nat : Asks(Queries[request.op][k], k)
  BY QueryAsks
<1> DEFINE q == Queries[request.op][k]
<1>3. /\ q \notin DOMAIN answer /\ DOMAIN answer' = DOMAIN answer \cup {q}
      /\ \A x \in DOMAIN answer : answer'[x] = answer[x]
      /\ answer'[q] = Result(q) /\ k \in 1..Len(Queries[request.op])
  BY <1>2 DEF Asks
<1>4. request.op \in Listings /\ IsListing(listing) /\ had.events \in SUBSET events
  BY DEF Shape
<1>5. ASSUME LogInv PROVE LogInv'
  <2>1. Asked("sessions")' => \/ Asked("sessions") /\ answer'["sessions"] = answer["sessions"]
                              \/ answer'["sessions"] = Sessions(events)
    BY <1>3 DEF Asked, Result
  <2>2. Sessions(had.events) \subseteq Sessions(events)
    BY <1>4, RowsGrow
  <2> HIDE DEF q
  <2> QED
    BY <1>1, <1>5, <2>1, <2>2 DEF LogInv
<1>6. ASSUME PageInv, request.op # "log" PROVE PageInv'
  <2>1. request.op \in {"tools", "pages", "session"}
    BY <1>4, <1>6 DEF Listings
  <2>2. CASE q # PageQuery(request)
    <3>1. /\ Fetching' <=> Fetching
          /\ Fetching => answer'[PageQuery(request)] = answer[PageQuery(request)]
      BY <1>1, <1>3, <2>2 DEF Fetching, Asked
    <3>2. /\ Got' = Got /\ Reach' = Reach
      BY <1>1, <3>1 DEF Got, Reach
    <3> HIDE DEF q
    <3> QED
      BY <1>1, <1>6, <3>1, <3>2 DEF PageInv
  <2>3. CASE q = PageQuery(request)
    <3>1. ~Fetching /\ Fetching' /\ answer'[PageQuery(request)] = Result(PageQuery(request))
      BY <1>1, <1>3, <2>3 DEF Fetching, Asked
    <3> HIDE DEF q
    <3> DEFINE fetched == Result(PageQuery(request))
               got == listing.seen \o Page(fetched)
    <3>2. /\ Got' = got /\ Reach' = request.offset + MaxPage
          /\ answer'[PageQuery(request')] = fetched
      BY <1>1, <3>1 DEF Got, Reach
    <3> HIDE DEF got, fetched
    <3>3. /\ Page(fetched) \in Seq(Events) /\ IsInjective(Page(fetched))
          /\ Range(Page(fetched)) \subseteq RowsOf(request, events)
          /\ IF Len(fetched) > MaxPage
             THEN request.offset + MaxPage <= Cardinality(RowsOf(request, events))
             ELSE RowsOf(request, had.events) \subseteq Range(got)
      BY <1>6, <2>1, <3>1, ListingFetch DEF fetched, got
    <3>4. \A e \in RowsOf(request, had.events) :
              Rank(order, RowsOf(request, events), e) <= request.offset + MaxPage =>
                  e \in Range(got)
      BY <1>6, <2>1, <3>1, ListingFetch DEF fetched, got
    <3>5. \A e \in RowsOf(request, events) :
              Times(got, e) <= had.ingests +
                  (IF Rank(order, RowsOf(request, events), e) <= request.offset + MaxPage
                   THEN 1 ELSE 0)
      BY <1>6, <2>1, <3>1, ListingFetch DEF fetched, got
    <3>6. request.op # "session" => Range(listing.seen) \subseteq RowsOf(request, events)
      BY <1>6 DEF PageInv
    <3>7. /\ RowsOf(request', events') = RowsOf(request, events)
          /\ RowsOf(request', had'.events) = RowsOf(request, had.events)
      BY <1>1
    <3>8. /\ Page(answer'[PageQuery(request')]) \in Seq(Events)
          /\ IsInjective(Page(answer'[PageQuery(request')]))
          /\ Range(Page(answer'[PageQuery(request')])) \subseteq RowsOf(request', events')
          /\ IF Len(answer'[PageQuery(request')]) > MaxPage
             THEN request'.offset + MaxPage <= Cardinality(RowsOf(request', events'))
             ELSE RowsOf(request', had'.events) \subseteq Range(Got')
      BY <1>1, <3>2, <3>3, <3>7
    <3>9. \A e \in RowsOf(request', had'.events) :
             Rank(order', RowsOf(request', events'), e) <= Reach' => e \in Range(Got')
      BY <1>1, <3>2, <3>7, <3>4
    <3>10. \A e \in RowsOf(request', events') :
             Times(Got', e) <= had'.ingests
                 + (IF Rank(order', RowsOf(request', events'), e) <= Reach' THEN 1 ELSE 0)
      BY <1>1, <3>2, <3>7, <3>5
    <3>11. request'.op # "session" => Range(listing'.seen) \subseteq RowsOf(request', events')
      BY <1>1, <3>6
    <3> QED
      BY <3>1, <3>8, <3>9, <3>10, <3>11 DEF PageInv
  <2> QED
    BY <2>2, <2>3
<1> HIDE DEF q
<1> QED
  BY <1>1, <1>5, <1>6 DEF ListingInv

(* So does asking for the next page.                                       *)
LEMMA ListingNextPage ==
    ASSUME Shape, ListingInv, NextPage
    PROVE  ListingInv'
<1> DEFINE now == RowsOf(request, events)
           then == RowsOf(request, had.events)
           page == Page(Fetched)
           next == NextOffset(Fetched, request.offset)
<1>1. /\ UNCHANGED <<events, order, had>> /\ listing # None /\ request # None
      /\ request.op # "log" /\ Complete
  BY DEF NextPage, Complete, Answering
<1>2. /\ request.op \in {"tools", "pages", "session"}
      /\ IsListing(listing) /\ IsRequest(request) /\ ~request.done
      /\ Fetching /\ Fetched = answer[PageQuery(request)]
      /\ PageInv
  BY <1>1, PageIsFetched
<1>3. /\ order \in Orders /\ events \in SUBSET Events /\ had.events \in SUBSET events
      /\ request.offset \in Nat /\ MaxPage \in Nat /\ had.ingests \in Nat
  BY <1>2, ServeAssumption DEF Shape, IsRequest
<1>4. listing' = [listing EXCEPT !.seen = @ \o page,
                    !.end = IF next = None /\ listing.todo = {} THEN "served" ELSE @]
  BY DEF NextPage
<1>5. /\ listing'.op = listing.op /\ listing'.todo = listing.todo
      /\ listing'.seen = listing.seen \o page
      /\ listing'.end = IF next = None /\ listing.todo = {} THEN "served" ELSE listing.end
  BY <1>2, <1>4 DEF IsListing
<1>6. Got = listing'.seen /\ Reach = request.offset + MaxPage
  BY <1>2, <1>5 DEF Got, Reach
<1>7. page \in Seq(Events) /\ Range(page) \subseteq now
  BY <1>2 DEF PageInv
<1>8. /\ now \in SUBSET Events /\ now \subseteq events /\ then \subseteq now
      /\ request.op = "session" => \A e \in events : e \in now <=> GroupKey(events, e.group) = request.key
      /\ request.op = "session" => \A e \in had.events : GroupKey(events, e.group) = request.key => e \in then
  <2>1. request.op = "session" =>
           /\ \A e \in events : e \in now <=> GroupKey(events, e.group) = request.key
           /\ \A e \in had.events : GroupKey(events, e.group) = request.key => e \in then
    BY DEF RowsOf, GroupKey
  <2> QED
    BY <1>3, <2>1, RowsAre, RowsGrow, ZenonT(30)
<1>9. /\ \A e \in then : Rank(order, now, e) <= Reach => e \in Range(Got)
      /\ \A e \in now : Times(Got, e) <= had.ingests
                              + (IF Rank(order, now, e) <= Reach THEN 1 ELSE 0)
      /\ request.op # "session" => Range(listing.seen) \subseteq now
      /\ IF Len(Fetched) > MaxPage
         THEN request.offset + MaxPage <= Cardinality(now)
         ELSE then \subseteq Range(Got)
  BY <1>2 DEF PageInv
<1>10. /\ Range(Got) = Range(listing.seen) \cup Range(page)
       /\ \A e : Times(Got, e) \in Nat /\ Times(listing.seen, e) \in Nat
       /\ \A e : e \notin Range(page) => Times(Got, e) = Times(listing.seen, e)
  <2>1. listing.seen \in Seq(Events)
    BY <1>2 DEF IsListing
  <2> QED
    BY <1>1, <1>2, <2>1, GotFacts, TimesFacts
<1> HIDE DEF now, then, page, next
<1>11. next = None <=> ~(Len(Fetched) > MaxPage)
  BY <1>3, NoneIsNoOffset DEF next, NextOffset
<1>12. /\ Range(listing'.seen) \subseteq events
       /\ \A e \in Events : Times(listing'.seen, e) <= 1 + had.ingests
  <2>1. Range(listing.seen) \subseteq events
        /\ \A e \in Events : Times(listing.seen, e) <= 1 + had.ingests
    BY <1>1 DEF ListingInv
  <2>2. ASSUME NEW e \in Events PROVE Times(Got, e) <= 1 + had.ingests
    <3>1. CASE e \in now
      <4>1. Times(Got, e) <= had.ingests + (IF Rank(order, now, e) <= Reach THEN 1 ELSE 0)
        BY <1>9, <3>1
      <4> QED
        BY <1>3, <1>10, <4>1
    <3>2. CASE e \notin now
      BY <1>7, <1>10, <2>1, <3>2
    <3> QED
      BY <3>1, <3>2
  <2> QED
    BY <1>6, <1>7, <1>8, <1>10, <2>1, <2>2
<1>13. \/ request.op = listing.op
       \/ listing.op = "log" /\ request.op = "session"
  BY <1>1 DEF ListingInv
<1>14. listing.end = "no"
  BY <1>1, <1>2 DEF ListingInv
<1>15. request'.op = request.op /\ request'.tool = request.tool
       /\ request'.failedOnly = request.failedOnly /\ request'.key = request.key
  BY <1>2 DEF NextPage, Ask, IsRequest
<1>16. RowsOf(request', events') = now /\ RowsOf(request', had'.events) = then
  BY <1>1, <1>15 DEF RowsOf, now, then
<1>17. listing.op = "log" =>
          /\ \A e \in Range(listing'.seen) : GroupKey(events, e.group) \notin listing.todo
          /\ request.key \in Sessions(events) \ listing.todo
          /\ listing.todo \subseteq Sessions(events)
          /\ \A e \in had.events :
                \/ GroupKey(events, e.group) \in listing.todo
                \/ GroupKey(events, e.group) = request.key
                \/ e \in Range(listing'.seen)
  <2> SUFFICES ASSUME listing.op = "log"
               PROVE  /\ \A e \in Range(listing'.seen) : GroupKey(events, e.group) \notin listing.todo
                      /\ request.key \in Sessions(events) \ listing.todo
                      /\ listing.todo \subseteq Sessions(events)
                      /\ \A e \in had.events :
                            \/ GroupKey(events, e.group) \in listing.todo
                            \/ GroupKey(events, e.group) = request.key
                            \/ e \in Range(listing'.seen)
    OBVIOUS
  <2>1. LogInv /\ request.op = "session"
    BY <1>1, <1>13 DEF ListingInv
  <2>2. \A e \in Range(page) : GroupKey(events, e.group) = request.key
    BY <1>7, <1>8, <2>1
  <2> QED
    BY <1>6, <1>10, <2>1, <2>2 DEF LogInv
<1>18. CASE next # None
  <2>1. /\ request'.offset = request.offset + MaxPage /\ ~request'.done /\ answer' = Nothing
    BY <1>18 DEF NextPage, Ask, NextOffset, next
  <2>2. /\ ~Fetching' /\ ~Asked("sessions")' /\ Got' = Got /\ Reach' = Reach
    BY <1>6, <2>1 DEF Fetching, Asked, Nothing, Got, Reach
  <2>3. request'.offset <= Cardinality(RowsOf(request', events'))
    BY <1>9, <1>11, <1>16, <1>18, <2>1
  <2>4. request'.op # "session" => Range(listing'.seen) \subseteq RowsOf(request', events')
    BY <1>6, <1>7, <1>9, <1>10, <1>15, <1>16
  <2>5. /\ \A e \in RowsOf(request', had'.events) :
              Rank(order', RowsOf(request', events'), e) <= Reach' => e \in Range(Got')
        /\ \A e \in RowsOf(request', events') :
              Times(Got', e) <= had'.ingests
                  + (IF Rank(order', RowsOf(request', events'), e) <= Reach' THEN 1 ELSE 0)
    BY <1>1, <1>9, <1>16, <2>2
  <2>6. PageInv'
    BY <2>2, <2>3, <2>4, <2>5 DEF PageInv
  <2>7. listing.op = "log" => LogInv'
    BY <1>1, <1>2, <1>5, <1>13, <1>14, <1>15, <1>17, <1>18, <2>1, <2>2 DEF LogInv
  <2> QED
    BY <1>1, <1>5, <1>12, <1>13, <1>14, <1>15, <1>18, <2>1, <2>6, <2>7 DEF ListingInv
<1>19. CASE next = None
  <2>1. request'.done /\ answer' = answer
    BY <1>2, <1>19 DEF NextPage, next, IsRequest
  <2>2. then \subseteq Range(listing'.seen)
    BY <1>6, <1>9, <1>11, <1>19
  <2>3. listing.op = "log" => LogInv'
    <3> SUFFICES ASSUME listing.op = "log" PROVE LogInv'
      OBVIOUS
    <3>1. request.op = "session" /\ LogInv
      BY <1>1, <1>13 DEF ListingInv
    <3>2. Asked("sessions")' => request'.key \in answer'["sessions"]
      BY <1>15, <2>1, <3>1 DEF LogInv, Asked
    <3>3. \A e \in had.events : \/ GroupKey(events, e.group) \in listing.todo
                                \/ e \in Range(listing'.seen)
      BY <1>8, <1>17, <2>2, <3>1
    <3>4. listing'.end # "not found"
      BY <1>5, <1>14
    <3> QED
      BY <1>1, <1>5, <1>15, <1>17, <3>1, <3>2, <3>3, <3>4 DEF LogInv
  <2> QED
    BY <1>1, <1>2, <1>5, <1>12, <1>13, <1>14, <1>15, <1>16, <1>19, <2>1, <2>2, <2>3 DEF ListingInv
<1> QED
  BY <1>18, <1>19

(* So does reading the sessions.                                           *)
LEMMA ListingReadSessions ==
    ASSUME Shape, ListingInv, ReadSessions
    PROVE  ListingInv'
<1>1. /\ UNCHANGED <<events, order, answer, had>> /\ request # None /\ request.op = "log"
      /\ listing # None
      /\ ~request.done /\ Complete
      /\ request' = [request EXCEPT !.done = TRUE]
      /\ listing' = [listing EXCEPT !.todo = answer["sessions"],
                       !.end = IF answer["sessions"] = {} THEN "served" ELSE @]
  BY DEF ReadSessions, Complete, Answering
<1>2. Asked("sessions")
  BY <1>1, OnlyAsked
<1>3. IsListing(listing) /\ IsRequest(request)
  BY <1>1 DEF Shape
<1>4. /\ listing'.op = listing.op /\ listing'.seen = listing.seen
      /\ listing'.todo = answer["sessions"]
      /\ listing'.end = IF answer["sessions"] = {} THEN "served" ELSE listing.end
      /\ request'.op = request.op /\ request'.done
  BY <1>1, <1>3 DEF IsListing, IsRequest
<1>5. listing.op = "log" /\ LogInv /\ listing.end = "no"
  BY <1>1 DEF ListingInv
<1>6. LogInv'
  BY <1>1, <1>2, <1>4, <1>5 DEF LogInv, Asked, GroupKey, Range
<1> QED
  BY <1>1, <1>4, <1>5, <1>6 DEF ListingInv

(* So does going on to the next session.                                   *)
LEMMA ListingNextSession ==
    ASSUME Shape, ListingInv, NextSession
    PROVE  ListingInv'
<1>1. /\ UNCHANGED <<events, order, had>> /\ answer' = Nothing
      /\ request.done /\ listing # None /\ listing.todo # {}
  BY DEF NextSession
<1>2. PICK key \in listing.todo : /\ listing' = [listing EXCEPT !.todo = @ \ {key}]
                                 /\ Ask("session", key, 0)
  BY DEF NextSession
<1>3. IsListing(listing)
  BY <1>1 DEF Shape
<1>4. /\ listing'.op = listing.op /\ listing'.seen = listing.seen
      /\ listing'.todo = listing.todo \ {key} /\ listing'.end = listing.end
      /\ request'.op = "session" /\ ~request'.done /\ request'.key = key /\ request'.offset = 0
  BY <1>2, <1>3 DEF IsListing, Ask
<1>5. /\ listing.op = "log" /\ LogInv /\ listing.end = "no"
      /\ request.op \in {"log", "session"}
  BY <1>1, <1>3 DEF ListingInv, IsListing, LogInv
<1>6. ~Fetching' /\ ~Asked("sessions")' /\ Got' = listing'.seen /\ Reach' = 0
  BY <1>1, <1>4 DEF Fetching, Asked, Nothing, Got, Reach
<1> DEFINE now == RowsOf(request', events')
           then == RowsOf(request', had'.events)
<1>7. /\ now \in SUBSET Events /\ Cardinality(now) \in Nat /\ then \subseteq now
      /\ \A e \in now : Rank(order, now, e) \in Nat /\ Rank(order, now, e) # 0
  <2>1. order \in Orders /\ events' \in SUBSET Events /\ had'.events \in SUBSET events'
    BY <1>1 DEF Shape
  <2> QED
    BY <2>1, RowsAre
<1>8. \A e \in now : e \in events /\ GroupKey(events, e.group) = key
  BY <1>1, <1>4 DEF RowsOf, GroupKey
<1> HIDE DEF now, then
<1>9. \A e \in now : ~(Rank(order', now, e) <= Reach')
  BY <1>1, <1>6, <1>7
<1>10. \A e \in now : Times(Got', e) = 0
  <2>1. listing.seen \in Seq(Events)
    BY <1>3 DEF IsListing
  <2>2. \A e \in now : e \notin Range(listing.seen)
    BY <1>5, <1>8 DEF LogInv
  <2> QED
    BY <1>4, <1>6, <2>1, <2>2, TimesFacts
<1>11. had'.ingests \in Nat
  BY <1>1 DEF Shape
<1>12. PageInv'
  <2>1. \A e \in now : Times(Got', e) <= had'.ingests
                             + (IF Rank(order', now, e) <= Reach' THEN 1 ELSE 0)
    BY <1>9, <1>10, <1>11
  <2>2. \A e \in then : Rank(order', now, e) <= Reach' => e \in Range(Got')
    BY <1>7, <1>9
  <2>3. request'.offset <= Cardinality(now)
    BY <1>4, <1>7
  <2> QED
    BY <1>4, <1>6, <2>1, <2>2, <2>3 DEF PageInv, now, then
<1>13. LogInv'
  <2>1. \A e \in had.events : \/ GroupKey(events, e.group) \in listing.todo
                              \/ e \in Range(listing.seen)
    <3>1. CASE request.op = "log"
      <4>1. Sessions(had.events) \subseteq listing.todo
        BY <1>1, <1>5, <3>1 DEF LogInv
      <4> QED
        BY <4>1 DEF Sessions, GroupKey
    <3>2. CASE request.op = "session"
      BY <1>1, <1>5, <3>2 DEF LogInv
    <3> QED
      BY <1>5, <3>1, <3>2
  <2>2. /\ listing.todo \subseteq Sessions(events) /\ listing.end # "not found"
        /\ \A e \in Range(listing.seen) : GroupKey(events, e.group) \notin listing.todo
    BY <1>5 DEF LogInv
  <2> QED
    BY <1>1, <1>2, <1>4, <1>6, <2>1, <2>2 DEF LogInv
<1>14. /\ Range(listing.seen) \subseteq events
       /\ \A e \in Events : Times(listing.seen, e) <= 1 + had.ingests
  BY <1>1 DEF ListingInv
<1> QED
  BY <1>1, <1>4, <1>5, <1>12, <1>13, <1>14 DEF ListingInv

(* So does an answer that there is no such session.                        *)
LEMMA ListingNotFound ==
    ASSUME Shape, ListingInv, NotFound
    PROVE  ListingInv'
<1>1. /\ UNCHANGED <<events, order, answer, had>>
      /\ request # None /\ Asked("sessions") /\ request.key # None /\ listing # None
      /\ request.key \notin answer["sessions"]
      /\ request' = [request EXCEPT !.done = TRUE]
      /\ listing' = [listing EXCEPT !.todo = {}, !.end = "not found"]
  BY DEF NotFound, Answering
<1>2. request.op = "session" /\ request.op \in Listings
  BY <1>1, OnlyAsked DEF Shape, Listings
<1>3. IsListing(listing) /\ IsRequest(request)
  BY <1>1 DEF Shape
<1>4. /\ listing'.op = listing.op /\ listing'.seen = listing.seen
      /\ listing'.todo = {} /\ listing'.end = "not found"
      /\ request'.op = request.op /\ request'.done
  BY <1>1, <1>3 DEF IsListing, IsRequest
<1>5. listing.op # "log"
  BY <1>1, <1>2 DEF ListingInv, LogInv
<1> QED
  BY <1>1, <1>2, <1>4, <1>5 DEF ListingInv

(* No listing is begun in the beginning.                                   *)
LEMMA ListingInit == Init => ListingInv
BY DEF Init, ListingInv

(* Every step keeps a listing exact.                                       *)
LEMMA ListingStep ==
    ASSUME Shape, ListingInv, [Next]_vars
    PROVE  ListingInv'
<1>1. CASE Answer
  <2>1. listing = None /\ listing' = listing
    BY <1>1 DEF Answer, Complete, Answering, Shape
  <2> QED
    BY <2>1 DEF ListingInv
<1>2. CASE Scan \/ Reconnect \/ UNCHANGED vars
  <2>1. UNCHANGED <<events, order, request, answer, listing, had>>
    BY <1>2 DEF Scan, Reconnect, vars
  <2> QED
    BY <2>1, ListingRests
<1> QED
  BY <1>1, <1>2, ListingIngest, ListingReceive, ListingQuery, ListingNextPage,
     ListingReadSessions, ListingNextSession, ListingNotFound DEF Next

(* What is there keeps its shape, and every listing is as far as ListingInv*)
(* says, whatever lands between two queries (server.py, api.py).           *)
THEOREM ListingHolds == Spec => [](Shape /\ ListingInv)
<1>1. Init => Shape /\ ListingInv
  BY ShapeInit, ListingInit
<1>2. Shape /\ ListingInv /\ [Next]_vars => (Shape /\ ListingInv)'
  BY ShapeStep, ListingStep
<1> QED
  BY <1>1, <1>2, PTL DEF Spec

(* A client that pages through a listing to its end has every event that   *)
(* it sought and that was there when it began, none of them more often     *)
(* than ingests landed and once more, and every session that a log named   *)
(* is found (session_records, log_lines, tool_calls).                      *)
THEOREM ListingsAreFaithful == Spec => []ListingIsFaithful
<1>1. ASSUME Shape, ListingInv PROVE ListingIsFaithful
  <2> SUFFICES ASSUME listing # None PROVE ListingIsFaithful
    BY DEF ListingIsFaithful, ListingMissesNothing, RepeatNeedsIngest, KeysResolve
  <2>1. IsListing(listing)
    BY <1>1 DEF Shape
  <2>2. \A e : Seen(e) = Occurs(listing.seen, e)
    BY DEF Seen, Occurs
  <2>3. \A e \in Range(listing.seen) : Seen(e) # {}
    BY DEF Seen, Range
  <2>4. RepeatNeedsIngest
    BY <1>1, <2>2 DEF RepeatNeedsIngest, ListingInv, Times
  <2>5. KeysResolve
    BY <1>1 DEF KeysResolve, ListingInv, LogInv
  <2>6. ASSUME listing.end = "served", NEW e \in had.events, Sought(e)
        PROVE  e \in Range(listing.seen)
    <3>1. CASE listing.op = "log"
      <4>1. LogInv /\ request.done /\ listing.todo = {} /\ request.op \in {"log", "session"}
        BY <1>1, <2>6, <3>1 DEF ListingInv, Shape, IsRequest
      <4>2. CASE request.op = "log"
        <5>1. Sessions(had.events) = {}
          BY <4>1, <4>2 DEF LogInv
        <5> QED
          BY <2>6, <5>1 DEF Sessions
      <4>3. CASE request.op = "session"
        BY <2>6, <4>1, <4>3 DEF LogInv
      <4> QED
        BY <4>1, <4>2, <4>3
    <3>2. CASE listing.op # "log"
      <4>1. request.op = listing.op /\ RowsOf(request, had.events) \subseteq Range(listing.seen)
        BY <1>1, <2>6, <3>2 DEF ListingInv
      <4>2. e \in RowsOf(request, had.events)
        BY <2>6, <4>1 DEF RowsOf, Sought
      <4> QED
        BY <4>1, <4>2
    <3> QED
      BY <3>1, <3>2
  <2>7. ListingMissesNothing
    BY <2>3, <2>6 DEF ListingMissesNothing
  <2> QED
    BY <2>4, <2>5, <2>7 DEF ListingIsFaithful
<1> QED
  BY <1>1, ListingHolds, PTL

(* The body of a request is never on a connection that is used again: an   *)
(* answer that leaves one unread closes the connection (_resolve, _emit).  *)
THEOREM BodiesAreDropped == Spec => []BodyIsNoRequest
<1>1. Init => BodyIsNoRequest
  BY DEF Init, BodyIsNoRequest
<1>2. BodyIsNoRequest /\ [Next]_vars => BodyIsNoRequest'
  <2> SUFFICES ASSUME BodyIsNoRequest, [Next]_vars PROVE BodyIsNoRequest'
    OBVIOUS
  <2>1. \A r \in Requests : WireAfter(r) # "body"
    BY DEF WireAfter, Refusal
  <2> QED
    BY <2>1 DEF BodyIsNoRequest, Next, vars, Ingest, Scan, Receive, Reconnect, Query, Answer,
                NextPage, ReadSessions, NextSession, NotFound
<1> QED
  BY <1>1, <1>2, PTL DEF Spec

(* ------------------------------------------------------------- answers -- *)

(* Which queries were asked before one of them. *)
LEMMA QueryOrder ==
    ASSUME Shape, request # None, NEW k \in Nat, NEW q, Asks(q, k)
    PROVE  /\ request.op = "findings" =>
                 \/ q = "runs" /\ DOMAIN answer = {}
                 \/ q = "findings" /\ DOMAIN answer = {"runs"}
                 \/ q = "findings' events" /\ DOMAIN answer = {"runs", "findings"}
           /\ request.op = "tools" =>
                 \/ q = "by tool" /\ DOMAIN answer = {}
                 \/ q = "calls" /\ DOMAIN answer = {"by tool"}
                 \/ q = "results" /\ DOMAIN answer = {"by tool", "calls"}
                 \/ q = "failed" /\ DOMAIN answer = {"by tool", "calls", "results"}
           /\ request.op = "timeline" =>
                 \/ q = "rows" /\ DOMAIN answer = {}
                 \/ q = "events" /\ DOMAIN answer = {"rows"}
                 \/ q = "unread" /\ DOMAIN answer = {"rows", "events"}
<1> DEFINE s == Queries[request.op]
<1>1. request.op \in DOMAIN Queries /\ Listed(s)
  BY QueriesListed DEF Shape, IsRequest
<1>2. k \in DOMAIN s /\ q = s[k] /\ DOMAIN answer = {s[i] : i \in 1..(k - 1)}
  BY <1>1 DEF Asks, Listed, Prefix
<1> HIDE DEF s
<1>3. /\ 1..(1 - 1) = {} /\ 1..(2 - 1) = {1} /\ 1..(3 - 1) = {1, 2} /\ 1..(4 - 1) = {1, 2, 3}
  OBVIOUS
<1>4. /\ k = 1 => DOMAIN answer = {}
      /\ k = 2 => DOMAIN answer = {s[1]}
      /\ k = 3 => DOMAIN answer = {s[1], s[2]}
      /\ k = 4 => DOMAIN answer = {s[1], s[2], s[3]}
  BY <1>2, <1>3
<1>5. request.op = "findings" => /\ k \in {1, 2, 3}
                                 /\ s[1] = "runs" /\ s[2] = "findings" /\ s[3] = "findings' events"
  BY <1>2, QueryNames DEF s
<1>6. request.op = "tools" => /\ k \in {1, 2, 3, 4}
                              /\ s[1] = "by tool" /\ s[2] = "calls"
                              /\ s[3] = "results" /\ s[4] = "failed"
  BY <1>2, QueryNames DEF s
<1>7. request.op = "timeline" => /\ k \in {1, 2, 3}
                                 /\ s[1] = "rows" /\ s[2] = "events" /\ s[3] = "unread"
  BY <1>2, QueryNames DEF s
<1> QED
  BY <1>2, <1>4, <1>5, <1>6, <1>7

(* A listing holds its rows and no others, each once. *)
LEMMA OrderedHolds ==
    ASSUME order \in Orders, NEW rows \in SUBSET Events
    PROVE  Range(Ordered(rows)) = rows
<1>1. Ordered(rows) \in Seq(rows) /\ Len(Ordered(rows)) = Cardinality(rows)
  BY OrderedFacts
<1>2. Range(Ordered(rows)) \subseteq rows
  BY <1>1 DEF Range
<1>3. \A e \in rows : e \in Range(Ordered(rows))
  <2> TAKE e \in rows
  <2>1. Rank(order, rows, e) \in 1..Cardinality(rows) /\ Cardinality(rows) \in Nat
    BY RankFacts
  <2>2. Ordered(rows)[Rank(order, rows, e)] = e
    BY <2>1, OrderedFacts
  <2>3. DOMAIN Ordered(rows) = 1..Cardinality(rows)
    BY <1>1
  <2> QED
    BY <2>1, <2>2, <2>3 DEF Range
<1> QED
  BY <1>2, <1>3

(* Whatever its offset, a page shows rows of its listing. *)
LEMMA PageShowsRows ==
    ASSUME order \in Orders, NEW rows \in SUBSET Events, NEW offset \in Nat
    PROVE  Range(Page(Cut(Ordered(rows), offset))) \subseteq rows
<1> DEFINE all == Ordered(rows)
           rest == SubSeq(all, offset + 1, Len(all))
<1>1. all \in Seq(rows) /\ MaxPage \in Nat /\ MaxPage + 1 \in Nat
  BY OrderedFacts, ServeAssumption
<1> HIDE DEF all
<1>2. rest \in Seq(rows)
  BY <1>1
<1> HIDE DEF rest
<1>3. FirstOf(MaxPage + 1, rest) \in Seq(rows)
  BY <1>1, <1>2, FirstOfFacts
<1>4. FirstOf(MaxPage, FirstOf(MaxPage + 1, rest)) \in Seq(rows)
  BY <1>1, <1>3, FirstOfFacts
<1>5. Page(Cut(Ordered(rows), offset)) = FirstOf(MaxPage, FirstOf(MaxPage + 1, rest))
  BY DEF Page, Cut, all, rest
<1> QED
  BY <1>4, <1>5 DEF Range

(* What lands is counted too. *)
LEMMA CountsGrow ==
    ASSUME events \in SUBSET Events, order \in Orders, NEW t \in SUBSET events
    PROVE  /\ Cardinality(t) \in Nat /\ Cardinality(events) \in Nat
           /\ Cardinality(t) <= Cardinality(events)
           /\ Unread(t) \in Nat /\ Unread(events) \in Nat /\ Unread(t) <= Unread(events)
<1> DEFINE Untold(u) == {e \in u : e.kind = "unparsed.record" /\ e.unread}
<1>1. IsFiniteSet(events)
  BY PlaceFacts, FS_Subset
<1>2. Untold(t) \in SUBSET Untold(events) /\ Untold(events) \in SUBSET events
  OBVIOUS
<1>3. Unread(t) = Cardinality(Untold(t)) /\ Unread(events) = Cardinality(Untold(events))
  BY DEF Unread
<1> HIDE DEF Untold
<1>4. IsFiniteSet(Untold(events)) /\ IsFiniteSet(Untold(t)) /\ IsFiniteSet(t)
  BY <1>1, <1>2, FS_Subset
<1> QED
  BY <1>1, <1>2, <1>3, <1>4, FS_Subset, FS_CardinalityType

(* The three answers that are put together from several queries. *)
FindingsHold ==
    /\ Asked("runs") => answer["runs"] \subseteq runs
    /\ Asked("findings") =>
          \A f \in FindingsIn(answer["runs"]) : f.rule \in answer["findings"]
    /\ Asked("findings' events") =>
          \A f \in FindingsIn(answer["runs"]) :
              f.events \subseteq answer["findings' events"][f.rule]

ToolsHold ==
    /\ Asked("calls") => Range(Page(answer["calls"])) \subseteq RowsOf(request, events)
    /\ request.failedOnly /\ Asked("results") =>
          \A e \in Range(Page(answer["calls"])) : e.use \in DOMAIN answer["results"]

NotesHold ==
    /\ Asked("rows") => /\ Range(answer["rows"]) \subseteq events
                        /\ Len(answer["rows"]) = Cardinality(Range(answer["rows"]))
    /\ Asked("events") => Len(answer["rows"]) <= answer["events"]
    /\ Asked("unread") => Unread(Range(answer["rows"])) <= answer["unread"]

(* What the later queries of an answer find holds what the earlier found.  *)
AnswerInv ==
    request # None =>
        /\ request.op = "findings" => FindingsHold
        /\ request.op = "tools" => ToolsHold
        /\ request.op = "timeline" => NotesHold

(* A query of the findings keeps the parts of their answer in agreement.   *)
LEMMA FindingsQuery ==
    ASSUME Shape, Query, request.op = "findings", FindingsHold
    PROVE  FindingsHold'
<1>1. UNCHANGED runs /\ request # None
  BY DEF Query, Answering
<1>2. PICK k \in Nat : Asks(Queries[request.op][k], k)
  BY QueryAsks
<1> DEFINE q == Queries[request.op][k]
<1>3. /\ DOMAIN answer' = DOMAIN answer \cup {q} /\ answer'[q] = Result(q)
      /\ \A x \in DOMAIN answer : answer'[x] = answer[x]
  BY <1>2 DEF Asks
<1>4. \/ q = "runs" /\ DOMAIN answer = {}
      \/ q = "findings" /\ DOMAIN answer = {"runs"}
      \/ q = "findings' events" /\ DOMAIN answer = {"runs", "findings"}
  BY <1>1, <1>2, QueryOrder
<1> HIDE DEF q
<1>5. CASE q = "runs" /\ DOMAIN answer = {}
  BY <1>1, <1>3, <1>5 DEF FindingsHold, Asked, Result
<1>6. CASE q = "findings" /\ DOMAIN answer = {"runs"}
  <2>1. answer'["findings"] = {f.rule : f \in FindingsIn(runs)} /\ answer'["runs"] = answer["runs"]
    BY <1>3, <1>6 DEF Result
  <2>2. answer["runs"] \subseteq runs
    BY <1>6 DEF FindingsHold, Asked
  <2>3. FindingsIn(answer["runs"]) \subseteq FindingsIn(runs)
    BY <2>2 DEF FindingsIn
  <2>4. \A f \in FindingsIn(answer'["runs"]) : f.rule \in answer'["findings"]
    BY <2>1, <2>3
  <2>5. "findings' events" \notin DOMAIN answer'
    BY <1>3, <1>6
  <2> QED
    BY <1>1, <2>1, <2>2, <2>4, <2>5 DEF FindingsHold, Asked
<1>7. CASE q = "findings' events" /\ DOMAIN answer = {"runs", "findings"}
  <2>1. /\ answer'["findings' events"] =
              [rule \in answer["findings"] |->
                  UNION {f.events : f \in {x \in FindingsIn(runs) : x.rule = rule}}]
        /\ answer'["runs"] = answer["runs"] /\ answer'["findings"] = answer["findings"]
    BY <1>3, <1>7 DEF Result
  <2>2. /\ answer["runs"] \subseteq runs
        /\ \A f \in FindingsIn(answer["runs"]) : f.rule \in answer["findings"]
    BY <1>7 DEF FindingsHold, Asked
  <2>3. FindingsIn(answer["runs"]) \subseteq FindingsIn(runs)
    BY <2>2 DEF FindingsIn
  <2>4. \A f \in FindingsIn(answer'["runs"]) :
            f.events \subseteq answer'["findings' events"][f.rule]
    <3> TAKE f \in FindingsIn(answer'["runs"])
    <3>1. f \in FindingsIn(runs) /\ f.rule \in answer["findings"]
      BY <2>1, <2>2, <2>3
    <3>2. f \in {x \in FindingsIn(runs) : x.rule = f.rule}
      BY <3>1
    <3>3. answer'["findings' events"][f.rule] =
             UNION {g.events : g \in {x \in FindingsIn(runs) : x.rule = f.rule}}
      BY <2>1, <3>1
    <3> QED
      BY <3>2, <3>3
  <2> QED
    BY <1>1, <2>1, <2>2, <2>4 DEF FindingsHold, Asked
<1> QED
  BY <1>4, <1>5, <1>6, <1>7

(* So does one of the tool uses.                                           *)
LEMMA ToolsQuery ==
    ASSUME Shape, Query, request.op = "tools", ToolsHold
    PROVE  ToolsHold'
<1>1. UNCHANGED <<events, request>> /\ request # None
  BY DEF Query, Answering
<1>2. PICK k \in Nat : Asks(Queries[request.op][k], k)
  BY QueryAsks
<1> DEFINE q == Queries[request.op][k]
<1>3. /\ DOMAIN answer' = DOMAIN answer \cup {q} /\ answer'[q] = Result(q)
      /\ \A x \in DOMAIN answer : answer'[x] = answer[x]
  BY <1>2 DEF Asks
<1>4. \/ q = "by tool" /\ DOMAIN answer = {}
      \/ q = "calls" /\ DOMAIN answer = {"by tool"}
      \/ q = "results" /\ DOMAIN answer = {"by tool", "calls"}
      \/ q = "failed" /\ DOMAIN answer = {"by tool", "calls", "results"}
  BY <1>1, <1>2, QueryOrder
<1> HIDE DEF q
<1>5. CASE q = "by tool" /\ DOMAIN answer = {}
  BY <1>1, <1>3, <1>5 DEF ToolsHold, Asked
<1>6. CASE q = "calls" /\ DOMAIN answer = {"by tool"}
  <2>1. /\ order \in Orders /\ RowsOf(request, events) \in SUBSET Events
        /\ request.offset \in Nat
    BY <1>1 DEF Shape, IsRequest, RowsOf
  <2>2. PageQuery(request) = "calls"
    BY DEF PageQuery
  <2>3. answer'["calls"] = Cut(Ordered(RowsOf(request, events)), request.offset)
    BY <1>3, <1>6, <2>2, PageResult
  <2>4. Range(Page(answer'["calls"])) \subseteq RowsOf(request, events)
    BY <2>1, <2>3, PageShowsRows
  <2>5. "results" \notin DOMAIN answer' /\ RowsOf(request', events') = RowsOf(request, events)
    BY <1>1, <1>3, <1>6
  <2> QED
    BY <2>4, <2>5 DEF ToolsHold, Asked
<1>7. CASE q = "results" /\ DOMAIN answer = {"by tool", "calls"}
  <2> DEFINE page == Page(answer["calls"])
  <2>1. /\ answer'["results"] = ToolResults(events, page)
        /\ answer'["calls"] = answer["calls"]
    BY <1>3, <1>7 DEF Result
  <2>2. Range(page) \subseteq RowsOf(request, events)
    BY <1>7 DEF ToolsHold, Asked
  <2> HIDE DEF page
  <2>3. ASSUME request.failedOnly, NEW e \in Range(page) PROVE e.use \in DOMAIN answer'["results"]
    <3>1. Wanted(events, request.tool, request.failedOnly, e)
      BY <2>2, <2>3 DEF RowsOf
    <3>2. ResultsIn(events, e.use) # {}
      BY <2>3, <3>1 DEF Wanted
    <3> QED
      BY <2>1, <2>3, <3>2 DEF ToolResults
  <2>4. RowsOf(request', events') = RowsOf(request, events)
    BY <1>1
  <2> QED
    BY <1>1, <2>1, <2>2, <2>3, <2>4 DEF ToolsHold, page
<1>8. CASE q = "failed" /\ DOMAIN answer = {"by tool", "calls", "results"}
  <2>1. answer'["calls"] = answer["calls"] /\ answer'["results"] = answer["results"]
    BY <1>3, <1>8
  <2>2. RowsOf(request', events') = RowsOf(request, events)
    BY <1>1
  <2> QED
    BY <1>1, <1>8, <2>1, <2>2 DEF ToolsHold, Asked
<1> QED
  BY <1>4, <1>5, <1>6, <1>7, <1>8

(* So does one of the timeline's notes.                                    *)
LEMMA NotesQuery ==
    ASSUME Shape, Query, request.op = "timeline", NotesHold
    PROVE  NotesHold'
<1>1. UNCHANGED events /\ request # None /\ order \in Orders /\ events \in SUBSET Events
  BY DEF Query, Answering, Shape
<1>2. PICK k \in Nat : Asks(Queries[request.op][k], k)
  BY QueryAsks
<1> DEFINE q == Queries[request.op][k]
<1>3. /\ DOMAIN answer' = DOMAIN answer \cup {q} /\ answer'[q] = Result(q)
      /\ \A x \in DOMAIN answer : answer'[x] = answer[x]
  BY <1>2 DEF Asks
<1>4. \/ q = "rows" /\ DOMAIN answer = {}
      \/ q = "events" /\ DOMAIN answer = {"rows"}
      \/ q = "unread" /\ DOMAIN answer = {"rows", "events"}
  BY <1>1, <1>2, QueryOrder
<1> HIDE DEF q
<1>5. CASE q = "rows" /\ DOMAIN answer = {}
  <2>1. answer'["rows"] = Ordered(events)
    BY <1>3, <1>5 DEF Result, Rows
  <2>2. Range(answer'["rows"]) = events /\ Len(answer'["rows"]) = Cardinality(events)
    BY <1>1, <2>1, OrderedHolds, OrderedFacts
  <2>3. "events" \notin DOMAIN answer' /\ "unread" \notin DOMAIN answer'
    BY <1>3, <1>5
  <2> QED
    BY <1>1, <2>2, <2>3 DEF NotesHold, Asked
<1>6. CASE q = "events" /\ DOMAIN answer = {"rows"}
  <2>1. /\ answer'["events"] = Cardinality(events) /\ answer'["rows"] = answer["rows"]
        /\ "unread" \notin DOMAIN answer'
    BY <1>3, <1>6 DEF Result
  <2>2. /\ Range(answer["rows"]) \subseteq events
        /\ Len(answer["rows"]) = Cardinality(Range(answer["rows"]))
    BY <1>6 DEF NotesHold, Asked
  <2>3. Len(answer["rows"]) <= Cardinality(events)
    BY <1>1, <2>2, CountsGrow
  <2> QED
    BY <1>1, <2>1, <2>2, <2>3 DEF NotesHold, Asked
<1>7. CASE q = "unread" /\ DOMAIN answer = {"rows", "events"}
  <2>1. /\ answer'["unread"] = Unread(events) /\ answer'["rows"] = answer["rows"]
        /\ answer'["events"] = answer["events"]
    BY <1>3, <1>7 DEF Result
  <2>2. /\ Range(answer["rows"]) \subseteq events
        /\ Len(answer["rows"]) = Cardinality(Range(answer["rows"]))
        /\ Len(answer["rows"]) <= answer["events"]
    BY <1>7 DEF NotesHold, Asked
  <2>3. Unread(Range(answer["rows"])) <= Unread(events)
    BY <1>1, <2>2, CountsGrow
  <2> QED
    BY <1>1, <2>1, <2>2, <2>3 DEF NotesHold
<1> QED
  BY <1>4, <1>5, <1>6, <1>7

(* What lands leaves an answer as it is: more events and scans. *)
LEMMA AnswerRests ==
    ASSUME AnswerInv, events \subseteq events', runs \subseteq runs',
           UNCHANGED <<request, answer>>
    PROVE  AnswerInv'
<1>1. RowsOf(request, events) \subseteq RowsOf(request, events')
  BY RowsGrow
<1>2. RowsOf(request, events)' = RowsOf(request, events')
  OBVIOUS
<1>3. ToolsHold => ToolsHold'
  BY <1>1, <1>2 DEF ToolsHold, Asked
<1>4. FindingsHold => FindingsHold'
  BY DEF FindingsHold, Asked
<1>5. NotesHold => NotesHold'
  BY DEF NotesHold, Asked
<1> QED
  BY <1>3, <1>4, <1>5 DEF AnswerInv

(* A request whose queries are yet to come has nothing to hold. *)
LEMMA NothingHolds ==
    ASSUME answer' = Nothing
    PROVE  AnswerInv'
<1>1. \A q : ~Asked(q)'
  BY DEF Asked, Nothing
<1> QED
  BY <1>1 DEF AnswerInv, FindingsHold, ToolsHold, NotesHold

(* An answer that is served is what its queries found. *)
LEMMA AnswerServed ==
    ASSUME Shape, AnswerInv, request # None, UNCHANGED <<events, runs, answer>>,
           request' = [request EXCEPT !.done = TRUE]
    PROVE  AnswerInv'
<1>1. /\ request'.op = request.op /\ request'.tool = request.tool
      /\ request'.failedOnly = request.failedOnly /\ request'.key = request.key
  BY DEF Shape, IsRequest
<1>2. RowsOf(request', events') = RowsOf(request, events)
  BY <1>1 DEF RowsOf
<1>3. ToolsHold => ToolsHold'
  BY <1>1, <1>2 DEF ToolsHold, Asked
<1>4. FindingsHold => FindingsHold'
  BY DEF FindingsHold, Asked
<1>5. NotesHold => NotesHold'
  BY DEF NotesHold, Asked
<1> QED
  BY <1>1, <1>3, <1>4, <1>5 DEF AnswerInv

(* Every step keeps the parts of an answer in agreement.                   *)
LEMMA AnswerStep ==
    ASSUME Shape, ListingInv, AnswerInv, [Next]_vars
    PROVE  AnswerInv'
<1>1. CASE Ingest \/ Scan \/ Reconnect \/ UNCHANGED vars
  <2>1. events \subseteq events' /\ runs \subseteq runs' /\ UNCHANGED <<request, answer>>
    BY <1>1 DEF Ingest, Scan, Reconnect, vars
  <2> QED
    BY <2>1, AnswerRests
<1>2. CASE \E r \in Requests : Receive(r)
  BY <1>2, NothingHolds DEF Receive
<1>3. CASE Query
  <2>1. UNCHANGED request
    BY <1>3 DEF Query
  <2> QED
    BY <1>3, <2>1, FindingsQuery, ToolsQuery, NotesQuery DEF AnswerInv
<1>4. CASE Answer \/ ReadSessions \/ NotFound
  <2>1. /\ request # None /\ UNCHANGED <<events, runs, answer>>
        /\ request' = [request EXCEPT !.done = TRUE]
    BY <1>4 DEF Answer, ReadSessions, NotFound, Complete, Answering
  <2> QED
    BY <2>1, AnswerServed
<1>5. CASE NextPage
  <2>1. CASE NextOffset(Fetched, request.offset) # None
    BY <1>5, <2>1, NothingHolds DEF NextPage
  <2>2. CASE NextOffset(Fetched, request.offset) = None
    BY <1>5, <2>2, AnswerServed DEF NextPage, Complete, Answering
  <2> QED
    BY <2>1, <2>2
<1>6. CASE NextSession
  BY <1>6, NothingHolds DEF NextSession
<1> QED
  BY <1>1, <1>2, <1>3, <1>4, <1>5, <1>6 DEF Next

(* A findings answer that names a scan holds the whole of it, a failed     *)
(* call is served with its result, and the counts beside a timeline are no *)
(* smaller than what its rows show, although every part is read by a query *)
(* of its own and anything may land between two of them (findings,         *)
(* tool_calls, header_notes).                                              *)
THEOREM AnswersAgree == Spec => []NoAnswerContradictsItself
<1>1. Init => AnswerInv
  BY DEF Init, AnswerInv
<1>2. Shape /\ ListingInv /\ AnswerInv /\ [Next]_vars => AnswerInv'
  BY AnswerStep
<1>3. ASSUME Shape, AnswerInv PROVE NoAnswerContradictsItself
  <2>1. ASSUME request # None, request.done, request.op \notin {"session", "log"}
        PROVE  DOMAIN answer = Range(Queries[request.op])
    BY <1>3, <2>1 DEF Shape
  <2>2. ScannedMeansWhole
    <3> SUFFICES ASSUME request # None, request.op = "findings", request.done
                 PROVE  \A f \in FindingsIn(answer["runs"]) :
                            /\ f.rule \in answer["findings"]
                            /\ f.events \subseteq answer["findings' events"][f.rule]
      BY DEF ScannedMeansWhole
    <3>1. DOMAIN answer = Range(Queries["findings"])
      BY <2>1
    <3>2. "findings" \in Range(Queries["findings"]) /\ "findings' events" \in Range(Queries["findings"])
      BY QueryNames, ZenonT(30) DEF Range
    <3> QED
      BY <1>3, <3>1, <3>2 DEF Asked, AnswerInv, FindingsHold
  <2>3. FailedCallHasResult
    BY <1>3 DEF FailedCallHasResult, AnswerInv, ToolsHold
  <2>4. NotesCoverTheRows
    <3> SUFFICES ASSUME request # None, request.op = "timeline", request.done
                 PROVE  /\ Len(answer["rows"]) <= answer["events"]
                        /\ Unread(Range(answer["rows"])) <= answer["unread"]
      BY DEF NotesCoverTheRows
    <3>1. DOMAIN answer = Range(Queries["timeline"])
      BY <2>1
    <3>2. "events" \in Range(Queries["timeline"]) /\ "unread" \in Range(Queries["timeline"])
      BY QueryNames, ZenonT(30) DEF Range
    <3> QED
      BY <1>3, <3>1, <3>2 DEF Asked, AnswerInv, NotesHold
  <2> QED
    BY <2>2, <2>3, <2>4 DEF NoAnswerContradictsItself
<1> QED
  BY <1>1, <1>2, <1>3, ListingHolds, PTL DEF Spec
=============================================================================
