------------------------------- MODULE Serve -------------------------------
(***************************************************************************)
(* webui/server.py, webui/api.py, timeline/build.py and the reads of       *)
(* model/case.py: a case that is read while it grows.                      *)
(*                                                                         *)
(* Every query is one atomic read of what is committed then; nothing holds *)
(* two of them together.  A request is several queries (Queries), a        *)
(* listing is several requests that cut their pages by OFFSET, and a whole *)
(* ingest or a whole scan may land between any two of them, as CasePromise *)
(* says it does.                                                           *)
(*                                                                         *)
(* One client at a time: readers share nothing.  The ORDER BY of a listing *)
(* is one total order of all events that may land: the database orders     *)
(* what the clause leaves tied by where the rows are, and no row moves.    *)
(***************************************************************************)
EXTENDS Naturals, FiniteSets, SequencesExt

CONSTANTS
    None,
    Events,     \* [name, group, kind, tool, use, failed, undated, unread, store]
    Ingests,    \* what may land: sets of events
    Scans,      \* what a scan may store: [run, found], found of [rule, events]
    Orders,     \* sequences of all events: the orders a listing may have
    MaxPage,    \* what a page holds: MAX_PAGE
    Requests,   \* what a client sends: [op, key, tool, failedOnly, body, host, query]
    MaxSent     \* bound: how many requests a client sends, not counting later pages

Kinds == {"tool.call", "mcp.call", "tool.result", "unparsed.record", "other"}

ASSUME ServeAssumption ==
    /\ MaxPage \in Nat \ {0} /\ MaxSent \in Nat
    /\ \A e \in Events : e.kind \in Kinds
    /\ \A o \in Orders : o \in Seq(Events) /\ Range(o) = Events /\ IsInjective(o)
    /\ \A i \in Ingests : i \subseteq Events

ASSUME NoneIsNoOffset == None \notin Nat

VARIABLES
    events,     \* the committed events
    runs,       \* the committed scans
    order,      \* how the queries order events
    wire,       \* the client's connection: "idle", "body", "closed"
    request,    \* what is being answered, None between two requests
    answer,     \* what its queries have found: a function of their names
    listing,    \* where a listing of several pages is, None without one
    sent,       \* how many requests were sent
    had         \* history: the events when the listing began, the ingests since

vars == <<events, runs, order, wire, request, answer, listing, sent, had>>

Nothing == [q \in {} |-> None]

Init ==
    /\ events = {} /\ runs = {}
    /\ order \in Orders
    /\ wire = "idle" /\ request = None /\ answer = Nothing
    /\ listing = None /\ sent = 0
    /\ had = [events |-> {}, ingests |-> 0]

(* ------------------------------------------------------ the case grows *)

Ingest ==
    /\ \E i \in Ingests : ~(i \subseteq events) /\ events' = events \cup i
    /\ had' = [had EXCEPT !.ingests = @ + 1]
    /\ UNCHANGED <<runs, order, wire, request, answer, listing, sent>>

Scan ==
    /\ \E s \in Scans \ runs :
          /\ UNION {f.events : f \in s.found} \subseteq events
          /\ runs' = runs \cup {s}
    /\ UNCHANGED <<events, order, wire, request, answer, listing, sent, had>>

(* ------------------------------------------------------------- queries *)

(* Slip: a key that counts what the group holds. *)
CountedKey(t, group) == <<group, Cardinality({e \in t : e.group = group})>>

(* One key for a session: a hash of the values its events are grouped by. *)
GroupKey(t, group) == <<group>>

Sessions(t) == {GroupKey(t, e.group) : e \in t}

Place(o, e) == CHOOSE i \in DOMAIN o : o[i] = e

(* How many of the rows the order o puts no later than e. *)
Rank(o, rows, e) == Cardinality({x \in rows : Place(o, x) <= Place(o, e)})

(* What a listing selects, in its order. *)
Ordered(rows) ==
    [n \in 1..Cardinality(rows) |-> CHOOSE e \in rows : Rank(order, rows, e) = n]

SessionRows(t, key) == Ordered({e \in t : GroupKey(t, e.group) = key})

FirstOf(n, rows) == SubSeq(rows, 1, IF n < Len(rows) THEN n ELSE Len(rows))

(* LIMIT one past the page: whether more remain is read, not counted. *)
Cut(rows, offset) ==
    FirstOf(MaxPage + 1, SubSeq(rows, offset + 1, Len(rows)))

Page(fetched) == FirstOf(MaxPage, fetched)

(* Slips: the row past the page counts as served; the offset stays. *)
NextOffsetPast(fetched, offset) ==
    IF Len(fetched) > MaxPage THEN offset + Len(fetched) ELSE None
NextOffsetStays(fetched, offset) == IF Len(fetched) > MaxPage THEN offset ELSE None

NextOffset(fetched, offset) ==
    IF Len(fetched) > MaxPage THEN offset + MaxPage ELSE None

IsCall(e) == e.kind \in {"tool.call", "mcp.call"}

(* A call and its result have the agent's own id in common. *)
ResultsIn(t, use) == {r \in t : r.kind = "tool.result" /\ r.use = use /\ use # None}

(* _tool_where. *)
Wanted(t, tool, failedOnly, e) ==
    /\ IsCall(e)
    /\ tool # None => e.tool = tool
    /\ failedOnly => \E r \in ResultsIn(t, e.use) : r.failed

ToolRows(t, tool, failedOnly) == Ordered({e \in t : Wanted(t, tool, failedOnly, e)})

(* How many calls of each tool, by the other filters. *)
ByTool(t, failedOnly) ==
    [n \in {e.tool : e \in {x \in t : Wanted(t, None, failedOnly, x)}} |->
        Cardinality({e \in t : Wanted(t, n, failedOnly, e)})]

(* How many calls failed: the tool that is filtered for is not asked. *)
ToolFailures(t) == Cardinality({e \in t : Wanted(t, None, TRUE, e)})

(* For every id of the page the result that the query returned last. *)
ToolResults(t, page) ==
    LET answered == {u \in {e.use : e \in Range(page)} : ResultsIn(t, u) # {}}
    IN  [u \in answered |->
            Last(Ordered(ResultsIn(t, u)))]

(* The timeline's rows, and the log's. *)
Rows(t) == Ordered(t)

Unread(t) == Cardinality({e \in t : e.kind = "unparsed.record" /\ e.unread})

Stores(t, group) == {e.store : e \in {x \in t : x.group = group}}

(* Which stores name a session, and which know others and not it. *)
Corroboration(t) ==
    [g \in {e.group : e \in t} |->
        [named |-> Stores(t, g),
         silent |-> {e.store : e \in t} \ Stores(t, g)]]

(* Slips: a projection asks in another order. *)
FindingsFirst == <<"findings", "findings' events", "runs">>
ResultsBeforeCalls == <<"by tool", "results", "calls", "failed">>
NotesFirst == <<"events", "unread", "rows">>

(* The queries behind each request, in the order the code makes them. *)
SummaryQueries == <<"events", "unread", "agents", "kinds", "runs", "unread by artifact">>
FindingsQueries == <<"runs", "findings", "findings' events">>
ToolQueries == <<"by tool", "calls", "results", "failed">>
TimelineQueries == <<"rows", "events", "unread">>
SessionQueries == <<"sessions", "session's rows">>

Queries ==
    [case |-> SummaryQueries, findings |-> FindingsQueries, tools |-> ToolQueries,
     timeline |-> TimelineQueries, session |-> SessionQueries,
     log |-> <<"sessions">>, pages |-> <<"page of rows">>,
     corroboration |-> <<"stores">>]

(* What a client may send: a page that there is; its key is the session's. *)
ASSUME RequestsAssumption ==
    \A r \in Requests : r.op \in DOMAIN Queries /\ (r.key # None <=> r.op = "session")

FindingsIn(found) == UNION {s.found : s \in found}

(* What one query finds in the case as it is now. *)
Result(q) ==
    CASE q \in {"events", "agents"} -> Cardinality(events)
      [] q \in {"unread", "unread by artifact"} -> Unread(events)
      [] q = "kinds" -> {e.kind : e \in events}
      [] q = "runs" -> runs
      [] q = "findings" -> {f.rule : f \in FindingsIn(runs)}
      [] q = "findings' events" ->
            [rule \in answer["findings"] |->
                UNION {f.events : f \in {x \in FindingsIn(runs) : x.rule = rule}}]
      [] q = "by tool" -> ByTool(events, request.failedOnly)
      [] q = "calls" ->
            Cut(ToolRows(events, request.tool, request.failedOnly), request.offset)
      [] q = "results" ->
            ToolResults(events, IF "calls" \in DOMAIN answer THEN Page(answer["calls"])
                                                            ELSE order)
      [] q = "failed" -> ToolFailures(events)
      [] q = "rows" -> Rows(events)
      [] q = "page of rows" -> Cut(Rows(events), request.offset)
      [] q = "sessions" -> Sessions(events)
      [] q = "session's rows" -> Cut(SessionRows(events, request.key), request.offset)
      [] q = "stores" -> Corroboration(events)

(* ------------------------------------------------------------ requests *)

(* Slip: the query's length is looked at before the body. *)
RefusalQueryFirst(r) ==
    CASE r.query -> [status |-> 414, close |-> FALSE]
      [] ~r.query /\ r.body -> [status |-> 413, close |-> TRUE]
      [] ~r.query /\ ~r.body /\ ~r.host -> [status |-> 403, close |-> TRUE]
      [] OTHER -> [status |-> 200, close |-> FALSE]

(* What _resolve refuses, in its order, and whether that ends the          *)
(* connection.  A body is never read.                                      *)
Refusal(r) ==
    CASE r.body -> [status |-> 413, close |-> TRUE]
      [] ~r.body /\ ~r.host -> [status |-> 403, close |-> TRUE]
      [] ~r.body /\ r.host /\ r.query -> [status |-> 414, close |-> FALSE]
      [] OTHER -> [status |-> 200, close |-> FALSE]

(* The connection is used again unless the answer closed it, with what the *)
(* client sent and nobody read still on it.                                *)
WireAfter(r) ==
    IF Refusal(r).close THEN "closed" ELSE IF r.body THEN "body" ELSE "idle"

Listings == {"log", "tools", "pages", "session"}

Answering == request # None /\ ~request.done

Free == ~Answering /\ (listing # None => listing.end # "no")

Asked(q) == q \in DOMAIN answer

Ask(op, key, offset) ==
    request' = [op |-> op, tool |-> request.tool, failedOnly |-> request.failedOnly,
                key |-> key, offset |-> offset, done |-> FALSE]

(* A request arrives. *)
Receive(r) ==
    /\ wire = "idle" /\ Free /\ sent < MaxSent
    /\ sent' = sent + 1
    /\ wire' = WireAfter(r)
    /\ IF Refusal(r).status = 200
       THEN /\ request' = [op |-> r.op, tool |-> r.tool, failedOnly |-> r.failedOnly,
                           key |-> r.key, offset |-> 0, done |-> FALSE]
            /\ listing' = IF r.op \in Listings
                          THEN [op |-> r.op, todo |-> {}, seen |-> <<>>, end |-> "no"]
                          ELSE None
       ELSE request' = None /\ listing' = None
    /\ answer' = Nothing
    /\ had' = [events |-> events, ingests |-> 0]
    /\ UNCHANGED <<events, runs, order>>

Reconnect ==
    /\ wire = "closed" /\ wire' = "idle"
    /\ UNCHANGED <<events, runs, order, request, answer, listing, sent, had>>

(* The next query of a request. *)
Query ==
    /\ Answering
    /\ Cardinality(DOMAIN answer) < Len(Queries[request.op])
    /\ request.key # None /\ Asked("sessions") => request.key \in answer["sessions"]
    /\ LET q == Queries[request.op][Cardinality(DOMAIN answer) + 1]
       IN  answer' = [x \in DOMAIN answer \cup {q} |->
                         IF x = q THEN Result(q) ELSE answer[x]]
    /\ UNCHANGED <<events, runs, order, wire, request, listing, sent, had>>

Complete == Answering /\ DOMAIN answer = Range(Queries[request.op])

(* An answer that is not a page of a listing. *)
Answer ==
    /\ Complete /\ request.op \notin Listings
    /\ request' = [request EXCEPT !.done = TRUE]
    /\ UNCHANGED <<events, runs, order, wire, answer, listing, sent, had>>

(* Which rows a page has fetched. *)
Fetched ==
    CASE request.op = "tools" -> answer["calls"]
      [] request.op = "pages" -> answer["page of rows"]
      [] request.op = "session" -> answer["session's rows"]

(* A page is served; the client asks for the next one, then for the next   *)
(* session, and then is done.                                              *)
NextPage ==
    /\ Complete /\ listing # None /\ request.op # "log"
    /\ LET next == NextOffset(Fetched, request.offset)
       IN  /\ listing' = [listing EXCEPT !.seen = @ \o Page(Fetched),
                            !.end = IF next = None /\ listing.todo = {} THEN "served" ELSE @]
           /\ IF next # None
              THEN Ask(request.op, request.key, next) /\ answer' = Nothing
              ELSE request' = [request EXCEPT !.done = TRUE] /\ UNCHANGED answer
    /\ UNCHANGED <<events, runs, order, wire, sent, had>>

(* Slip: a log without sessions is not ended. *)
ReadSomeSessions ==
    /\ Complete /\ listing # None /\ request.op = "log"
    /\ listing' = [listing EXCEPT !.todo = answer["sessions"]]
    /\ request' = [request EXCEPT !.done = TRUE]
    /\ UNCHANGED <<events, runs, order, wire, answer, sent, had>>

(* log_lines: the sessions are read once, and listed one by one. *)
ReadSessions ==
    /\ Complete /\ listing # None /\ request.op = "log"
    /\ listing' = [listing EXCEPT !.todo = answer["sessions"],
                     !.end = IF answer["sessions"] = {} THEN "served" ELSE @]
    /\ request' = [request EXCEPT !.done = TRUE]
    /\ UNCHANGED <<events, runs, order, wire, answer, sent, had>>

NextSession ==
    /\ request # None /\ request.done /\ listing # None /\ listing.todo # {}
    /\ \E key \in listing.todo :
          /\ listing' = [listing EXCEPT !.todo = @ \ {key}]
          /\ Ask("session", key, 0)
    /\ answer' = Nothing
    /\ UNCHANGED <<events, runs, order, wire, sent, had>>

(* The key names no session now: an ApiError, and a 404. *)
NotFound ==
    /\ Answering /\ listing # None /\ request.key # None /\ Asked("sessions")
    /\ request.key \notin answer["sessions"]
    /\ listing' = [listing EXCEPT !.todo = {}, !.end = "not found"]
    /\ request' = [request EXCEPT !.done = TRUE]
    /\ UNCHANGED <<events, runs, order, wire, answer, sent, had>>

Next ==
    \/ Ingest \/ Scan
    \/ \E r \in Requests : Receive(r)
    \/ Reconnect \/ Query \/ Answer \/ NextPage \/ ReadSessions \/ NextSession
    \/ NotFound

(* The server's threads and the client run on; what lands is bounded, as   *)
(* the evidence is.                                                        *)
Fairness == WF_vars(Query \/ Answer \/ NextPage \/ ReadSessions \/ NextSession \/ NotFound)

Spec == Init /\ [][Next]_vars /\ Fairness

-----------------------------------------------------------------------------

Seen(e) == {i \in DOMAIN listing.seen : listing.seen[i] = e}

(* What the listing asked for: all events, or those its filter wants. *)
Sought(e) ==
    /\ listing.op = "tools" => Wanted(had.events, request.tool, request.failedOnly, e)
    /\ listing.op = "session" => GroupKey(had.events, e.group) = request.key

(* However many ingests land between its pages, a listing that is served   *)
(* holds every event that it sought and that was there when it began: what *)
(* lands moves rows to later pages, never to earlier ones (session_records,*)
(* log_lines, tool_calls, timeline).                                       *)
ListingMissesNothing ==
    listing # None /\ listing.end = "served" =>
        \A e \in had.events : Sought(e) => Seen(e) # {}

(* An event is served once, and once more at most for every ingest that    *)
(* landed while the listing went on.                                       *)
RepeatNeedsIngest ==
    listing # None =>
        \A e \in Events : Cardinality(Seen(e)) <= 1 + had.ingests

(* A session that was handed out can be opened, whatever lands after: "a   *)
(* bookmarked URL still resolves after a re-ingest".                       *)
KeysResolve == listing # None /\ listing.op = "log" => listing.end # "not found"

(* What a client pages through is what there was, whatever lands while it  *)
(* does: nothing of it is left out, nothing is there twice for no reason,  *)
(* and no session of it is gone (session_records, log_lines, tool_calls).  *)
ListingIsFaithful == ListingMissesNothing /\ RepeatNeedsIngest /\ KeysResolve

(* A findings answer that names a scan holds all that the scan found, each *)
(* finding with all its events: "an empty list means nothing until a       *)
(* reader knows whether anybody looked".                                   *)
ScannedMeansWhole ==
    request # None /\ request.op = "findings" /\ request.done =>
        \A f \in FindingsIn(answer["runs"]) :
            f.rule \in answer["findings"] /\ f.events \subseteq answer["findings' events"][f.rule]

(* A call that is listed because its result says it failed is served with  *)
(* a result, though the two are read by two queries.                       *)
FailedCallHasResult ==
    /\ request # None /\ request.op = "tools" /\ request.failedOnly
    /\ Asked("calls") /\ Asked("results")
    => \A e \in Range(Page(answer["calls"])) : e.use \in DOMAIN answer["results"]

(* The numbers that qualify a timeline are no smaller than what its rows   *)
(* show: header_notes counts after the rows were read.                     *)
NotesCoverTheRows ==
    request # None /\ request.op = "timeline" /\ request.done =>
        /\ Len(answer["rows"]) <= answer["events"]
        /\ Unread(Range(answer["rows"])) <= answer["unread"]

(* No answer is at odds with itself, although each of its parts was read   *)
(* by a query of its own (findings, tool_calls, header_notes).             *)
NoAnswerContradictsItself == ScannedMeansWhole /\ FailedCallHasResult /\ NotesCoverTheRows

(* Bytes that a request carried and the server did not read are never      *)
(* taken for the next request (Handler._resolve).                          *)
BodyIsNoRequest == wire # "body"

(* A request is answered and a listing comes to its end, although ingests  *)
(* make it longer while it is read.                                        *)
ListingEnds == ~Free ~> Free
=============================================================================
