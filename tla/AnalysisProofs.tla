--------------------------- MODULE AnalysisProofs ---------------------------
(***************************************************************************)
(* What holds of afx ingest and afx scan on one case for any number of     *)
(* processes, any sources and rules and any number of failures: the        *)
(* control is consistent (Control), and with the inductive invariant Inv   *)
(* the case keeps the promise of CasePromise.  The first part is about the *)
(* writes of the case: what they make of a case's content, and that the     *)
(* rows of a whole ingest, and those of a whole scan, are what CasePromise *)
(* lets happen; the steps of the processes come after it.                  *)
(***************************************************************************)
EXTENDS Analysis, FiniteSetTheorems, TLAPS

(* ------------------------------------------------------------- contents *)

IsFcn(f) == f = [k \in DOMAIN f |-> f[k]]

(* A record with the tables of a case.                                     *)
IsContent(c) ==
    /\ c = [tables |-> c.tables, version |-> c.version, last |-> c.last,
            bundles |-> c.bundles, artifacts |-> c.artifacts, events |-> c.events,
            gaps |-> c.gaps, findings |-> c.findings, runs |-> c.runs]
    /\ IsFcn(c.events)

SameSchema(c, d) == c.tables = d.tables /\ c.version = d.version

SameScans(c, d) == c.findings = d.findings /\ c.runs = d.runs

SameRows(c, d) ==
    /\ SameScans(c, d)
    /\ c.bundles = d.bundles /\ c.artifacts = d.artifacts /\ c.events = d.events
    /\ c.gaps = d.gaps /\ c.last = d.last

(* d has the bundles and the events of c, as they were.                    *)
Keeps(c, d) ==
    /\ DOMAIN c.bundles \subseteq DOMAIN d.bundles
    /\ DOMAIN c.events \subseteq DOMAIN d.events
    /\ \A k \in DOMAIN c.events : d.events[k] = c.events[k]

(* A new database file holds nothing.                                      *)
LEMMA EmptyContent ==
  /\ IsContent(EmptyCase) /\ EmptyCase.tables = 0 /\ EmptyCase.version = None
  /\ EmptyCase.bundles = NoRows /\ EmptyCase.artifacts = NoRows
  /\ EmptyCase.events = NoRows /\ EmptyCase.findings = NoRows
  /\ EmptyCase.gaps = {} /\ EmptyCase.runs = {} /\ EmptyCase.last = None
BY DEF IsContent, IsFcn, EmptyCase, NoRows

(* CREATE TABLE adds to the tables alone.                                  *)
LEMMA CreateTableFacts ==
  ASSUME NEW c, IsContent(c), NEW n
  PROVE  LET d == CreateTable(c, n) IN
         /\ IsContent(d) /\ SameRows(d, c) /\ d.version = c.version
         /\ d.tables = IF n > c.tables THEN n ELSE c.tables
BY DEF IsContent, SameRows, SameScans, CreateTable

(* Writing schema_version touches no row of a bundle or a scan.            *)
LEMMA InsertVersionFacts ==
  ASSUME NEW c, IsContent(c)
  PROVE  LET d == InsertVersion(c) IN
         /\ IsContent(d) /\ SameRows(d, c)
         /\ d.version = "current" /\ d.tables = c.tables
BY DEF IsContent, SameRows, SameScans, InsertVersion

(* Case.add_bundle adds its bundle's row and no other.                     *)
LEMMA AddBundleFacts ==
  ASSUME NEW c, IsContent(c), NEW s
  PROVE  LET d == AddBundle(c, s) IN
         /\ IsContent(d) /\ SameSchema(d, c) /\ SameScans(d, c)
         /\ d.artifacts = c.artifacts /\ d.events = c.events
         /\ d.gaps = c.gaps /\ d.last = c.last
         /\ DOMAIN d.bundles = DOMAIN c.bundles \cup {s.bundle}
         /\ \A k \in DOMAIN c.bundles : d.bundles[k] = c.bundles[k]
<1> DEFINE table == InsertNew(c.bundles, [b \in {s.bundle} |-> s.manifest])
<1>1. AddBundle(c, s) = [c EXCEPT !.bundles = table]
  BY DEF AddBundle, IsContent
<1>2. /\ DOMAIN table = DOMAIN c.bundles \cup {s.bundle}
      /\ \A k \in DOMAIN c.bundles : table[k] = c.bundles[k]
  BY DEF InsertNew
<1> HIDE DEF table
<1> QED
  BY <1>1, <1>2 DEF IsContent, SameSchema, SameScans

(* Case.add_artifact adds or renews the row of its entry and no other.     *)
LEMMA AddArtifactFacts ==
  ASSUME NEW c, IsContent(c), NEW b, NEW e, NEW key, key = <<b, e.path>>
  PROVE  LET d == AddArtifact(c, b, e) IN
         /\ IsContent(d) /\ SameSchema(d, c) /\ SameScans(d, c)
         /\ d.bundles = c.bundles /\ d.events = c.events
         /\ d.gaps = c.gaps /\ d.last = c.last
         /\ DOMAIN d.artifacts = DOMAIN c.artifacts \cup {key}
         /\ \A k \in DOMAIN c.artifacts \ {key} :
               d.artifacts[k] = c.artifacts[k]
         /\ d.artifacts[key].sha = e.sha
<1> DEFINE new == ArtifactRow(c.artifacts, key, e)
<1>1. AddArtifact(c, b, e) = [c EXCEPT !.artifacts = Upsert(c.artifacts, key, new)]
  BY DEF AddArtifact, IsContent
<1>2. new.sha = e.sha
  BY DEF ArtifactRow
<1> HIDE DEF new
<1>3. /\ DOMAIN Upsert(c.artifacts, key, new) = DOMAIN c.artifacts \cup {key}
      /\ Upsert(c.artifacts, key, new)[key] = new
      /\ \A k \in DOMAIN c.artifacts \ {key} :
            Upsert(c.artifacts, key, new)[k] = c.artifacts[k]
  BY DEF Upsert
<1>4. LET d == AddArtifact(c, b, e) IN
         /\ IsContent(d) /\ SameSchema(d, c) /\ SameScans(d, c)
         /\ d.bundles = c.bundles /\ d.events = c.events
         /\ d.gaps = c.gaps /\ d.last = c.last
         /\ d.artifacts = Upsert(c.artifacts, key, new)
  BY <1>1 DEF IsContent, SameSchema, SameScans
<1> QED
  BY <1>2, <1>3, <1>4

(* Case.add_events adds an event or leaves the one that is there.          *)
LEMMA AddEventFacts ==
  ASSUME NEW c, IsContent(c), NEW v
  PROVE  LET d == AddEvent(c, v) IN
         /\ IsContent(d) /\ SameSchema(d, c) /\ SameScans(d, c)
         /\ d.bundles = c.bundles /\ d.artifacts = c.artifacts
         /\ d.gaps = c.gaps /\ d.last = c.last
         /\ DOMAIN d.events = DOMAIN c.events \cup {v.id}
         /\ \A k \in DOMAIN c.events : d.events[k] = c.events[k]
         /\ v.id \notin DOMAIN c.events => d.events[v.id] = v.payload
<1> DEFINE table == InsertNew(c.events, [k \in {v.id} |-> v.payload])
<1>1. AddEvent(c, v) = [c EXCEPT !.events = table]
  BY DEF AddEvent, IsContent
<1>2. /\ DOMAIN table = DOMAIN c.events \cup {v.id}
      /\ \A k \in DOMAIN c.events : table[k] = c.events[k]
      /\ v.id \notin DOMAIN c.events => table[v.id] = v.payload
      /\ IsFcn(table)
  BY DEF InsertNew, IsFcn
<1> HIDE DEF table
<1>3. LET d == AddEvent(c, v) IN
         /\ IsContent(d) /\ SameSchema(d, c) /\ SameScans(d, c)
         /\ d.bundles = c.bundles /\ d.artifacts = c.artifacts
         /\ d.gaps = c.gaps /\ d.last = c.last
         /\ d.events = table
  BY <1>1, <1>2 DEF IsContent, SameSchema, SameScans
<1> QED
  BY <1>2, <1>3

(* Case.set_parse_result writes the row of its entry and no other.         *)
LEMMA SetParseResultFacts ==
  ASSUME NEW c, IsContent(c), NEW b, NEW e, NEW key, key = <<b, e.path>>
  PROVE  LET d == SetParseResult(c, b, e) IN
         /\ IsContent(d) /\ SameSchema(d, c) /\ SameScans(d, c)
         /\ d.bundles = c.bundles /\ d.events = c.events
         /\ d.gaps = c.gaps /\ d.last = c.last
         /\ DOMAIN d.artifacts = DOMAIN c.artifacts
         /\ \A k \in DOMAIN c.artifacts \ {key} :
               d.artifacts[k] = c.artifacts[k]
         /\ key \in DOMAIN c.artifacts =>
               /\ d.artifacts[key].sha = c.artifacts[key].sha
               /\ d.artifacts[key].status = Status(e)
<1> DEFINE set(r) == [artifact |-> r.artifact, mtime |-> r.mtime, sha |-> r.sha,
                      collected |-> r.collected, status |-> Status(e),
                      events |-> Len(EventsFor(b, e)), unparsed |-> Unparsed(e)]
           table == [k \in DOMAIN c.artifacts |->
                        IF k = key THEN set(c.artifacts[k]) ELSE c.artifacts[k]]
<1>1. SetParseResult(c, b, e) = [c EXCEPT !.artifacts = table]
  BY DEF SetParseResult, IsContent
<1>2. /\ DOMAIN table = DOMAIN c.artifacts
      /\ \A k \in DOMAIN c.artifacts \ {key} : table[k] = c.artifacts[k]
      /\ key \in DOMAIN c.artifacts =>
            table[key].sha = c.artifacts[key].sha /\ table[key].status = Status(e)
  OBVIOUS
<1> HIDE DEF table
<1>3. LET d == SetParseResult(c, b, e) IN
         /\ IsContent(d) /\ SameSchema(d, c) /\ SameScans(d, c)
         /\ d.bundles = c.bundles /\ d.events = c.events
         /\ d.gaps = c.gaps /\ d.last = c.last
         /\ d.artifacts = table
  BY <1>1 DEF IsContent, SameSchema, SameScans
<1> QED
  BY <1>2, <1>3

(* What an artifact's row does not touch.                                  *)
SameButArtifacts(d, c) ==
    /\ IsContent(d) /\ SameSchema(d, c) /\ SameScans(d, c)
    /\ d.bundles = c.bundles /\ d.events = c.events

(* Both leave all but the artifacts alone.                                 *)
LEMMA ArtifactsOnly ==
  ASSUME NEW c, IsContent(c), NEW b, NEW e
  PROVE  /\ SameButArtifacts(AddArtifact(c, b, e), c)
         /\ SameButArtifacts(SetParseResult(c, b, e), c)
<1> DEFINE key == <<b, e.path>>
<1>1. key = <<b, e.path>>
  OBVIOUS
<1> HIDE DEF key
<1> QED
  BY <1>1, AddArtifactFacts, SetParseResultFacts DEF SameButArtifacts

(* Case.add_gaps writes the gaps of its bundle and no other row.           *)
LEMMA AddGapsFacts ==
  ASSUME NEW c, IsContent(c), NEW b, NEW gaps_
  PROVE  LET d == AddGaps(c, b, gaps_) IN
         /\ IsContent(d) /\ SameSchema(d, c) /\ SameScans(d, c)
         /\ d.bundles = c.bundles /\ d.events = c.events
         /\ d.artifacts = c.artifacts /\ d.last = c.last
         /\ d.gaps = c.gaps \cup {<<b, g.kind, g.detail>> : g \in gaps_}
<1>1. AddGaps(c, b, gaps_) =
        [c EXCEPT !.gaps = c.gaps \cup {<<b, g.kind, g.detail>> : g \in gaps_}]
  BY DEF AddGaps, IsContent
<1> QED
  BY <1>1 DEF IsContent, SameSchema, SameScans

(* Writing last_ingest touches no row.                                     *)
LEMMA SetLastFacts ==
  ASSUME NEW c, IsContent(c), NEW b
  PROVE  LET d == SetLast(c, b) IN
         /\ IsContent(d) /\ SameSchema(d, c) /\ SameScans(d, c)
         /\ d.bundles = c.bundles /\ d.events = c.events
         /\ d.artifacts = c.artifacts /\ d.gaps = c.gaps /\ d.last = b
BY DEF SetLast, IsContent, SameSchema, SameScans

(* -------------------------------------------------------------- sources *)

IsSource(s) ==
    IsList(s.entries) /\ \A e \in EntriesOf(s) : IsList(Records(e))

IsEvent(v) == v = [id |-> v.id, payload |-> v.payload]

(* A source is what AnalysisAssumption says of it.                         *)
LEMMA SourceFacts ==
  ASSUME NEW s \in Sources
  PROVE  IsSource(s)
BY AnalysisAssumption DEF Sources, IsSource

(* The entries of a source are a list.                                     *)
LEMMA EntriesFacts ==
  ASSUME NEW s, IsSource(s)
  PROVE  /\ Len(s.entries) \in Nat
         /\ DOMAIN s.entries = 1..Len(s.entries)
         /\ \A i \in 1..Len(s.entries) : s.entries[i] \in EntriesOf(s)
BY DEF IsSource, IsList, EntriesOf

(* The events of an entry are a list of events.                            *)
LEMMA EventsForFacts ==
  ASSUME NEW s, IsSource(s), NEW e \in EntriesOf(s), NEW b
  PROVE  /\ Len(EventsFor(b, e)) \in Nat
         /\ DOMAIN EventsFor(b, e) = 1..Len(EventsFor(b, e))
         /\ \A i \in DOMAIN EventsFor(b, e) : IsEvent(EventsFor(b, e)[i])
<1> DEFINE fs == FilesystemEvents(b, e)
           ps == ParserEvents(b, e)
           S  == {fs[i] : i \in DOMAIN fs} \cup {ps[i] : i \in DOMAIN ps}
<1>1. fs \in Seq({fs[i] : i \in DOMAIN fs}) /\ \A i \in DOMAIN fs : IsEvent(fs[i])
  <2>1. CASE ~e.collected /\ ~e.local /\ e.mtime = None
    <3>1. fs = <<>>
      BY <2>1 DEF FilesystemEvents
    <3> QED
      BY <3>1
  <2>2. CASE ~(~e.collected /\ ~e.local /\ e.mtime = None)
    <3> DEFINE v == [id |-> EventId(b, e, e.artifact, "fs", "artifact.fs"),
                     payload |-> e.mtime]
    <3>1. fs = <<v>> /\ IsEvent(v)
      BY <2>2 DEF FilesystemEvents, IsEvent
    <3> HIDE DEF v, fs
    <3> QED
      BY <3>1
  <2> QED
    BY <2>1, <2>2
<1>2. ps \in Seq({ps[i] : i \in DOMAIN ps}) /\ \A i \in DOMAIN ps : IsEvent(ps[i])
  <2>1. DOMAIN Records(e) = 1..Len(Records(e)) /\ Len(Records(e)) \in Nat
    BY DEF IsSource, IsList
  <2>2. DOMAIN ps = DOMAIN Records(e) /\ \A i \in DOMAIN ps : IsEvent(ps[i])
    BY DEF ParserEvents, IsEvent
  <2>3. ps = [i \in DOMAIN ps |-> ps[i]]
    BY DEF ParserEvents
  <2> HIDE DEF ps
  <2> QED
    BY <2>1, <2>2, <2>3
<1>3. EventsFor(b, e) = fs \o ps
  BY DEF EventsFor
<1> HIDE DEF fs, ps
<1>4. fs \in Seq(S) /\ ps \in Seq(S)
  BY <1>1, <1>2
<1> HIDE DEF S
<1>5. /\ fs \o ps \in Seq(S) /\ Len(fs \o ps) = Len(fs) + Len(ps)
      /\ Len(fs) \in Nat /\ Len(ps) \in Nat
      /\ DOMAIN fs = 1..Len(fs) /\ DOMAIN ps = 1..Len(ps)
  BY <1>4
<1>6. ASSUME NEW i \in 1..Len(fs \o ps)
      PROVE  IsEvent((fs \o ps)[i])
  <2>1. CASE i <= Len(fs)
    <3>1. (fs \o ps)[i] = fs[i] /\ i \in DOMAIN fs
      BY <1>4, <1>5, <2>1
    <3> QED
      BY <1>1, <3>1
  <2>2. CASE i > Len(fs)
    <3>1. (fs \o ps)[i] = ps[i - Len(fs)] /\ i - Len(fs) \in DOMAIN ps
      BY <1>4, <1>5, <2>2
    <3> QED
      BY <1>2, <3>1
  <2> QED
    BY <2>1, <2>2, <1>5
<1> QED
  BY <1>3, <1>5, <1>6

(* -------------------------------------------------------------- landing *)

Key(s, e) == <<s.bundle, e.path>>

(* c has of s what d has, and its bundle.                                  *)
BundleLands(d, c, s) ==
    /\ SameScans(c, d) /\ c.last = d.last
    /\ DOMAIN c.bundles = DOMAIN d.bundles \cup {s.bundle}
    /\ \A k \in DOMAIN d.bundles : c.bundles[k] = d.bundles[k]

(* The events of c are those of d, as they were, and events of s.          *)
EventsLand(d, c, s) ==
    /\ DOMAIN d.events \subseteq DOMAIN c.events
    /\ \A k \in DOMAIN d.events : c.events[k] = d.events[k]
    /\ \A k \in DOMAIN c.events \ DOMAIN d.events :
          [id |-> k, payload |-> c.events[k]] \in EventsOf(s)

Described(c, s, k) ==
    [key |-> k, sha |-> c.artifacts[k].sha, status |-> c.artifacts[k].status]
        \in ReadingOf(s).artifacts

(* But for the rows in open, whose parse is not over, an artifact is as it *)
(* was in d or as s has it.                                                *)
ArtifactsLand(d, c, s, open) ==
    /\ DOMAIN d.artifacts \subseteq DOMAIN c.artifacts
    /\ \A k \in DOMAIN c.artifacts :
          \/ k \in open
          \/ k \in DOMAIN d.artifacts /\ c.artifacts[k] = d.artifacts[k]
          \/ Described(c, s, k)

(* The entries before the n-th are in c.                                   *)
EntriesDone(c, s, n, open) ==
    \A i \in 1..Len(s.entries) : i < n =>
        /\ Identities(EventsFor(s.bundle, s.entries[i])) \subseteq DOMAIN c.events
        /\ Key(s, s.entries[i]) \in DOMAIN c.artifacts
        /\ Key(s, s.entries[i]) \notin open => Described(c, s, Key(s, s.entries[i]))

Landing(d, c, s, n, open) ==
    /\ BundleLands(d, c, s)
    /\ EventsLand(d, c, s)
    /\ ArtifactsLand(d, c, s, open)
    /\ EntriesDone(c, s, n, open)

(* The entries before the n-th are there and no other is begun.            *)
Between(d, c, s, n) == Landing(d, c, s, n, {}) /\ c.gaps = d.gaps

(* The n-th entry has its row; its parse is not over.                      *)
Amid(d, c, s, n) ==
    /\ Landing(d, c, s, n, {Key(s, s.entries[n])}) /\ c.gaps = d.gaps
    /\ Key(s, s.entries[n]) \in DOMAIN c.artifacts
    /\ c.artifacts[Key(s, s.entries[n])].sha = s.entries[n].sha

(* All of s is in c.                                                       *)
Landed(d, c, s) ==
    /\ Landing(d, c, s, Len(s.entries) + 1, {})
    /\ c.gaps = d.gaps \cup ReadingOf(s).gaps

(* After its bundle's row a reading is between entries, before the first.  *)
LEMMA LandingStarts ==
  ASSUME NEW d, IsContent(d), NEW s, IsSource(s)
  PROVE  Between(d, AddBundle(d, s), s, 1)
<1> DEFINE c == AddBundle(d, s)
<1>1. /\ SameScans(c, d) /\ c.artifacts = d.artifacts /\ c.events = d.events
      /\ c.gaps = d.gaps /\ c.last = d.last
      /\ DOMAIN c.bundles = DOMAIN d.bundles \cup {s.bundle}
      /\ \A k \in DOMAIN d.bundles : c.bundles[k] = d.bundles[k]
  BY AddBundleFacts
<1> HIDE DEF c
<1>2. BundleLands(d, c, s) /\ EventsLand(d, c, s) /\ ArtifactsLand(d, c, s, {})
  BY <1>1 DEF BundleLands, EventsLand, ArtifactsLand
<1>3. EntriesDone(c, s, 1, {})
  BY EntriesFacts DEF EntriesDone
<1> QED
  BY <1>1, <1>2, <1>3 DEF Between, Landing, c

(* Adding the row of an entry begins it.                                   *)
LEMMA LandingEntry ==
  ASSUME NEW d, NEW c, IsContent(c), NEW s, IsSource(s),
         NEW n \in 1..Len(s.entries), Between(d, c, s, n)
  PROVE  Amid(d, AddArtifact(c, s.bundle, s.entries[n]), s, n)
<1> DEFINE e == s.entries[n]
           key == Key(s, e)
           f == AddArtifact(c, s.bundle, e)
<1>1. /\ SameScans(f, c) /\ f.bundles = c.bundles /\ f.events = c.events
      /\ f.gaps = c.gaps /\ f.last = c.last
      /\ DOMAIN f.artifacts = DOMAIN c.artifacts \cup {key}
      /\ \A k \in DOMAIN c.artifacts \ {key} : f.artifacts[k] = c.artifacts[k]
      /\ f.artifacts[key].sha = e.sha
  BY AddArtifactFacts DEF Key
<1> HIDE DEF e, f, key
<1>2. BundleLands(d, f, s) /\ EventsLand(d, f, s)
  BY <1>1 DEF Between, Landing, BundleLands, EventsLand, SameScans
<1>3. ArtifactsLand(d, f, s, {key})
  BY <1>1 DEF Between, Landing, ArtifactsLand, Described
<1>4. EntriesDone(f, s, n, {key})
  BY <1>1 DEF Between, Landing, EntriesDone, Described
<1> QED
  BY <1>1, <1>2, <1>3, <1>4 DEF Between, Landing, Amid, e, f, key

(* An event of the source leaves the entry begun.                          *)
LEMMA LandingEvent ==
  ASSUME NEW d, NEW c, IsContent(c), NEW s, NEW n, Amid(d, c, s, n),
         NEW v \in EventsOf(s), IsEvent(v)
  PROVE  Amid(d, AddEvent(c, v), s, n)
<1> DEFINE f == AddEvent(c, v)
           open == {Key(s, s.entries[n])}
<1>l. Landing(d, c, s, n, open)
  BY DEF Amid
<1>1. /\ SameScans(f, c) /\ f.bundles = c.bundles /\ f.artifacts = c.artifacts
      /\ f.gaps = c.gaps /\ f.last = c.last
      /\ DOMAIN f.events = DOMAIN c.events \cup {v.id}
      /\ \A k \in DOMAIN c.events : f.events[k] = c.events[k]
      /\ v.id \notin DOMAIN c.events => f.events[v.id] = v.payload
  BY AddEventFacts
<1> HIDE DEF f, open
<1>2. BundleLands(d, f, s) /\ ArtifactsLand(d, f, s, open)
  BY <1>1, <1>l DEF Landing, BundleLands, ArtifactsLand, SameScans, Described
<1>3. EventsLand(d, f, s)
  <2>1. \A k \in DOMAIN f.events \ DOMAIN c.events :
          [id |-> k, payload |-> f.events[k]] \in EventsOf(s)
    BY <1>1 DEF IsEvent
  <2> QED
    BY <1>1, <1>l, <2>1 DEF Landing, EventsLand
<1>4. EntriesDone(f, s, n, open)
  BY <1>1, <1>l DEF Landing, EntriesDone, Described
<1> QED
  BY <1>1, <1>2, <1>3, <1>4 DEF Landing, Amid, f, open

(* The parse result ends the entry once all its events are there.          *)
LEMMA LandingEnds ==
  ASSUME NEW d, NEW c, IsContent(c), NEW s, IsSource(s),
         NEW n \in 1..Len(s.entries),
         Amid(d, c, s, n),
         Identities(EventsFor(s.bundle, s.entries[n])) \subseteq DOMAIN c.events
  PROVE  Between(d, SetParseResult(c, s.bundle, s.entries[n]), s, n + 1)
<1> DEFINE e == s.entries[n]
           key == Key(s, e)
           f == SetParseResult(c, s.bundle, e)
<1>0. /\ Landing(d, c, s, n, {key}) /\ c.gaps = d.gaps
      /\ key \in DOMAIN c.artifacts /\ c.artifacts[key].sha = e.sha
  BY DEF Amid
<1>1. /\ SameScans(f, c) /\ f.bundles = c.bundles /\ f.events = c.events
      /\ f.gaps = c.gaps /\ f.last = c.last
      /\ DOMAIN f.artifacts = DOMAIN c.artifacts
      /\ \A k \in DOMAIN c.artifacts \ {key} : f.artifacts[k] = c.artifacts[k]
      /\ f.artifacts[key].sha = e.sha /\ f.artifacts[key].status = Status(e)
  BY <1>0, SetParseResultFacts DEF Key
<1>2. Described(f, s, key)
  <2>1. e \in EntriesOf(s)
    BY EntriesFacts
  <2>2. [key |-> key, sha |-> e.sha, status |-> Status(e)] \in ReadingOf(s).artifacts
    BY <2>1 DEF ReadingOf, Key
  <2> HIDE DEF e, f, key
  <2> QED
    BY <1>1, <2>2 DEF Described
<1>3. /\ Landing(d, c, s, n, {key}) /\ key \in DOMAIN c.artifacts
      /\ Identities(EventsFor(s.bundle, e)) \subseteq DOMAIN c.events
  BY <1>0
<1>4. n \in Nat /\ Len(s.entries) \in Nat
  BY EntriesFacts
<1>5. \A i \in 1..Len(s.entries) : i < n + 1 => i < n \/ i = n
  BY <1>4
<1>6. s.entries[n] = e
  OBVIOUS
<1>7. \A k \in DOMAIN f.artifacts \ {key} : Described(c, s, k) => Described(f, s, k)
  BY <1>1 DEF Described
<1> HIDE DEF e, f, key
<1>8. BundleLands(d, f, s) /\ EventsLand(d, f, s)
  BY <1>1, <1>3 DEF Landing, BundleLands, EventsLand, SameScans
<1>9. ArtifactsLand(d, f, s, {})
  BY <1>1, <1>2, <1>3, <1>7 DEF Landing, ArtifactsLand
<1>10. EntriesDone(f, s, n + 1, {})
  <2> SUFFICES ASSUME NEW i \in 1..Len(s.entries), i < n \/ i = n
               PROVE  /\ Identities(EventsFor(s.bundle, s.entries[i]))
                            \subseteq DOMAIN f.events
                      /\ Key(s, s.entries[i]) \in DOMAIN f.artifacts
                      /\ Described(f, s, Key(s, s.entries[i]))
    BY <1>5 DEF EntriesDone
  <2>1. CASE i = n
    BY <2>1, <1>1, <1>2, <1>3, <1>6 DEF key
  <2>2. CASE i < n
    <3>1. /\ Identities(EventsFor(s.bundle, s.entries[i])) \subseteq DOMAIN c.events
          /\ Key(s, s.entries[i]) \in DOMAIN c.artifacts
          /\ Key(s, s.entries[i]) \notin {key} => Described(c, s, Key(s, s.entries[i]))
      BY <2>2, <1>3 DEF Landing, EntriesDone
    <3> QED
      BY <3>1, <1>1, <1>2, <1>7
  <2> QED
    BY <2>1, <2>2
<1> QED
  BY <1>0, <1>1, <1>8, <1>9, <1>10 DEF Between, Landing, e, f

(* After the gaps the whole reading has landed.                            *)
LEMMA LandingGaps ==
  ASSUME NEW d, NEW c, IsContent(c), NEW s,
         Between(d, c, s, Len(s.entries) + 1)
  PROVE  Landed(d, AddGaps(c, s.bundle, GapsOf(s)), s)
<1> DEFINE f == AddGaps(c, s.bundle, GapsOf(s))
<1>1. /\ SameScans(f, c) /\ f.bundles = c.bundles /\ f.events = c.events
      /\ f.artifacts = c.artifacts /\ f.last = c.last
      /\ f.gaps = c.gaps \cup ReadingOf(s).gaps
  BY AddGapsFacts DEF ReadingOf
<1> HIDE DEF f
<1>2. BundleLands(d, f, s) /\ EventsLand(d, f, s)
  BY <1>1 DEF Between, Landing, BundleLands, EventsLand, SameScans
<1>3. ArtifactsLand(d, f, s, {}) /\ EntriesDone(f, s, Len(s.entries) + 1, {})
  BY <1>1 DEF Between, Landing, ArtifactsLand, EntriesDone, Described
<1> QED
  BY <1>1, <1>2, <1>3 DEF Between, Landed, Landing, f

(* A whole reading is what the promise lets land.                          *)
LEMMA LandedLands ==
  ASSUME NEW s \in Sources, Landed(db, db', s)
  PROVE  Promise!Land(ReadingOf(s))
<1> DEFINE r == ReadingOf(s)
           keys == {a.key : a \in r.artifacts}
<1>s. IsSource(s)
  BY SourceFacts
<1>1. /\ r.bundle = s.bundle /\ r.events = EventsOf(s)
      /\ keys = {Key(s, e) : e \in EntriesOf(s)}
  <2> DEFINE row_(e) == [key |-> <<s.bundle, e.path>>, sha |-> e.sha,
                         status |-> Status(e)]
  <2>1. /\ r.bundle = s.bundle /\ r.events = EventsOf(s)
        /\ r.artifacts = {row_(e) : e \in EntriesOf(s)}
    BY DEF ReadingOf
  <2>2. \A e : row_(e).key = Key(s, e)
    BY DEF Key
  <2> HIDE DEF row_, r
  <2> QED
    BY <2>1, <2>2
<1>2. \A e \in EntriesOf(s) :
        /\ Identities(EventsFor(s.bundle, e)) \subseteq DOMAIN db'.events
        /\ Key(s, e) \in DOMAIN db'.artifacts
        /\ Described(db', s, Key(s, e))
  <2> SUFFICES ASSUME NEW i \in 1..Len(s.entries)
               PROVE  /\ Identities(EventsFor(s.bundle, s.entries[i]))
                            \subseteq DOMAIN db'.events
                      /\ Key(s, s.entries[i]) \in DOMAIN db'.artifacts
                      /\ Described(db', s, Key(s, s.entries[i]))
    BY <1>s, EntriesFacts DEF EntriesOf
  <2> QED
    BY <1>s, EntriesFacts DEF Landed, Landing, EntriesDone
<1>3. \A v \in EventsOf(s) : v.id \in DOMAIN db'.events
  <2> SUFFICES ASSUME NEW e \in EntriesOf(s), NEW i \in DOMAIN EventsFor(s.bundle, e)
               PROVE  EventsFor(s.bundle, e)[i].id \in DOMAIN db'.events
    BY DEF EventsOf
  <2> QED
    BY <1>2 DEF Identities
<1> HIDE DEF r
<1>4. Promise!Grows(db.bundles, db'.bundles, {r.bundle})
  BY <1>1 DEF Landed, Landing, BundleLands, Promise!Grows
<1>5. \A k \in DOMAIN db'.events \ DOMAIN db.events :
        [id |-> k, payload |-> db'.events[k]] \in r.events
  BY <1>1 DEF Landed, Landing, EventsLand
<1>6. Promise!Grows(db.events, db'.events, {v.id : v \in r.events})
  <2>1. \A k \in DOMAIN db'.events \ DOMAIN db.events : k \in {v.id : v \in r.events}
    <3> TAKE k \in DOMAIN db'.events \ DOMAIN db.events
    <3>1. [id |-> k, payload |-> db'.events[k]] \in r.events
      BY <1>5
    <3>2. [id |-> k, payload |-> db'.events[k]].id = k
      OBVIOUS
    <3> QED
      BY <3>1, <3>2
  <2>2. {v.id : v \in r.events} \subseteq DOMAIN db'.events
    BY <1>1, <1>3
  <2> QED
    BY <2>1, <2>2 DEF Landed, Landing, EventsLand, Promise!Grows
<1>7. \A k \in DOMAIN db'.artifacts : Described(db', s, k) => k \in keys
  <2> SUFFICES ASSUME NEW k \in DOMAIN db'.artifacts, Described(db', s, k)
               PROVE  k \in keys
    OBVIOUS
  <2> DEFINE a == [key |-> k, sha |-> db'.artifacts[k].sha,
                   status |-> db'.artifacts[k].status]
  <2>1. a \in r.artifacts /\ a.key = k
    BY DEF Described, r
  <2> HIDE DEF a
  <2> QED
    BY <2>1
<1>8. keys \subseteq DOMAIN db'.artifacts /\ \A k \in keys : Described(db', s, k)
  BY <1>1, <1>2
<1>9. DOMAIN db'.artifacts = DOMAIN db.artifacts \cup keys
  BY <1>7, <1>8 DEF Landed, Landing, ArtifactsLand
<1>10. \A k \in DOMAIN db'.artifacts :
          IF k \in keys
          THEN [key |-> k, sha |-> db'.artifacts[k].sha,
                status |-> db'.artifacts[k].status] \in r.artifacts
          ELSE db'.artifacts[k] = db.artifacts[k]
  <2>1. \A k \in DOMAIN db'.artifacts \ keys : db'.artifacts[k] = db.artifacts[k]
    BY <1>7 DEF Landed, Landing, ArtifactsLand
  <2>2. \A k \in keys : [key |-> k, sha |-> db'.artifacts[k].sha,
                         status |-> db'.artifacts[k].status] \in r.artifacts
    BY <1>8 DEF Described, r
  <2> QED
    BY <2>1, <2>2
<1>11. /\ db'.gaps = db.gaps \cup r.gaps /\ db'.last = db.last
       /\ db'.findings = db.findings /\ db'.runs = db.runs
  BY DEF Landed, Landing, BundleLands, SameScans, r
<1>12. Promise!Same({"findings", "runs", "last"})
  BY <1>11 DEF Rows, Promise!Same
<1> HIDE DEF keys
<1>13. /\ Rows.bundles = db.bundles /\ Rows'.bundles = db'.bundles
       /\ Rows.events = db.events /\ Rows'.events = db'.events
       /\ Rows.artifacts = db.artifacts /\ Rows'.artifacts = db'.artifacts
       /\ Rows.gaps = db.gaps /\ Rows'.gaps = db'.gaps
  BY DEF Rows
<1>14. Promise!Land(r)
  BY <1>4, <1>5, <1>6, <1>9, <1>10, <1>11, <1>12, <1>13 DEF Promise!Land, keys
<1> QED
  BY <1>14 DEF r

(* ------------------------------------------------------------- scanning *)

(* What a process that scanned has in hand rests on events of the case.    *)
Seen(d, rules, found, count) ==
    \E seen \in SUBSET DOMAIN d.events :
        /\ found = Findings(rules, [k \in seen |-> d.events[k]])
        /\ count = Cardinality(seen)

(* What a scan saw is there for as long as the case only grows.            *)
LEMMA SeenStays ==
  ASSUME NEW c, NEW d, Keeps(c, d), NEW rules, NEW found, NEW count,
         Seen(c, rules, found, count)
  PROVE  Seen(d, rules, found, count)
<1>1. PICK seen \in SUBSET DOMAIN c.events :
        /\ found = Findings(rules, [k \in seen |-> c.events[k]])
        /\ count = Cardinality(seen)
  BY DEF Seen
<1>2. [k \in seen |-> c.events[k]] = [k \in seen |-> d.events[k]]
  BY DEF Keeps
<1>3. seen \in SUBSET DOMAIN d.events
  BY DEF Keeps
<1> QED
  BY <1>1, <1>2, <1>3, Zenon DEF Seen

(* A finding names a rule that ran, and events that it was shown.          *)
LEMMA FindingsFacts ==
  ASSUME NEW rules, NEW events, NEW f \in Findings(rules, events)
  PROVE  f.rule \in {r.id : r \in rules} /\ f.events \subseteq DOMAIN events
<1>1. PICK r \in rules : \E g \in Fires(r, events) :
        f = [rule |-> r.id, sha |-> r.sha, events |-> g]
  BY DEF Findings
<1>2. PICK g \in Fires(r, events) : f = [rule |-> r.id, sha |-> r.sha, events |-> g]
  BY <1>1
<1>3. Matching(r, events) \subseteq DOMAIN events
  BY DEF Matching
<1>4. g \subseteq Matching(r, events)
  BY <1>2 DEF Fires
<1> QED
  BY <1>2, <1>3, <1>4

(* c is d and the findings.                                                *)
FindingsLand(d, c, found) ==
    /\ c.bundles = d.bundles /\ c.artifacts = d.artifacts /\ c.events = d.events
    /\ c.gaps = d.gaps /\ c.last = d.last
    /\ DOMAIN c.findings = DOMAIN d.findings \cup {FindingId(f) : f \in found}
    /\ \A k \in DOMAIN d.findings : c.findings[k] = d.findings[k]
    /\ \A k \in DOMAIN c.findings \ DOMAIN d.findings :
          \E f \in found : k = FindingId(f) /\ c.findings[k] = f.sha

RunsOK(c) ==
    /\ IsFiniteSet(c.runs)
    /\ \A r \in c.runs : r.number \in Nat /\ r.number <= Cardinality(c.runs)

RunOf(rules, found, count, number) ==
    [rules |-> {r.id : r \in rules}, eventsRead |-> count,
     findings |-> Cardinality(found), number |-> number]

(* c is d, the findings and the run.                                       *)
ScanLands(d, c, rules, found, count) ==
    /\ FindingsLand(d, c, found)
    /\ c.runs = d.runs \cup {RunOf(rules, found, count, Cardinality(d.runs) + 1)}

(* Storing the findings adds them and touches nothing else.                *)
LEMMA StoredFindingsFacts ==
  ASSUME NEW d, IsContent(d), NEW found
  PROVE  LET c == StoredFindings(d, found) IN
         /\ IsContent(c) /\ SameSchema(c, d) /\ c.runs = d.runs
         /\ FindingsLand(d, c, found)
<1> DEFINE ids == {FindingId(f) : f \in found}
           new == [k \in ids |-> (CHOOSE f \in found : FindingId(f) = k).sha]
           table == InsertNew(d.findings, new)
           c == StoredFindings(d, found)
<1>1. c = [d EXCEPT !.findings = table]
  BY DEF StoredFindings, IsContent
<1>2. \A k \in ids : \E f \in found : k = FindingId(f) /\ new[k] = f.sha
  <2> TAKE k \in ids
  <2>1. \E f \in found : FindingId(f) = k
    OBVIOUS
  <2> DEFINE g == CHOOSE f \in found : FindingId(f) = k
  <2>2. g \in found /\ FindingId(g) = k
    BY <2>1
  <2>3. new[k] = g.sha
    OBVIOUS
  <2> HIDE DEF g, new
  <2> QED
    BY <2>2, <2>3
<1>3. DOMAIN new = ids
  OBVIOUS
<1> HIDE DEF ids, new
<1>4. /\ DOMAIN table = DOMAIN d.findings \cup ids
      /\ \A k \in DOMAIN d.findings : table[k] = d.findings[k]
      /\ \A k \in ids \ DOMAIN d.findings : table[k] = new[k]
  BY <1>3 DEF InsertNew
<1>5. \A k \in DOMAIN table \ DOMAIN d.findings :
        \E f \in found : k = FindingId(f) /\ table[k] = f.sha
  BY <1>2, <1>4
<1> HIDE DEF table, c
<1>6. /\ IsContent(c) /\ SameSchema(c, d) /\ c.runs = d.runs
      /\ c.bundles = d.bundles /\ c.artifacts = d.artifacts /\ c.events = d.events
      /\ c.gaps = d.gaps /\ c.last = d.last /\ c.findings = table
  BY <1>1 DEF IsContent, SameSchema
<1> QED
  BY <1>4, <1>5, <1>6 DEF FindingsLand, c, ids

(* The run a scan adds is a new one.                                       *)
LEMMA NewRun ==
  ASSUME NEW d, RunsOK(d), NEW c, NEW run, run.number = Cardinality(d.runs) + 1,
         c.runs = d.runs \cup {run}
  PROVE  run \notin d.runs /\ RunsOK(c)
<1>1. Cardinality(d.runs) \in Nat
  BY FS_CardinalityType DEF RunsOK
<1>2. run \notin d.runs
  BY <1>1 DEF RunsOK
<1>3. IsFiniteSet(c.runs) /\ Cardinality(c.runs) = Cardinality(d.runs) + 1
  BY <1>2, FS_AddElement DEF RunsOK
<1> QED
  BY <1>1, <1>2, <1>3 DEF RunsOK

(* A whole scan is what the promise lets be stored.                        *)
LEMMA ScanStores ==
  ASSUME NEW rules, NEW found, NEW count, RunsOK(db),
         Seen(db, rules, found, count), ScanLands(db, db', rules, found, count)
  PROVE  Promise!Store(rules)
<1>1. PICK seen \in SUBSET DOMAIN db.events :
        /\ found = Findings(rules, [k \in seen |-> db.events[k]])
        /\ count = Cardinality(seen)
  BY DEF Seen
<1> DEFINE run == RunOf(rules, found, count, Cardinality(db.runs) + 1)
<1>2. /\ Rows.events = db.events
      /\ Rows.findings = db.findings /\ Rows'.findings = db'.findings
      /\ Rows.runs = db.runs /\ Rows'.runs = db'.runs
  BY DEF Rows
<1>3. Promise!Grows(db.findings, db'.findings, {<<f.rule, f.events>> : f \in found})
  BY DEF ScanLands, FindingsLand, Promise!Grows, FindingId
<1>4. \A k \in DOMAIN db'.findings \ DOMAIN db.findings :
          \E f \in found : k = <<f.rule, f.events>> /\ db'.findings[k] = f.sha
  BY DEF ScanLands, FindingsLand, FindingId
<1>5. /\ db'.runs = db.runs \cup {run}
      /\ run.number = Cardinality(db.runs) + 1
      /\ run.rules = {r.id : r \in rules}
      /\ run.eventsRead = Cardinality(seen)
      /\ run.findings = Cardinality(found)
  BY <1>1 DEF ScanLands, RunOf
<1> HIDE DEF run
<1>6. run \in db'.runs \ db.runs
  BY <1>5, NewRun
<1>7. Promise!Same({"bundles", "artifacts", "events", "gaps", "last"})
  BY DEF ScanLands, FindingsLand, Rows, Promise!Same
<1>8. Promise!StoreFound(rules, seen, found)
  <2>1. \E r \in db'.runs \ db.runs :
          /\ db'.runs = db.runs \cup {r}
          /\ r.rules = {q.id : q \in rules}
          /\ r.eventsRead = Cardinality(seen)
          /\ r.findings = Cardinality(found)
    BY <1>5, <1>6
  <2>2. Promise!Grows(Rows.findings, Rows'.findings, {<<f.rule, f.events>> : f \in found})
    BY <1>2, <1>3
  <2>3. \A k \in DOMAIN Rows'.findings \ DOMAIN Rows.findings :
          \E f \in found : k = <<f.rule, f.events>> /\ Rows'.findings[k] = f.sha
    BY <1>2, <1>4
  <2>4. \E r \in Rows'.runs \ Rows.runs :
          /\ Rows'.runs = Rows.runs \cup {r}
          /\ r.rules = {q.id : q \in rules}
          /\ r.eventsRead = Cardinality(seen)
          /\ r.findings = Cardinality(found)
    BY <1>2, <2>1
  <2> QED
    BY <1>7, <2>2, <2>3, <2>4, Zenon
       DEF Promise!StoreFound, Cardinality, Promise!Cardinality
<1> QED
  BY <1>1, <1>2, <1>8, Zenon DEF Promise!Store

(* -------------------------------------------------------------- control *)

IsTable(f) == f = [p \in Procs |-> f[p]]

IngestLabels == {"entries", "events", "commit", "meta", "close"}
ScanLabels == {"store", "run", "stored", "report"}

(* Where each process is, and that the lock is held by the one process     *)
(* inside a transaction.                                                   *)
Control ==
    /\ owner \in Procs \cup {None}
    /\ pc \in [Procs -> Labels]
    /\ task \in [Procs -> Tasks \cup {None}]
    /\ at \in [Procs -> Nat]
    /\ row \in [Procs -> Nat]
    /\ IsTable(hits) /\ IsTable(eventsRead)
    /\ \A p \in Procs :
          /\ pc[p] # "idle" => task[p] \in Tasks
          /\ pc[p] \in IngestLabels => task[p].op = "ingest"
          /\ pc[p] \in ScanLabels => task[p].op # "ingest"
          /\ owner = p <=> pc[p] \in InTransaction

(* No process runs in the beginning.                                       *)
LEMMA ControlInit == Init => Control
BY CaseAssumption DEF Init, CaseInit, Control, IsTable, Labels, InTransaction,
                     IngestLabels, ScanLabels

(* A command that ends lets go of the lock.                                *)
LEMMA ControlEnd ==
  ASSUME Control, NEW p \in Procs, NEW code, End(p, code),
         \/ owner = p /\ owner' = None
         \/ owner # p /\ owner' = owner
  PROVE  Control'
BY CaseAssumption, ZenonT(30) DEF Control, End, Goto, IsTable, Labels, InTransaction,
                     IngestLabels, ScanLabels

(* Every step keeps each process where its command may be.                 *)
LEMMA ControlStep == Control /\ [Next]_vars => Control'
<1> SUFFICES ASSUME Control, [Next]_vars PROVE Control'
  OBVIOUS
<1> USE CaseAssumption DEF Control, Labels, InTransaction, IngestLabels, ScanLabels
<1>1. CASE UNCHANGED vars
  BY <1>1 DEF vars, caseVars, procVars, IsTable
<1>2. ASSUME NEW p \in Procs, Invoke(p) PROVE Control'
  BY <1>2 DEF Invoke, Goto, caseVars, IsTable
<1>3. ASSUME NEW p \in Procs, LookForCase(p) PROVE Control'
  <2>1. CASE End(p, 2)
    BY <1>3, <2>1, ControlEnd DEF LookForCase, caseVars
  <2>2. CASE ~End(p, 2)
    BY <1>3, <2>2 DEF LookForCase, Goto, caseVars, IsTable
  <2> QED
    BY <2>1, <2>2
<1>4. ASSUME NEW p \in Procs, Connect(p) PROVE Control'
  <2>1. CASE End(p, 1)
    BY <1>4, <2>1, ControlEnd DEF Connect
  <2>2. CASE ~End(p, 1)
    BY <1>4, <2>2 DEF Connect, KeepAll, Goto, IsTable
  <2> QED
    BY <2>1, <2>2
<1>5. ASSUME NEW p \in Procs, CreateNextTable(p) PROVE Control'
  BY <1>5 DEF CreateNextTable, Autocommit, IsTable
<1>6. ASSUME NEW p \in Procs, WriteVersion(p) PROVE Control'
  BY <1>6 DEF WriteVersion, Begin, Goto, IsTable
<1>7. ASSUME NEW p \in Procs, CommitVersion(p) PROVE Control'
  BY <1>7 DEF CommitVersion, CommitWork, Goto, IsTable
<1>8. ASSUME NEW p \in Procs, CheckVersion(p) PROVE Control'
  <2>1. CASE End(p, 2)
    BY <1>8, <2>1, ControlEnd DEF CheckVersion, caseVars
  <2>2. CASE ~End(p, 2)
    BY <1>8, <2>2 DEF CheckVersion, KeepAll, Goto, caseVars, IsTable
  <2> QED
    BY <2>1, <2>2
<1>9. ASSUME NEW p \in Procs, StartIngest(p) PROVE Control'
  BY <1>9 DEF StartIngest, Ingesting, Begin, Goto, IsTable
<1>10. ASSUME NEW p \in Procs, AddEntry(p) PROVE Control'
  BY <1>10 DEF AddEntry, Write, Goto, IsTable
<1>11. ASSUME NEW p \in Procs, StoreEvent(p) PROVE Control'
  BY <1>11 DEF StoreEvent, Write, IsTable
<1>12. ASSUME NEW p \in Procs, EndEntry(p) PROVE Control'
  BY <1>12 DEF EndEntry, Write, Goto, IsTable
<1>13. ASSUME NEW p \in Procs, WriteGaps(p) PROVE Control'
  BY <1>13 DEF WriteGaps, Write, Goto, IsTable
<1>14. ASSUME NEW p \in Procs, CommitIngest(p) PROVE Control'
  BY <1>14 DEF CommitIngest, CommitWork, Goto, IsTable
<1>15. ASSUME NEW p \in Procs, WriteLast(p) PROVE Control'
  BY <1>15 DEF WriteLast, Begin, Goto, IsTable
<1>16. ASSUME NEW p \in Procs, CloseIngest(p) PROVE Control'
  BY <1>16, ControlEnd DEF CloseIngest, CommitWork
<1>17. ASSUME NEW p \in Procs, ReadEvents(p) PROVE Control'
  BY <1>17 DEF ReadEvents, Ingesting, Goto, caseVars, IsTable
<1>18. ASSUME NEW p \in Procs, StoreFindings(p) PROVE Control'
  BY <1>18 DEF StoreFindings, Begin, Goto, IsTable
<1>19. ASSUME NEW p \in Procs, StoreRun(p) PROVE Control'
  BY <1>19 DEF StoreRun, Write, Goto, IsTable
<1>20. ASSUME NEW p \in Procs, CommitScan(p) PROVE Control'
  BY <1>20 DEF CommitScan, CommitWork, Goto, IsTable
<1>21. ASSUME NEW p \in Procs, Report(p) PROVE Control'
  BY <1>21, ControlEnd DEF Report, caseVars
<1>22. ASSUME NEW p \in Procs, Fail(p) PROVE Control'
  BY <1>22, ControlEnd DEF Fail, Rollback, Release
<1>23. ASSUME NEW p \in Procs, CommitFails(p) PROVE Control'
  BY <1>23, ControlEnd DEF CommitFails, CommitWork, LoseWork, Release
<1>24. ASSUME NEW p \in Procs, ReportFails(p) PROVE Control'
  BY <1>24, ControlEnd DEF ReportFails, caseVars
<1>25. ASSUME NEW p \in Procs, Busy(p) PROVE Control'
  BY <1>25, ControlEnd DEF Busy, caseVars
<1>26. ASSUME NEW p \in Procs, Crash(p) PROVE Control'
  BY <1>26, ControlEnd DEF Crash, LoseWork, Release
<1> QED
  BY <1>1, <1>2, <1>3, <1>4, <1>5, <1>6, <1>7, <1>8, <1>9, <1>10, <1>11, <1>12,
     <1>13, <1>14, <1>15, <1>16, <1>17, <1>18, <1>19, <1>20, <1>21, <1>22, <1>23,
     <1>24, <1>25, <1>26
     DEF Next, Step, OpenStep, IngestStep, ScanStep

(* The write lock is held by exactly the process inside a transaction, and *)
(* each process is where its command may be (Case.transaction).            *)
THEOREM ControlHolds == Spec => []Control
BY ControlInit, ControlStep, PTL DEF Spec

(* ------------------------------------------------------------ invariant *)

(* The whole schema is there where its version is, and the version is      *)
(* where a row is.                                                         *)
SchemaOK(c) ==
    /\ c.tables \in 0..Statements
    /\ c.version = "current" => c.tables = Statements
    /\ DOMAIN c.bundles # {} \/ c.runs # {} \/ c.last # None =>
          c.version = "current"

CaseOK(c) == IsContent(c) /\ RunsOK(c) /\ SchemaOK(c)

(* d is c or what became of it.                                            *)
Extends(c, d) ==
    /\ Keeps(c, d)
    /\ c.tables <= d.tables
    /\ c.version = "current" => d.version = "current"

WorkOK ==
    owner # None =>
        /\ CaseOK(work) /\ work.version = "current"
        /\ Extends(db, work)

(* What a process knows of the case between its steps.                     *)
Knows(p) ==
    /\ pc[p] \in {"idle", "open", "connect"} => at[p] = 0
    /\ pc[p] = "schema" => at[p] <= db.tables
    /\ pc[p] \in IngestLabels \cup ScanLabels \cup {"ready"} =>
          db.version = "current"
    /\ pc[p] \in {"meta", "close"} => Bundle(p) \in DOMAIN db.bundles
    /\ pc[p] \in {"store", "run", "stored"} =>
          Seen(db, task[p].rules, hits[p], eventsRead[p])

EventsDone(p) ==
    \A j \in DOMAIN EventsFor(Bundle(p), Entry(p)) :
        j < row[p] => EventsFor(Bundle(p), Entry(p))[j].id \in DOMAIN work.events

(* What the process inside a transaction has done.                         *)
HasDone(p) ==
    /\ pc[p] = "version" => SameRows(work, db)
    /\ pc[p] = "entries" =>
          /\ at[p] \in 1..(Len(Source(p).entries) + 1)
          /\ Between(db, work, Source(p), at[p])
    /\ pc[p] = "events" =>
          /\ at[p] \in 1..Len(Source(p).entries)
          /\ Amid(db, work, Source(p), at[p])
          /\ row[p] \in 1..(Len(EventsFor(Bundle(p), Entry(p))) + 1)
          /\ EventsDone(p)
    /\ pc[p] = "commit" => Landed(db, work, Source(p))
    /\ pc[p] = "close" => work = SetLast(db, Bundle(p))
    /\ pc[p] = "run" => FindingsLand(db, work, hits[p]) /\ work.runs = db.runs
    /\ pc[p] = "stored" =>
          ScanLands(db, work, task[p].rules, hits[p], eventsRead[p])

Inv ==
    /\ CaseOK(db) /\ WorkOK
    /\ \A p \in Procs : Knows(p) /\ HasDone(p)

(* What the others see of a step of p, and what must hold of p after it.   *)
Kept(p) ==
    /\ Extends(db, db')
    /\ \A q \in Procs \ {p} :
          /\ pc'[q] = pc[q] /\ task'[q] = task[q] /\ at'[q] = at[q]
          /\ row'[q] = row[q] /\ hits'[q] = hits[q]
          /\ eventsRead'[q] = eventsRead[q]
          /\ pc[q] \in InTransaction => db' = db /\ work' = work

(* What a process knows stays true while another takes a step that keeps   *)
(* the case.                                                               *)
LEMMA KnowsStays ==
  ASSUME CaseOK(db), CaseOK(db)', NEW p \in Procs, NEW q \in Procs \ {p}, Kept(p),
         Knows(q), at \in [Procs -> Nat]
  PROVE  Knows(q)'
<1>1. /\ pc'[q] = pc[q] /\ task'[q] = task[q] /\ at'[q] = at[q]
      /\ hits'[q] = hits[q] /\ eventsRead'[q] = eventsRead[q]
  BY DEF Kept
<1>2. /\ Keeps(db, db') /\ db.tables <= db'.tables
      /\ db.version = "current" => db'.version = "current"
  BY DEF Kept, Extends
<1>3. pc[q] \in {"store", "run", "stored"} =>
         Seen(db', task[q].rules, hits[q], eventsRead[q])
  BY <1>2, SeenStays DEF Knows
<1>4. pc[q] = "schema" => at[q] <= db'.tables
  BY <1>2 DEF Knows, CaseOK, SchemaOK
<1>5. pc[q] \in {"meta", "close"} => Bundle(q) \in DOMAIN db'.bundles
  BY <1>2 DEF Knows, Keeps
<1>6. /\ pc[q] \in {"idle", "open", "connect"} => at[q] = 0
      /\ pc[q] \in IngestLabels \cup ScanLabels \cup {"ready"} =>
            db'.version = "current"
  BY <1>2 DEF Knows
<1> QED
  BY <1>1, <1>3, <1>4, <1>5, <1>6 DEF Knows, Bundle, Source

(* What a transaction has done is not touched by another process.          *)
LEMMA HasDoneStays ==
  ASSUME NEW p \in Procs, NEW q \in Procs \ {p}, Kept(p), HasDone(q)
  PROVE  HasDone(q)'
<1>1. /\ pc'[q] = pc[q] /\ task'[q] = task[q] /\ at'[q] = at[q]
      /\ row'[q] = row[q] /\ hits'[q] = hits[q] /\ eventsRead'[q] = eventsRead[q]
  BY DEF Kept
<1>2. CASE pc[q] \in InTransaction
  <2>1. db' = db /\ work' = work
    BY <1>2 DEF Kept
  <2> QED
    BY <1>1, <2>1 DEF HasDone, EventsDone, Source, Bundle, Entry
<1>3. CASE pc[q] \notin InTransaction
  BY <1>1, <1>3 DEF HasDone, InTransaction
<1> QED
  BY <1>2, <1>3

(* The invariant holds after a step of p if it holds of the case and of p. *)
LEMMA InvKept ==
  ASSUME Control, Inv, NEW p \in Procs, Kept(p), CaseOK(db)', WorkOK', Knows(p)', HasDone(p)'
  PROVE  Inv'
<1>1. ASSUME NEW q \in Procs \ {p} PROVE Knows(q)' /\ HasDone(q)'
  BY <1>1, KnowsStays, HasDoneStays DEF Inv, Control
<1> QED
  BY <1>1 DEF Inv

(* To keep what is there is reflexive and transitive.                      *)
LEMMA KeepsFacts ==
  /\ \A c : Keeps(c, c)
  /\ \A c, d, e : Keeps(c, d) /\ Keeps(d, e) => Keeps(c, e)
  /\ \A c, d : d.bundles = c.bundles /\ d.events = c.events => Keeps(c, d)
BY DEF Keeps

(* The invariant holds in the beginning.                                   *)
LEMMA InvInit == Init => Inv
<1> SUFFICES ASSUME Init PROVE Inv
  OBVIOUS
<1>1. CaseOK(db)
  <2>1. IsContent(db) /\ db.runs = {} /\ db.bundles = NoRows /\ db.last = None
    BY EmptyContent DEF Init, CaseInit, IsContent
  <2>2. db.tables \in {0, Statements} /\ db.version \in {None, "older"}
    BY EmptyContent DEF Init, CaseInit, IsContent
  <2>3. IsFiniteSet({})
    BY FS_EmptySet
  <2> QED
    BY <2>1, <2>2, <2>3, CaseAssumption DEF CaseOK, RunsOK, SchemaOK, NoRows
<1>2. WorkOK
  BY DEF Init, CaseInit, WorkOK
<1>3. ASSUME NEW p \in Procs PROVE Knows(p) /\ HasDone(p)
  BY DEF Init, Knows, HasDone, IngestLabels, ScanLabels
<1> QED
  BY <1>1, <1>2, <1>3 DEF Inv

(* ------------------------------------------------- the kinds of a step *)

(* Only p moves.                                                           *)
Alone(p) ==
    \A q \in Procs \ {p} :
        /\ pc'[q] = pc[q] /\ task'[q] = task[q] /\ at'[q] = at[q]
        /\ row'[q] = row[q] /\ hits'[q] = hits[q] /\ eventsRead'[q] = eventsRead[q]

(* A command that ends knows and has nothing in hand.                      *)
LEMMA EndFacts ==
  ASSUME Control, NEW p \in Procs, NEW code, End(p, code)
  PROVE  Alone(p) /\ Knows(p)' /\ HasDone(p)'
<1>1. Alone(p) /\ pc'[p] = "idle" /\ at'[p] = 0
  BY DEF Control, IsTable, End, Goto, Alone
<1> QED
  BY <1>1 DEF Knows, HasDone, IngestLabels, ScanLabels

(* A step that leaves the case alone.                                      *)
LEMMA LookKeeps ==
  ASSUME Control, Inv, NEW p \in Procs, Alone(p), UNCHANGED <<db, owner, work>>,
         Knows(p)', HasDone(p)'
  PROVE  Inv'
<1>1. db.tables <= db.tables
  BY CaseAssumption DEF Inv, CaseOK, SchemaOK
<1>2. Kept(p)
  BY <1>1, KeepsFacts DEF Kept, Alone, Extends
<1>3. CaseOK(db)' /\ WorkOK'
  BY DEF Inv, CaseOK, IsContent, RunsOK, SchemaOK, WorkOK, Extends, Keeps
<1> QED
  BY <1>2, <1>3, InvKept

(* A write of the process that has the lock, or takes it.                  *)
LEMMA WriteKeeps ==
  ASSUME Control, Inv, NEW p \in Procs, Alone(p), owner \in {None, p}, owner' = p, db' = db,
         CaseOK(work'), work'.version = "current", Keeps(db, work'),
         Knows(p)', HasDone(p)'
  PROVE  Inv'
<1>1. db.tables <= db.tables /\ db.tables <= work'.tables
  BY CaseAssumption DEF Inv, CaseOK, SchemaOK
<1>2. \A q \in Procs \ {p} : pc[q] \notin InTransaction
  BY CaseAssumption DEF Control
<1>3. Kept(p)
  BY <1>1, <1>2, KeepsFacts DEF Kept, Alone, Extends
<1>4. CaseOK(db)'
  BY DEF Inv, CaseOK, IsContent, RunsOK, SchemaOK
<1>5. WorkOK'
  BY <1>1 DEF WorkOK, Extends
<1> QED
  BY <1>3, <1>4, <1>5, InvKept

(* A commit keeps the invariant when it holds of what was written.         *)
LEMMA CommitKeeps ==
  ASSUME Control, Inv, NEW p \in Procs, Alone(p), CommitWork(p), Knows(p)', HasDone(p)'
  PROVE  Inv'
<1>1. owner = p /\ owner # None /\ db' = work /\ owner' = None
  BY CaseAssumption DEF CommitWork
<1>2. \A q \in Procs \ {p} : pc[q] \notin InTransaction
  BY <1>1 DEF Control
<1>3. CaseOK(work) /\ Extends(db, work)
  BY <1>1 DEF Inv, WorkOK
<1>4. Kept(p)
  BY <1>1, <1>2, <1>3 DEF Kept, Alone
<1>5. CaseOK(db)'
  BY <1>1, <1>3 DEF CaseOK, IsContent, RunsOK, SchemaOK
<1>6. WorkOK'
  BY <1>1 DEF WorkOK
<1> QED
  BY <1>4, <1>5, <1>6, InvKept

(* A command that ends without what it had not committed.                  *)
LEMMA ReleaseKeeps ==
  ASSUME Control, Inv, NEW p \in Procs, NEW code, End(p, code), Release(p), db' = db
  PROVE  Inv'
<1>1. Alone(p) /\ Knows(p)' /\ HasDone(p)'
  BY EndFacts
<1>2. CASE owner # p
  BY <1>1, <1>2, LookKeeps DEF Release
<1>3. CASE owner = p
  <2>1. \A q \in Procs \ {p} : pc[q] \notin InTransaction
    BY <1>3 DEF Control
  <2>2. db.tables <= db.tables
    BY CaseAssumption DEF Inv, CaseOK, SchemaOK
  <2>3. Kept(p)
    BY <1>1, <2>1, <2>2, KeepsFacts DEF Kept, Alone, Extends
  <2>4. CaseOK(db)'
    BY DEF Inv, CaseOK, IsContent, RunsOK, SchemaOK
  <2>5. WorkOK'
    BY <1>3 DEF Release, WorkOK
  <2> QED
    BY <1>1, <2>3, <2>4, <2>5, InvKept
<1> QED
  BY <1>2, <1>3

(* A CREATE statement.                                                     *)
LEMMA CreateKeeps ==
  ASSUME Control, Inv, NEW p \in Procs, CreateNextTable(p)
  PROVE  Inv' /\ Rows' = Rows
<1>1. /\ pc[p] = "schema" /\ at[p] < Statements /\ at[p] \in Nat /\ owner = None
      /\ db' = CreateTable(db, at[p] + 1) /\ owner' = None /\ work' = work
      /\ pc'[p] = "schema" /\ at'[p] = at[p] + 1 /\ Alone(p)
  BY DEF Control, CreateNextTable, Autocommit, Alone
<1>2. /\ IsContent(db') /\ SameRows(db', db) /\ db'.version = db.version
      /\ db'.tables = IF at[p] + 1 > db.tables THEN at[p] + 1 ELSE db.tables
  BY <1>1, CreateTableFacts DEF Inv, CaseOK
<1>3. db.tables \in 0..Statements /\ SchemaOK(db) /\ RunsOK(db)
  BY DEF Inv, CaseOK, SchemaOK
<1>4. /\ db'.tables \in 0..Statements /\ db.tables <= db'.tables
      /\ at[p] + 1 <= db'.tables
      /\ db.tables = Statements => db'.tables = Statements
  BY <1>1, <1>2, <1>3, CaseAssumption
<1>5. CaseOK(db)'
  BY <1>2, <1>3, <1>4 DEF CaseOK, IsContent, RunsOK, SchemaOK, SameRows, SameScans
<1>6. \A q \in Procs \ {p} : pc[q] \notin InTransaction
  BY <1>1, CaseAssumption DEF Control
<1>7. Keeps(db, db')
  BY <1>2, KeepsFacts DEF SameRows
<1>8. Kept(p)
  BY <1>1, <1>2, <1>4, <1>6, <1>7 DEF Kept, Alone, Extends
<1>9. Knows(p)' /\ HasDone(p)'
  BY <1>1, <1>4 DEF Knows, HasDone, IngestLabels, ScanLabels
<1>10. WorkOK'
  BY <1>1 DEF WorkOK
<1>11. Rows' = Rows
  BY <1>2 DEF Rows, SameRows, SameScans
<1> QED
  BY <1>5, <1>8, <1>9, <1>10, <1>11, InvKept

(* -------------------------------------------------------------- opening *)

(* Giving a command keeps the invariant.                                   *)
LEMMA InvokeKeeps ==
  ASSUME Control, Inv, NEW p \in Procs, Invoke(p)
  PROVE  Inv' /\ db' = db
<1>1. /\ Alone(p) /\ pc'[p] = "open" /\ at'[p] = 0
      /\ UNCHANGED <<db, owner, work>>
  BY DEF Control, Inv, Knows, Invoke, Goto, caseVars, Alone
<1>2. Knows(p)' /\ HasDone(p)'
  BY <1>1 DEF Knows, HasDone, IngestLabels, ScanLabels
<1> QED
  BY <1>1, <1>2, LookKeeps

(* So does looking for the file of the case.                               *)
LEMMA LookForCaseKeeps ==
  ASSUME Control, Inv, NEW p \in Procs, LookForCase(p)
  PROVE  Inv' /\ db' = db
<1>1. UNCHANGED <<db, owner, work>>
  BY DEF LookForCase, caseVars
<1>2. CASE End(p, 2)
  BY <1>1, <1>2, EndFacts, LookKeeps
<1>3. CASE ~End(p, 2)
  <2>1. Alone(p) /\ pc'[p] = "connect" /\ at'[p] = 0
    BY <1>3 DEF Control, Inv, Knows, LookForCase, Goto, Alone
  <2>2. Knows(p)' /\ HasDone(p)'
    BY <2>1 DEF Knows, HasDone, IngestLabels, ScanLabels
  <2> QED
    BY <1>1, <2>1, <2>2, LookKeeps
<1> QED
  BY <1>2, <1>3

(* So does connecting to it.                                               *)
LEMMA ConnectKeeps ==
  ASSUME Control, Inv, NEW p \in Procs, Connect(p)
  PROVE  Inv' /\ db' = db
<1>1. UNCHANGED <<db, owner, work>>
  BY DEF Connect
<1>2. CASE End(p, 1)
  BY <1>1, <1>2, EndFacts, LookKeeps
<1>3. CASE ~End(p, 1)
  <2>1. Alone(p) /\ pc'[p] \in {"check", "schema"} /\ at'[p] = 0
    BY <1>3 DEF Control, Inv, Knows, Connect, KeepAll, Goto, Alone
  <2>2. 0 <= db'.tables
    BY <1>1, CaseAssumption DEF Inv, CaseOK, SchemaOK
  <2>3. Knows(p)' /\ HasDone(p)'
    BY <2>1, <2>2 DEF Knows, HasDone, IngestLabels, ScanLabels
  <2> QED
    BY <1>1, <2>1, <2>3, LookKeeps
<1> QED
  BY <1>2, <1>3

(* So does writing the version.                                            *)
LEMMA WriteVersionKeeps ==
  ASSUME Control, Inv, NEW p \in Procs, WriteVersion(p)
  PROVE  Inv' /\ db' = db
<1>1. /\ pc[p] = "schema" /\ at[p] = Statements /\ owner = None
      /\ owner' = p /\ work' = InsertVersion(db) /\ db' = db
      /\ pc'[p] = "version" /\ Alone(p)
  BY DEF Control, WriteVersion, SchemaReady, Begin, Goto, Alone
<1>2. /\ IsContent(work') /\ SameRows(work', db)
      /\ work'.version = "current" /\ work'.tables = db.tables
  BY <1>1, InsertVersionFacts DEF Inv, CaseOK
<1>3. db.tables = Statements
  BY <1>1, CaseAssumption DEF Inv, Knows, CaseOK, SchemaOK
<1>4. CaseOK(work')
  BY <1>2, <1>3, CaseAssumption DEF Inv, CaseOK, RunsOK, SchemaOK, SameRows, SameScans
<1>5. Keeps(db, work')
  BY <1>2, KeepsFacts DEF SameRows
<1>6. Knows(p)'
  BY <1>1 DEF Knows, IngestLabels, ScanLabels
<1>7. HasDone(p)'
  BY <1>1, <1>2 DEF HasDone, SameRows, SameScans
<1> QED
  BY <1>1, <1>2, <1>4, <1>5, <1>6, <1>7, WriteKeeps

(* So does committing it.                                                  *)
LEMMA CommitVersionKeeps ==
  ASSUME Control, Inv, NEW p \in Procs, CommitVersion(p)
  PROVE  Inv' /\ Rows' = Rows
<1>1. /\ pc[p] = "version" /\ CommitWork(p) /\ pc'[p] = "check" /\ Alone(p)
      /\ db' = work
  BY DEF Control, CommitVersion, CommitWork, Goto, Alone
<1>2. Knows(p)' /\ HasDone(p)'
  BY <1>1 DEF Knows, HasDone, IngestLabels, ScanLabels
<1>3. SameRows(work, db)
  BY <1>1 DEF Inv, HasDone
<1>4. Rows' = Rows
  BY <1>1, <1>3 DEF Rows, SameRows, SameScans
<1> QED
  BY <1>1, <1>2, <1>4, CommitKeeps

(* So does reading the version that is there.                              *)
LEMMA CheckVersionKeeps ==
  ASSUME Control, Inv, NEW p \in Procs, CheckVersion(p)
  PROVE  Inv' /\ db' = db
<1>1. UNCHANGED <<db, owner, work>>
  BY DEF CheckVersion, caseVars
<1>2. CASE End(p, 2)
  BY <1>1, <1>2, EndFacts, LookKeeps
<1>3. CASE ~End(p, 2)
  <2>1. Alone(p) /\ pc'[p] = "ready" /\ db.version = "current"
    BY <1>3 DEF Control, CheckVersion, IsCase, KeepAll, Goto, Alone
  <2>2. Knows(p)' /\ HasDone(p)'
    BY <1>1, <2>1 DEF Knows, HasDone, IngestLabels, ScanLabels
  <2> QED
    BY <1>1, <2>1, <2>2, LookKeeps
<1> QED
  BY <1>2, <1>3

(* --------------------------------------------------------------- ingest *)

(* A process that ingests has a source.                                    *)
LEMMA SourceOf ==
  ASSUME NEW p \in Procs, task[p] \in Tasks, task[p].op = "ingest"
  PROVE  Source(p) \in Sources /\ IsSource(Source(p))
BY SourceFacts DEF Source, Sources

(* What a content must be for the schema to be the one it builds on.       *)
LEMMA BuildsOn ==
  ASSUME NEW c, CaseOK(c), c.version = "current", NEW d, IsContent(d), SameSchema(d, c),
         RunsOK(d)
  PROVE  CaseOK(d) /\ d.version = "current"
BY DEF CaseOK, SchemaOK, SameSchema

(* Opening the transaction and adding the bundle keeps the invariant.      *)
LEMMA StartIngestKeeps ==
  ASSUME Control, Inv, NEW p \in Procs, StartIngest(p)
  PROVE  Inv' /\ db' = db
<1> DEFINE s == Source(p)
<1>1. /\ pc[p] = "ready" /\ task[p].op = "ingest" /\ owner = None
      /\ owner' = p /\ work' = AddBundle(db, s) /\ db' = db
      /\ pc'[p] = "entries" /\ at'[p] = 1 /\ task' = task /\ Alone(p)
  BY DEF Control, StartIngest, Ingesting, Begin, Goto, Alone
<1>2. CaseOK(db) /\ db.version = "current" /\ IsSource(s)
  BY <1>1, SourceOf DEF Control, Inv, Knows
<1>3. /\ IsContent(work') /\ SameSchema(work', db) /\ SameScans(work', db)
      /\ work'.events = db.events /\ DOMAIN db.bundles \subseteq DOMAIN work'.bundles
  BY <1>1, <1>2, AddBundleFacts DEF CaseOK
<1>4. CaseOK(work') /\ work'.version = "current"
  BY <1>2, <1>3, BuildsOn DEF CaseOK, RunsOK, SameScans
<1>5. Keeps(db, work')
  BY <1>3 DEF Keeps
<1>6. Between(db, work', s, 1)
  BY <1>1, <1>2, LandingStarts DEF CaseOK
<1>7. 1 \in 1..(Len(s.entries) + 1)
  BY <1>2, EntriesFacts
<1>8. Knows(p)'
  BY <1>1, <1>2 DEF Knows, ScanLabels
<1>9. s' = s
  BY <1>1 DEF Source
<1> HIDE DEF s
<1>10. HasDone(p)'
  BY <1>1, <1>6, <1>7, <1>9 DEF HasDone, s
<1> QED
  BY <1>1, <1>4, <1>5, <1>8, <1>10, WriteKeeps

(* An entry that a process inside an ingest is at.                         *)
LEMMA EntryOf ==
  ASSUME NEW p \in Procs, IsSource(Source(p)), at[p] \in 1..Len(Source(p).entries)
  PROVE  /\ Entry(p) \in EntriesOf(Source(p))
         /\ Len(EventsFor(Bundle(p), Entry(p))) \in Nat
         /\ DOMAIN EventsFor(Bundle(p), Entry(p)) = 1..Len(EventsFor(Bundle(p), Entry(p)))
         /\ \A i \in DOMAIN EventsFor(Bundle(p), Entry(p)) :
               /\ IsEvent(EventsFor(Bundle(p), Entry(p))[i])
               /\ EventsFor(Bundle(p), Entry(p))[i] \in EventsOf(Source(p))
<1>1. Entry(p) \in EntriesOf(Source(p))
  BY EntriesFacts DEF Entry
<1> QED
  BY <1>1, EventsForFacts DEF EventsOf, Bundle

(* So does adding the row of the next entry.                               *)
LEMMA AddEntryKeeps ==
  ASSUME Control, Inv, NEW p \in Procs, AddEntry(p)
  PROVE  Inv' /\ db' = db
<1> DEFINE s == Source(p)
           n == at[p]
           e == Entry(p)
<1>1. /\ pc[p] = "entries" /\ n <= Len(s.entries) /\ owner = p
      /\ owner' = p /\ work' = AddArtifact(work, s.bundle, e) /\ db' = db
      /\ pc'[p] = "events" /\ row'[p] = 1 /\ at' = at /\ task' = task /\ Alone(p)
  BY DEF Control, AddEntry, Write, Goto, Alone, Bundle
<1>2. /\ CaseOK(work) /\ work.version = "current" /\ Keeps(db, work)
      /\ IsContent(work) /\ db.version = "current"
  BY <1>1, CaseAssumption DEF Inv, WorkOK, CaseOK, Extends, Knows, IngestLabels
<1>3. IsSource(s)
  BY <1>1, SourceOf DEF Control, IngestLabels
<1>4. n \in 1..(Len(s.entries) + 1) /\ Between(db, work, s, n)
  BY <1>1 DEF Inv, HasDone
<1>5. /\ s' = s /\ n' = n /\ e' = e /\ e = s.entries[n]
      /\ Bundle(p) = s.bundle /\ Bundle(p)' = s.bundle
  BY <1>1 DEF Source, Entry, Bundle
<1>6. n \in 1..Len(s.entries)
  <2> HIDE DEF s, n
  <2> QED
    BY <1>1, <1>3, <1>4, EntriesFacts
<1>7. /\ 1 \in 1..(Len(EventsFor(s.bundle, e)) + 1)
      /\ DOMAIN EventsFor(s.bundle, e) = 1..Len(EventsFor(s.bundle, e))
      /\ Len(EventsFor(s.bundle, e)) \in Nat
  BY <1>3, <1>5, <1>6, EntryOf
<1>8. EventsDone(p)'
  BY <1>1, <1>5, <1>7 DEF EventsDone
<1>9. Amid(db, work', s, n)
  <2> HIDE DEF s, n
  <2>1. Amid(db, AddArtifact(work, s.bundle, s.entries[n]), s, n)
    BY <1>2, <1>3, <1>4, <1>6, LandingEntry
  <2> QED
    BY <1>1, <1>5, <2>1
<1>10. HasDone(p)'
  BY <1>1, <1>5, <1>6, <1>7, <1>8, <1>9 DEF HasDone
<1>11. Knows(p)'
  BY <1>1, <1>2 DEF Knows, ScanLabels
<1> HIDE DEF s, n, e
<1>12. /\ IsContent(work') /\ SameSchema(work', work) /\ SameScans(work', work)
       /\ work'.events = work.events /\ work'.bundles = work.bundles
  BY <1>1, <1>2, ArtifactsOnly DEF SameButArtifacts
<1>13. CaseOK(work') /\ work'.version = "current"
  BY <1>2, <1>12, BuildsOn DEF CaseOK, RunsOK, SameScans
<1>14. Keeps(db, work')
  BY <1>2, <1>12 DEF Keeps
<1> QED
  BY <1>1, <1>10, <1>11, <1>13, <1>14, WriteKeeps

(* So does storing an event.                                               *)
LEMMA StoreEventKeeps ==
  ASSUME Control, Inv, NEW p \in Procs, StoreEvent(p)
  PROVE  Inv' /\ db' = db
<1> DEFINE s == Source(p)
           n == at[p]
           e == Entry(p)
           evs == EventsFor(s.bundle, e)
           v == evs[row[p]]
<1>1. /\ pc[p] = "events" /\ row[p] <= Len(evs) /\ owner = p
      /\ owner' = p /\ work' = AddEvent(work, v) /\ db' = db
      /\ pc'[p] = "events" /\ row'[p] = row[p] + 1 /\ at' = at /\ task' = task
      /\ Alone(p)
  BY DEF Control, StoreEvent, Write, Alone, Bundle
<1>2. /\ CaseOK(work) /\ work.version = "current" /\ Keeps(db, work)
      /\ IsContent(work) /\ db.version = "current"
  BY <1>1, CaseAssumption DEF Inv, WorkOK, CaseOK, Extends, Knows, IngestLabels
<1>3. IsSource(s)
  BY <1>1, SourceOf DEF Control, IngestLabels
<1>4. /\ n \in 1..Len(s.entries) /\ Amid(db, work, s, n)
      /\ row[p] \in 1..(Len(evs) + 1) /\ EventsDone(p)
  BY <1>1 DEF Inv, HasDone, Bundle
<1>5. /\ s' = s /\ n' = n /\ e' = e /\ evs' = evs
      /\ Bundle(p) = s.bundle /\ Bundle(p)' = s.bundle
  BY <1>1 DEF Source, Entry, Bundle
<1>6. /\ DOMAIN evs = 1..Len(evs) /\ Len(evs) \in Nat
      /\ \A i \in DOMAIN evs : IsEvent(evs[i]) /\ evs[i] \in EventsOf(s)
  BY <1>3, <1>4, <1>5, EntryOf
<1>7. EventsDone(p) = \A j \in DOMAIN evs : j < row[p] => evs[j].id \in DOMAIN work.events
  BY <1>5 DEF EventsDone
<1>8. EventsDone(p)' = \A j \in DOMAIN evs : j < row'[p] => evs[j].id \in DOMAIN work'.events
  BY <1>5 DEF EventsDone
<1> HIDE DEF evs
<1>9. row[p] \in DOMAIN evs /\ row'[p] \in 1..(Len(evs) + 1)
  BY <1>1, <1>4, <1>6
<1>10. IsEvent(v) /\ v \in EventsOf(s)
  BY <1>6, <1>9
<1>11. /\ IsContent(work') /\ SameSchema(work', work) /\ SameScans(work', work)
       /\ work'.bundles = work.bundles
       /\ DOMAIN work'.events = DOMAIN work.events \cup {v.id}
       /\ \A k \in DOMAIN work.events : work'.events[k] = work.events[k]
  <2> HIDE DEF v
  <2> QED
    BY <1>1, <1>2, AddEventFacts
<1>12. EventsDone(p)'
  <2>1. \A j \in DOMAIN evs : j < row[p] + 1 => j < row[p] \/ j = row[p]
    BY <1>4, <1>6
  <2> QED
    BY <1>1, <1>4, <1>7, <1>8, <1>11, <2>1
<1> HIDE DEF v
<1>13. Amid(db, work', s, n)
  <2> HIDE DEF s, n
  <2> QED
    BY <1>1, <1>2, <1>4, <1>10, LandingEvent
<1>14. HasDone(p)'
  BY <1>1, <1>4, <1>5, <1>9, <1>12, <1>13 DEF HasDone, evs
<1>15. Knows(p)'
  BY <1>1, <1>2 DEF Knows, ScanLabels
<1>16. CaseOK(work') /\ work'.version = "current"
  BY <1>2, <1>11, BuildsOn DEF CaseOK, RunsOK, SameScans
<1>17. Keeps(db, work')
  BY <1>2, <1>11 DEF Keeps
<1> QED
  BY <1>1, <1>14, <1>15, <1>16, <1>17, WriteKeeps

(* So does writing the parse result.                                       *)
LEMMA EndEntryKeeps ==
  ASSUME Control, Inv, NEW p \in Procs, EndEntry(p)
  PROVE  Inv' /\ db' = db
<1> DEFINE s == Source(p)
           n == at[p]
           e == Entry(p)
           evs == EventsFor(s.bundle, e)
<1>1. /\ pc[p] = "events" /\ row[p] > Len(evs) /\ owner = p
      /\ owner' = p /\ work' = SetParseResult(work, s.bundle, e) /\ db' = db
      /\ pc'[p] = "entries" /\ at'[p] = n + 1 /\ task' = task /\ Alone(p)
  BY DEF Control, EndEntry, Write, Goto, Alone, Bundle
<1>2. /\ CaseOK(work) /\ work.version = "current" /\ Keeps(db, work)
      /\ IsContent(work) /\ db.version = "current"
  BY <1>1, CaseAssumption DEF Inv, WorkOK, CaseOK, Extends, Knows, IngestLabels
<1>3. IsSource(s)
  BY <1>1, SourceOf DEF Control, IngestLabels
<1>4. /\ n \in 1..Len(s.entries) /\ Amid(db, work, s, n)
      /\ row[p] \in Nat /\ EventsDone(p)
  BY <1>1 DEF Inv, HasDone, Bundle, Control
<1>5. s' = s /\ e = s.entries[n] /\ Bundle(p) = s.bundle
  BY <1>1 DEF Source, Entry, Bundle
<1>6. DOMAIN evs = 1..Len(evs) /\ Len(evs) \in Nat
  BY <1>3, <1>4, <1>5, EntryOf
<1>7. EventsDone(p) = \A j \in DOMAIN evs : j < row[p] => evs[j].id \in DOMAIN work.events
  BY <1>5 DEF EventsDone
<1>8. Identities(evs) \subseteq DOMAIN work.events
  <2> HIDE DEF evs
  <2>1. \A j \in DOMAIN evs : j < row[p]
    BY <1>1, <1>4, <1>6
  <2> QED
    BY <1>4, <1>7, <2>1 DEF Identities
<1>9. n + 1 \in 1..(Len(s.entries) + 1)
  <2> HIDE DEF s, n
  <2> QED
    BY <1>3, <1>4, EntriesFacts
<1>10. Between(db, work', s, n + 1)
  <2>1. Identities(EventsFor(s.bundle, s.entries[n])) \subseteq DOMAIN work.events
    BY <1>5, <1>8
  <2> HIDE DEF s, n, e
  <2>2. Between(db, SetParseResult(work, s.bundle, s.entries[n]), s, n + 1)
    BY <1>2, <1>3, <1>4, <2>1, LandingEnds
  <2> QED
    BY <1>1, <1>5, <2>2
<1>11. HasDone(p)'
  BY <1>1, <1>5, <1>9, <1>10 DEF HasDone
<1>12. Knows(p)'
  BY <1>1, <1>2 DEF Knows, ScanLabels
<1> HIDE DEF s, n, e
<1>13. /\ IsContent(work') /\ SameSchema(work', work) /\ SameScans(work', work)
       /\ work'.events = work.events /\ work'.bundles = work.bundles
  BY <1>1, <1>2, ArtifactsOnly DEF SameButArtifacts
<1>14. CaseOK(work') /\ work'.version = "current"
  BY <1>2, <1>13, BuildsOn DEF CaseOK, RunsOK, SameScans
<1>15. Keeps(db, work')
  BY <1>2, <1>13 DEF Keeps
<1> QED
  BY <1>1, <1>11, <1>12, <1>14, <1>15, WriteKeeps

(* So does writing the gaps.                                               *)
LEMMA WriteGapsKeeps ==
  ASSUME Control, Inv, NEW p \in Procs, WriteGaps(p)
  PROVE  Inv' /\ db' = db
<1> DEFINE s == Source(p)
           n == at[p]
           gaps == GapsOf(s)
<1>1. /\ pc[p] = "entries" /\ n > Len(s.entries) /\ owner = p
      /\ owner' = p /\ work' = AddGaps(work, s.bundle, gaps) /\ db' = db
      /\ pc'[p] = "commit" /\ task' = task /\ Alone(p)
  BY DEF Control, WriteGaps, Write, Goto, Alone, Bundle
<1>2. /\ CaseOK(work) /\ work.version = "current" /\ Keeps(db, work)
      /\ IsContent(work) /\ db.version = "current"
  BY <1>1, CaseAssumption DEF Inv, WorkOK, CaseOK, Extends, Knows, IngestLabels
<1>3. IsSource(s)
  BY <1>1, SourceOf DEF Control, IngestLabels
<1>4. n \in 1..(Len(s.entries) + 1) /\ Between(db, work, s, n)
  BY <1>1 DEF Inv, HasDone
<1>5. s' = s
  BY <1>1 DEF Source
<1>6. Landed(db, work', s)
  <2> HIDE DEF s, n
  <2>1. n = Len(s.entries) + 1
    BY <1>1, <1>3, <1>4, EntriesFacts
  <2> QED
    BY <1>1, <1>2, <1>4, <2>1, LandingGaps
<1>7. HasDone(p)'
  BY <1>1, <1>5, <1>6 DEF HasDone
<1>8. Knows(p)'
  BY <1>1, <1>2 DEF Knows, ScanLabels
<1> HIDE DEF s, n, gaps
<1>9. /\ IsContent(work') /\ SameSchema(work', work) /\ SameScans(work', work)
       /\ work'.events = work.events /\ work'.bundles = work.bundles
  BY <1>1, <1>2, AddGapsFacts
<1>10. CaseOK(work') /\ work'.version = "current"
  BY <1>2, <1>9, BuildsOn DEF CaseOK, RunsOK, SameScans
<1>11. Keeps(db, work')
  BY <1>2, <1>9 DEF Keeps
<1> QED
  BY <1>1, <1>7, <1>8, <1>10, <1>11, WriteKeeps

(* A commit after the gaps lands the whole reading.                        *)
LEMMA CommitLands ==
  ASSUME Control, Inv, NEW p \in Procs, pc[p] = "commit", db' = work
  PROVE  Promise!Next /\ Bundle(p) \in DOMAIN db'.bundles
<1> DEFINE s == Source(p)
<1>1. Landed(db, db', s)
  BY DEF Inv, HasDone
<1>2. s \in Sources
  BY SourceOf DEF Control, IngestLabels
<1>3. Bundle(p) \in DOMAIN db'.bundles
  BY <1>1 DEF Landed, Landing, BundleLands, Bundle
<1> HIDE DEF s
<1>4. Promise!Land(ReadingOf(s)) /\ ReadingOf(s) \in Readings
  BY <1>1, <1>2, LandedLands DEF Readings
<1> QED
  BY <1>3, <1>4 DEF Promise!Next

(* The commit of an ingest is a step of the promise.                       *)
LEMMA CommitIngestKeeps ==
  ASSUME Control, Inv, NEW p \in Procs, CommitIngest(p)
  PROVE  Inv' /\ Promise!Next
<1>1. /\ pc[p] = "commit" /\ CommitWork(p) /\ db' = work
      /\ pc'[p] = "meta" /\ task' = task /\ Alone(p)
  BY DEF Control, CommitIngest, CommitWork, Goto, Alone
<1>2. Promise!Next /\ Bundle(p) \in DOMAIN db'.bundles
  BY <1>1, CommitLands
<1>3. work.version = "current"
  BY <1>1, CaseAssumption DEF CommitWork, Inv, WorkOK
<1>4. Knows(p)' /\ HasDone(p)'
  BY <1>1, <1>2, <1>3 DEF Knows, HasDone, ScanLabels, Bundle, Source
<1> QED
  BY <1>1, <1>2, <1>4, CommitKeeps

(* Writing last_ingest keeps the invariant.                                *)
LEMMA WriteLastKeeps ==
  ASSUME Control, Inv, NEW p \in Procs, WriteLast(p)
  PROVE  Inv' /\ db' = db
<1> DEFINE b == Bundle(p)
<1>1. /\ pc[p] = "meta" /\ owner = None
      /\ owner' = p /\ work' = SetLast(db, b) /\ db' = db
      /\ pc'[p] = "close" /\ task' = task /\ Alone(p)
  BY DEF Control, WriteLast, Begin, Goto, Alone
<1>2. CaseOK(db) /\ db.version = "current" /\ b \in DOMAIN db.bundles /\ IsContent(db)
  BY <1>1 DEF Inv, Knows, CaseOK, IngestLabels
<1>3. b' = b
  BY <1>1 DEF Bundle, Source
<1> HIDE DEF b
<1>4. /\ IsContent(work') /\ SameSchema(work', db) /\ SameScans(work', db)
      /\ work'.events = db.events /\ work'.bundles = db.bundles
  BY <1>1, <1>2, SetLastFacts
<1>5. CaseOK(work') /\ work'.version = "current"
  BY <1>2, <1>4, BuildsOn DEF CaseOK, RunsOK, SameScans
<1>6. Keeps(db, work')
  BY <1>4 DEF Keeps
<1>7. Knows(p)' /\ HasDone(p)'
  BY <1>1, <1>2, <1>3 DEF Knows, HasDone, ScanLabels, b
<1> QED
  BY <1>1, <1>5, <1>6, <1>7, WriteKeeps

(* Committing last_ingest names a bundle that is there.                    *)
LEMMA LastIsNamed ==
  ASSUME Control, Inv, NEW p \in Procs, pc[p] = "close", db' = work
  PROVE  Promise!Next
<1> DEFINE b == Bundle(p)
<1>1. db' = SetLast(db, b) /\ b \in DOMAIN db.bundles /\ IsContent(db)
  BY DEF Inv, HasDone, Knows, CaseOK
<1> HIDE DEF b
<1>2. /\ db'.bundles = db.bundles /\ db'.artifacts = db.artifacts
      /\ db'.events = db.events /\ db'.gaps = db.gaps
      /\ db'.findings = db.findings /\ db'.runs = db.runs /\ db'.last = b
  BY <1>1, SetLastFacts DEF SameScans
<1>3. Rows' = [bundles |-> db.bundles, artifacts |-> db.artifacts,
               events |-> db.events, gaps |-> db.gaps, findings |-> db.findings,
               runs |-> db.runs, last |-> b]
  BY <1>2 DEF Rows
<1>4. Rows' = [Rows EXCEPT !.last = b]
  BY <1>3 DEF Rows
<1>5. DOMAIN Rows.bundles = DOMAIN db.bundles
  BY DEF Rows
<1> QED
  BY <1>1, <1>4, <1>5 DEF Promise!Next, Promise!NameLast

(* Committing it is a step of the promise.                                 *)
LEMMA CloseIngestKeeps ==
  ASSUME Control, Inv, NEW p \in Procs, CloseIngest(p)
  PROVE  Inv' /\ Promise!Next
<1>1. pc[p] = "close" /\ CommitWork(p) /\ db' = work
  BY DEF CloseIngest, CommitWork
<1>2. Alone(p) /\ Knows(p)' /\ HasDone(p)'
  BY EndFacts DEF CloseIngest
<1> QED
  BY <1>1, <1>2, LastIsNamed, CommitKeeps

(* ----------------------------------------------------------------- scan *)

(* Reading the events keeps the invariant.                                 *)
LEMMA ReadEventsKeeps ==
  ASSUME Control, Inv, NEW p \in Procs, ReadEvents(p)
  PROVE  Inv' /\ db' = db
<1>1. /\ pc[p] = "ready" /\ UNCHANGED <<db, owner, work>>
      /\ pc'[p] \in {"store", "report"} /\ task' = task /\ Alone(p)
      /\ hits'[p] = Findings(task[p].rules, db.events)
      /\ eventsRead'[p] = Cardinality(DOMAIN db.events)
  BY DEF Control, ReadEvents, Goto, IsTable, Alone, caseVars
<1>2. db.version = "current" /\ IsFcn(db.events)
  BY <1>1 DEF Inv, Knows, CaseOK, IsContent
<1>3. Seen(db, task[p].rules, hits'[p], eventsRead'[p])
  <2>1. db.events = [k \in DOMAIN db.events |-> db.events[k]]
    BY <1>2 DEF IsFcn
  <2>2. hits'[p] = Findings(task[p].rules, [k \in DOMAIN db.events |-> db.events[k]])
    BY <1>1, <2>1
  <2> QED
    BY <1>1, <2>2, Zenon DEF Seen
<1>4. Knows(p)' /\ HasDone(p)'
  BY <1>1, <1>2, <1>3 DEF Knows, HasDone, IngestLabels
<1> QED
  BY <1>1, <1>4, LookKeeps

(* So does storing the findings.                                           *)
LEMMA StoreFindingsKeeps ==
  ASSUME Control, Inv, NEW p \in Procs, StoreFindings(p)
  PROVE  Inv' /\ db' = db
<1>1. /\ pc[p] = "store" /\ owner = None
      /\ owner' = p /\ work' = StoredFindings(db, hits[p]) /\ db' = db
      /\ pc'[p] = "run" /\ task' = task /\ hits' = hits /\ eventsRead' = eventsRead
      /\ Alone(p)
  BY DEF Control, StoreFindings, Begin, Goto, Alone
<1>2. /\ CaseOK(db) /\ IsContent(db) /\ db.version = "current"
      /\ Seen(db, task[p].rules, hits[p], eventsRead[p])
  BY <1>1 DEF Inv, Knows, CaseOK, ScanLabels
<1>3. /\ IsContent(work') /\ SameSchema(work', db) /\ work'.runs = db.runs
      /\ FindingsLand(db, work', hits[p])
  BY <1>1, <1>2, StoredFindingsFacts
<1>4. CaseOK(work') /\ work'.version = "current"
  BY <1>2, <1>3, BuildsOn DEF CaseOK, RunsOK
<1>5. Keeps(db, work')
  BY <1>3 DEF FindingsLand, Keeps
<1>6. Knows(p)' /\ HasDone(p)'
  BY <1>1, <1>2, <1>3 DEF Knows, HasDone, IngestLabels
<1> QED
  BY <1>1, <1>4, <1>5, <1>6, WriteKeeps

(* So does storing the run.                                                *)
LEMMA StoreRunKeeps ==
  ASSUME Control, Inv, NEW p \in Procs, StoreRun(p)
  PROVE  Inv' /\ db' = db
<1> DEFINE run == RunOf(task[p].rules, hits[p], eventsRead[p], Cardinality(work.runs) + 1)
<1>1. /\ pc[p] = "run" /\ owner = p
      /\ owner' = p /\ work' = [work EXCEPT !.runs = @ \cup {run}] /\ db' = db
      /\ pc'[p] = "stored" /\ task' = task /\ hits' = hits /\ eventsRead' = eventsRead
      /\ Alone(p)
  BY DEF Control, StoreRun, Write, Goto, Alone, RunOf, Ran
<1>2. /\ CaseOK(work) /\ work.version = "current" /\ Keeps(db, work)
      /\ IsContent(work) /\ RunsOK(work)
  BY <1>1, CaseAssumption DEF Inv, WorkOK, CaseOK, Extends
<1>3. /\ db.version = "current" /\ Seen(db, task[p].rules, hits[p], eventsRead[p])
      /\ FindingsLand(db, work, hits[p]) /\ work.runs = db.runs
  BY <1>1 DEF Inv, Knows, HasDone, ScanLabels
<1>4. run.number = Cardinality(work.runs) + 1
  BY DEF RunOf
<1>5. run = RunOf(task[p].rules, hits[p], eventsRead[p], Cardinality(db.runs) + 1)
  BY <1>3
<1> HIDE DEF run
<1>6. work' = [work EXCEPT !.runs = work.runs \cup {run}]
  BY <1>1, <1>2 DEF IsContent
<1>7. /\ IsContent(work') /\ SameSchema(work', work)
      /\ work'.runs = work.runs \cup {run} /\ work'.findings = work.findings
      /\ work'.bundles = work.bundles /\ work'.artifacts = work.artifacts
      /\ work'.events = work.events /\ work'.gaps = work.gaps
      /\ work'.last = work.last
  BY <1>6, <1>2 DEF IsContent, SameSchema
<1>8. RunsOK(work')
  BY <1>2, <1>4, <1>7, NewRun
<1>9. CaseOK(work') /\ work'.version = "current"
  BY <1>2, <1>7, <1>8, BuildsOn
<1>10. Keeps(db, work')
  BY <1>2, <1>7 DEF Keeps
<1>11. ScanLands(db, work', task[p].rules, hits[p], eventsRead[p])
  BY <1>3, <1>5, <1>7 DEF FindingsLand, ScanLands
<1>12. Knows(p)' /\ HasDone(p)'
  BY <1>1, <1>3, <1>11 DEF Knows, HasDone, IngestLabels
<1> QED
  BY <1>1, <1>9, <1>10, <1>12, WriteKeeps

(* A commit after the run stores the whole scan.                           *)
LEMMA CommitStores ==
  ASSUME Control, Inv, NEW p \in Procs, pc[p] = "stored", db' = work
  PROVE  Promise!Next
<1>1. /\ RunsOK(db) /\ Seen(db, task[p].rules, hits[p], eventsRead[p])
      /\ ScanLands(db, db', task[p].rules, hits[p], eventsRead[p])
  BY DEF Inv, CaseOK, Knows, HasDone
<1>2. Promise!Store(task[p].rules)
  BY <1>1, ScanStores
<1>3. task[p] \in Tasks /\ task[p].op = "scan"
  BY AnalysisAssumption DEF Control, ScanLabels
<1>4. task[p].rules \in RuleSets
  BY <1>3 DEF RuleSets
<1> QED
  BY <1>2, <1>4 DEF Promise!Next

(* The commit of a scan is a step of the promise.                          *)
LEMMA CommitScanKeeps ==
  ASSUME Control, Inv, NEW p \in Procs, CommitScan(p)
  PROVE  Inv' /\ Promise!Next
<1>1. /\ pc[p] = "stored" /\ CommitWork(p) /\ db' = work /\ owner = p
      /\ pc'[p] = "report" /\ task' = task /\ Alone(p)
  BY DEF Control, CommitScan, CommitWork, Goto, Alone
<1>2. work.version = "current"
  BY <1>1, CaseAssumption DEF Inv, WorkOK
<1>3. Knows(p)' /\ HasDone(p)'
  BY <1>1, <1>2 DEF Knows, HasDone, IngestLabels
<1> QED
  BY <1>1, <1>3, CommitStores, CommitKeeps

(* ------------------------------------------------------------- failures *)

(* A command that ends outside a transaction leaves the case as it was.    *)
LEMMA EndKeeps ==
  ASSUME Control, Inv, NEW p \in Procs, NEW code, End(p, code),
         UNCHANGED <<db, owner, work>>
  PROVE  Inv' /\ db' = db
BY EndFacts, LookKeeps

(* A commit that fails has landed or left the case as it was.              *)
LEMMA CommitFailsKeeps ==
  ASSUME Control, Inv, NEW p \in Procs, CommitFails(p)
  PROVE  Inv' /\ (Promise!Next \/ db' = db)
<1>1. pc[p] \in {"commit", "close", "stored"} /\ End(p, 1)
  BY DEF CommitFails
<1>2. Alone(p) /\ Knows(p)' /\ HasDone(p)'
  BY <1>1, EndFacts
<1>3. CASE CommitWork(p)
  <2>1. db' = work
    BY <1>3 DEF CommitWork
  <2> QED
    BY <1>1, <1>2, <1>3, <2>1, CommitLands, LastIsNamed, CommitStores, CommitKeeps
<1>4. CASE LoseWork(p)
  BY <1>1, <1>4, ReleaseKeeps DEF LoseWork
<1> QED
  BY <1>3, <1>4 DEF CommitFails

(* Every step keeps the invariant and is one of the promise's or leaves    *)
(* its rows alone.                                                         *)
LEMMA InvStep == Control /\ Inv /\ [Next]_vars => Inv' /\ [Promise!Next]_Rows
<1> SUFFICES ASSUME Control, Inv, [Next]_vars PROVE Inv' /\ (Promise!Next \/ Rows' = Rows)
  OBVIOUS
<1>0. db' = db => Rows' = Rows
  BY DEF Rows
<1>1. CASE UNCHANGED vars
  <2>1. db' = db /\ Rows' = Rows
    BY <1>0, <1>1 DEF vars, caseVars
  <2>2. CaseOK(db)' /\ WorkOK'
    BY <1>1 DEF vars, caseVars, Inv, CaseOK, IsContent, IsFcn, RunsOK, SchemaOK,
                WorkOK, Extends, Keeps
  <2>3. ASSUME NEW p \in Procs PROVE Knows(p)' /\ HasDone(p)'
    BY <1>1 DEF vars, caseVars, procVars, Inv, Knows, HasDone, EventsDone, Bundle,
                Source, Entry
  <2> QED
    BY <2>1, <2>2, <2>3 DEF Inv
<1>2. ASSUME NEW p \in Procs, OpenStep(p)
      PROVE  Inv' /\ Rows' = Rows
  BY <1>0, <1>2, LookForCaseKeeps, ConnectKeeps, CreateKeeps, WriteVersionKeeps,
     CommitVersionKeeps, CheckVersionKeeps DEF OpenStep
<1>3. ASSUME NEW p \in Procs, IngestStep(p)
      PROVE  Inv' /\ (Promise!Next \/ Rows' = Rows)
  BY <1>0, <1>3, StartIngestKeeps, AddEntryKeeps, StoreEventKeeps, EndEntryKeeps,
     WriteGapsKeeps, CommitIngestKeeps, WriteLastKeeps, CloseIngestKeeps
     DEF IngestStep
<1>4. ASSUME NEW p \in Procs, Report(p)
      PROVE  Inv' /\ Rows' = Rows
  BY <1>0, <1>4, EndKeeps DEF Report, caseVars
<1>5. ASSUME NEW p \in Procs, ScanStep(p)
      PROVE  Inv' /\ (Promise!Next \/ Rows' = Rows)
  BY <1>0, <1>4, <1>5, ReadEventsKeeps, StoreFindingsKeeps, StoreRunKeeps,
     CommitScanKeeps DEF ScanStep
<1>6. ASSUME NEW p \in Procs, Invoke(p)
      PROVE  Inv' /\ Rows' = Rows
  BY <1>0, <1>6, InvokeKeeps
<1>7. ASSUME NEW p \in Procs, Fail(p)
      PROVE  Inv' /\ Rows' = Rows
  BY <1>0, <1>7, ReleaseKeeps DEF Fail, Rollback
<1>8. ASSUME NEW p \in Procs, CommitFails(p)
      PROVE  Inv' /\ (Promise!Next \/ Rows' = Rows)
  BY <1>0, <1>8, CommitFailsKeeps
<1>9. ASSUME NEW p \in Procs, ReportFails(p) \/ Busy(p)
      PROVE  Inv' /\ Rows' = Rows
  BY <1>0, <1>9, EndKeeps DEF ReportFails, Busy, caseVars
<1>10. ASSUME NEW p \in Procs, Crash(p)
       PROVE  Inv' /\ Rows' = Rows
  BY <1>0, <1>10, ReleaseKeeps DEF Crash, LoseWork
<1> QED
  BY <1>1, <1>2, <1>3, <1>5, <1>6, <1>7, <1>8, <1>9, <1>10 DEF Next, Step

(* A case begins as the promise does.                                      *)
LEMMA PromiseInit == Init => Promise!Init
<1> SUFFICES ASSUME Init PROVE Promise!Init
  OBVIOUS
<1>1. /\ db.bundles = NoRows /\ db.artifacts = NoRows /\ db.events = NoRows
      /\ db.findings = NoRows /\ db.gaps = {} /\ db.runs = {} /\ db.last = None
  BY EmptyContent DEF Init, CaseInit, IsContent
<1>2. NoRows = Promise!Nothing
  BY DEF NoRows, Promise!Nothing
<1> QED
  BY <1>1, <1>2 DEF Rows, Promise!Init

(* The case is whole but for what an open transaction has written so far,  *)
(* and every process knows of it what its steps rely on later (ingest,     *)
(* scan, Case.transaction).                                                *)
THEOREM InvHolds == Spec => []Inv
<1>1. Init => Inv
  BY InvInit
<1>2. Control /\ Inv /\ [Next]_vars => Inv'
  BY InvStep
<1> QED
  BY <1>1, <1>2, ControlHolds, PTL DEF Spec

(* No row is in a database without the whole schema of this version,       *)
(* however many processes open or create it and wherever they die          *)
(* (Case.open, apply_schema, _check_version).                              *)
THEOREM SchemaBeforeRows == Spec => []RowsNeedSchema
<1>1. Inv => RowsNeedSchema
  BY DEF Inv, CaseOK, SchemaOK, RowsNeedSchema
<1> QED
  BY <1>1, InvHolds, PTL

(* Any number of processes that ingest, re-ingest and scan one case, fail  *)
(* and die at any step, change what the case holds only by whole readings, *)
(* whole scans and the name of the last bundle (Case.transaction, ingest,  *)
(* scan).                                                                  *)
THEOREM CaseKeepsItsPromise == Spec => KeepsItsPromise
<1>1. Init => Promise!Init
  BY PromiseInit
<1>2. Control /\ Inv /\ [Next]_vars => [Promise!Next]_Rows
  BY InvStep
<1> QED
  BY <1>1, <1>2, ControlHolds, InvHolds, PTL DEF Spec, KeepsItsPromise, Promise!Spec

(* ---------------------------------------------------------------- types *)

(* What a content has but its number of tables, and that its events can be *)
(* counted.                                                                *)
RowsTyped(c) ==
    /\ c.version \in {None, "older", "current"}
    /\ c.last \in {None} \cup {s.bundle : s \in Sources}
    /\ DOMAIN c.bundles \subseteq {s.bundle : s \in Sources}
    /\ \A k \in DOMAIN c.artifacts :
          c.artifacts[k].status
              \in {"not_parsed", "skipped", "unsupported", "failed", "parsed"}
    /\ IsFiniteSet(DOMAIN c.events)

ProcsTyped ==
    /\ file \in {"absent", "other", "database"}
    /\ existed \in [Procs -> BOOLEAN]
    /\ added \in [Procs -> Nat]
    /\ eventsRead \in [Procs -> Nat]
    /\ exit \in [Procs -> {0, 1, 2, 3, None}]

WorkTyped == IF owner = None THEN work = None ELSE RowsTyped(work)

Typed == ProcsTyped /\ RowsTyped(db) /\ WorkTyped

(* Every variable has its type in the beginning.                           *)
LEMMA TypedInit == Init => Typed
<1> SUFFICES ASSUME Init PROVE Typed
  OBVIOUS
<1>1. ProcsTyped /\ WorkTyped
  BY DEF Init, CaseInit, ProcsTyped, WorkTyped
<1>2. /\ db.version \in {None, "older"} /\ db.last = None
      /\ db.bundles = NoRows /\ db.artifacts = NoRows /\ db.events = NoRows
  BY EmptyContent DEF Init, CaseInit, IsContent
<1>3. DOMAIN NoRows = {} /\ IsFiniteSet({})
  BY FS_EmptySet DEF NoRows
<1> QED
  BY <1>1, <1>2, <1>3 DEF Typed, RowsTyped

(* A command that ends leaves the types of what the processes carry.       *)
LEMMA ProcsTypedEnd ==
  ASSUME ProcsTyped, NEW p \in Procs, NEW code \in {0, 1, 2, 3, None}, End(p, code),
         file' = file
  PROVE  ProcsTyped'
BY DEF ProcsTyped, End

(* Each write leaves a content of its type: a new table,                   *)
LEMMA CreateTableTyped ==
  ASSUME NEW c, IsContent(c), RowsTyped(c), NEW n
  PROVE  RowsTyped(CreateTable(c, n))
BY CreateTableFacts DEF RowsTyped, SameRows, SameScans

(* the version,                                                            *)
LEMMA InsertVersionTyped ==
  ASSUME NEW c, IsContent(c), RowsTyped(c)
  PROVE  RowsTyped(InsertVersion(c))
BY InsertVersionFacts DEF RowsTyped, SameRows, SameScans

(* a bundle,                                                               *)
LEMMA AddBundleTyped ==
  ASSUME NEW c, IsContent(c), RowsTyped(c), NEW s \in Sources
  PROVE  RowsTyped(AddBundle(c, s))
<1> DEFINE d == AddBundle(c, s)
<1>1. /\ d.version = c.version /\ d.last = c.last
      /\ d.artifacts = c.artifacts /\ d.events = c.events
      /\ DOMAIN d.bundles = DOMAIN c.bundles \cup {s.bundle}
  BY AddBundleFacts DEF SameSchema
<1> HIDE DEF d
<1>2. RowsTyped(d)
  BY <1>1 DEF RowsTyped
<1> QED
  BY <1>2 DEF d

(* an artifact,                                                            *)
LEMMA AddArtifactTyped ==
  ASSUME NEW c, IsContent(c), RowsTyped(c), NEW b, NEW e
  PROVE  RowsTyped(AddArtifact(c, b, e))
<1> DEFINE d == AddArtifact(c, b, e)
           key == <<b, e.path>>
           new == ArtifactRow(c.artifacts, key, e)
           table == Upsert(c.artifacts, key, new)
           statuses == {"not_parsed", "skipped", "unsupported", "failed", "parsed"}
<1>1. new.status \in statuses
  BY DEF ArtifactRow, RowsTyped
<1>2. d.artifacts = table
  BY DEF AddArtifact, IsContent
<1>3. /\ d.version = c.version /\ d.last = c.last /\ d.bundles = c.bundles
      /\ d.events = c.events
  BY DEF AddArtifact, IsContent
<1> HIDE DEF new, key, d
<1>4. \A k \in DOMAIN table :
         \/ table[k] = new
         \/ k \in DOMAIN c.artifacts /\ table[k] = c.artifacts[k]
  BY DEF Upsert
<1> HIDE DEF table
<1>5. \A k \in DOMAIN d.artifacts : d.artifacts[k].status \in statuses
  BY <1>1, <1>2, <1>4 DEF RowsTyped
<1>6. RowsTyped(d)
  BY <1>3, <1>5 DEF RowsTyped
<1> QED
  BY <1>6 DEF d

(* its parse result,                                                       *)
LEMMA SetParseResultTyped ==
  ASSUME NEW c, IsContent(c), RowsTyped(c), NEW b, NEW e
  PROVE  RowsTyped(SetParseResult(c, b, e))
<1> DEFINE d == SetParseResult(c, b, e)
           key == <<b, e.path>>
           set(r) == [artifact |-> r.artifact, mtime |-> r.mtime, sha |-> r.sha,
                      collected |-> r.collected, status |-> Status(e),
                      events |-> Len(EventsFor(b, e)), unparsed |-> Unparsed(e)]
           table == [k \in DOMAIN c.artifacts |->
                        IF k = key THEN set(c.artifacts[k]) ELSE c.artifacts[k]]
           statuses == {"not_parsed", "skipped", "unsupported", "failed", "parsed"}
<1>1. Status(e) \in statuses
  BY DEF Status
<1>2. d = [c EXCEPT !.artifacts = table]
  BY DEF SetParseResult, IsContent
<1>3. \A r : set(r).status \in statuses
  BY <1>1
<1> HIDE DEF d, key, set
<1>4. \A k \in DOMAIN table : table[k].status \in statuses
  BY <1>3 DEF RowsTyped
<1> HIDE DEF table
<1>5. /\ d.version = c.version /\ d.last = c.last /\ d.bundles = c.bundles
      /\ d.events = c.events /\ d.artifacts = table
  BY <1>2 DEF IsContent
<1>6. RowsTyped(d)
  BY <1>4, <1>5 DEF RowsTyped
<1> QED
  BY <1>6 DEF d

(* an event,                                                               *)
LEMMA AddEventTyped ==
  ASSUME NEW c, IsContent(c), RowsTyped(c), NEW v
  PROVE  RowsTyped(AddEvent(c, v))
<1>1. IsFiniteSet(DOMAIN c.events \cup {v.id})
  BY FS_AddElement DEF RowsTyped
<1> QED
  BY <1>1, AddEventFacts DEF RowsTyped, SameSchema

(* the gaps,                                                               *)
LEMMA AddGapsTyped ==
  ASSUME NEW c, IsContent(c), RowsTyped(c), NEW b, NEW gaps
  PROVE  RowsTyped(AddGaps(c, b, gaps))
BY AddGapsFacts DEF RowsTyped, SameSchema

(* the name of the last bundle,                                            *)
LEMMA SetLastTyped ==
  ASSUME NEW c, IsContent(c), RowsTyped(c), NEW s \in Sources
  PROVE  RowsTyped(SetLast(c, s.bundle))
BY SetLastFacts DEF RowsTyped, SameSchema

(* and the findings.                                                       *)
LEMMA StoredFindingsTyped ==
  ASSUME NEW c, IsContent(c), RowsTyped(c), NEW found
  PROVE  RowsTyped(StoredFindings(c, found))
BY StoredFindingsFacts DEF RowsTyped, SameSchema, FindingsLand

(* What a step of p leaves of the types, by what it does to the case.      *)
LEMMA CaseTyped ==
  ASSUME Control, Inv, Typed, NEW p \in Procs, ProcsTyped',
         \/ UNCHANGED <<db, owner, work>>
         \/ db' = db /\ owner' = p /\ RowsTyped(work')
         \/ CommitWork(p)
         \/ db' = db /\ Release(p)
  PROVE  Typed'
<1>1. CASE UNCHANGED <<db, owner, work>>
  BY <1>1 DEF Typed, WorkTyped, RowsTyped
<1>2. CASE db' = db /\ owner' = p /\ RowsTyped(work')
  BY <1>2, CaseAssumption DEF Typed, WorkTyped, RowsTyped
<1>3. CASE CommitWork(p)
  BY <1>3, CaseAssumption DEF Typed, WorkTyped, RowsTyped, CommitWork
<1>4. CASE db' = db /\ Release(p)
  BY <1>4 DEF Typed, WorkTyped, RowsTyped, Release
<1> QED
  BY <1>1, <1>2, <1>3, <1>4

(* The contents that a step builds on.                                     *)
LEMMA TypedContents ==
  ASSUME Inv, Typed
  PROVE  /\ IsContent(db) /\ RowsTyped(db)
         /\ owner # None => IsContent(work) /\ RowsTyped(work)
BY DEF Inv, WorkOK, CaseOK, Typed, WorkTyped

(* The steps that open a case keep the types.                              *)
LEMMA TypedOpen ==
  ASSUME Control, Inv, Typed, NEW p \in Procs, Invoke(p) \/ OpenStep(p)
  PROVE  Typed'
<1> USE DEF Goto
<1>p. ProcsTyped
  BY DEF Typed
<1>1. CASE Invoke(p)
  <2>1. ProcsTyped'
    BY <1>p, <1>1 DEF ProcsTyped, Invoke, caseVars
  <2> QED
    BY <1>1, <2>1, CaseTyped DEF Invoke, caseVars
<1>2. CASE LookForCase(p)
  <2>1. CASE End(p, 2)
    BY <1>p, <1>2, <2>1, ProcsTypedEnd, CaseTyped DEF LookForCase, caseVars
  <2>2. CASE ~End(p, 2)
    <3>1. ProcsTyped'
      BY <1>p, <1>2, <2>2 DEF ProcsTyped, LookForCase, caseVars
    <3> QED
      BY <1>2, <3>1, CaseTyped DEF LookForCase, caseVars
  <2> QED
    BY <2>1, <2>2
<1>3. CASE Connect(p)
  <2>1. CASE file = "other"
    BY <1>p, <1>3, <2>1, ProcsTypedEnd, CaseTyped DEF Connect
  <2>2. CASE file # "other"
    <3>1. ProcsTyped'
      BY <1>p, <1>3, <2>2 DEF ProcsTyped, Connect, KeepAll
    <3> QED
      BY <1>3, <3>1, CaseTyped DEF Connect
  <2> QED
    BY <2>1, <2>2
<1>4. CASE CreateNextTable(p)
  <2>1. ProcsTyped'
    BY <1>p, <1>4 DEF ProcsTyped, CreateNextTable
  <2>2. /\ db' = CreateTable(db, at[p] + 1) /\ owner = None
        /\ owner' = owner /\ work' = work
    BY <1>4 DEF CreateNextTable, Autocommit
  <2>3. RowsTyped(db')
    BY <2>2, TypedContents, CreateTableTyped
  <2> QED
    BY <2>1, <2>2, <2>3 DEF Typed, WorkTyped, RowsTyped
<1>5. CASE WriteVersion(p)
  <2>1. ProcsTyped'
    BY <1>p, <1>5 DEF ProcsTyped, WriteVersion
  <2>2. db' = db /\ owner' = p /\ RowsTyped(work')
    BY <1>5, TypedContents, InsertVersionTyped DEF WriteVersion, Begin
  <2> QED
    BY <2>1, <2>2, CaseTyped
<1>6. CASE CommitVersion(p)
  <2>1. ProcsTyped'
    BY <1>p, <1>6 DEF ProcsTyped, CommitVersion
  <2> QED
    BY <1>6, <2>1, CaseTyped DEF CommitVersion
<1>7. CASE CheckVersion(p)
  <2>1. CASE IsCase(db)
    <3>1. ProcsTyped'
      BY <1>p, <1>7, <2>1 DEF ProcsTyped, CheckVersion, KeepAll, caseVars
    <3> QED
      BY <1>7, <3>1, CaseTyped DEF CheckVersion, caseVars
  <2>2. CASE ~IsCase(db)
    BY <1>p, <1>7, <2>2, ProcsTypedEnd, CaseTyped DEF CheckVersion, caseVars
  <2> QED
    BY <2>1, <2>2
<1> QED
  BY <1>1, <1>2, <1>3, <1>4, <1>5, <1>6, <1>7 DEF OpenStep

(* So do those of an ingest.                                               *)
LEMMA TypedIngest ==
  ASSUME Control, Inv, Typed, NEW p \in Procs, IngestStep(p)
  PROVE  Typed'
<1> USE DEF Goto
<1>p. ProcsTyped
  BY DEF Typed
<1>o. \A q \in Procs : q # None
  BY CaseAssumption
<1>1. CASE StartIngest(p)
  <2>1. ProcsTyped'
    BY <1>p, <1>1 DEF ProcsTyped, StartIngest
  <2>2. Source(p) \in Sources
    BY <1>1, SourceOf DEF StartIngest, Ingesting, Control
  <2>3. db' = db /\ owner' = p /\ RowsTyped(work')
    BY <1>1, <2>2, TypedContents, AddBundleTyped DEF StartIngest, Begin
  <2> QED
    BY <2>1, <2>3, CaseTyped
<1>2. CASE AddEntry(p)
  <2>1. ProcsTyped'
    BY <1>p, <1>2 DEF ProcsTyped, AddEntry
  <2>2. db' = db /\ owner' = p /\ RowsTyped(work')
    BY <1>o, <1>2, TypedContents, AddArtifactTyped DEF AddEntry, Write
  <2> QED
    BY <2>1, <2>2, CaseTyped
<1>3. CASE StoreEvent(p)
  <2>1. ProcsTyped'
    <3>1. added'[p] = added[p] + NewRows(work, EventsFor(Bundle(p), Entry(p))[row[p]])
      BY <1>p, <1>3 DEF ProcsTyped, StoreEvent
    <3>2. added' = [added EXCEPT ![p] = added'[p]]
      BY <1>p, <1>3 DEF ProcsTyped, StoreEvent
    <3>3. \A v : NewRows(work, v) \in Nat
      BY DEF NewRows
    <3>4. added'[p] \in Nat
      BY <1>p, <3>1, <3>3 DEF ProcsTyped
    <3>5. added' \in [Procs -> Nat]
      BY <1>p, <3>2, <3>4 DEF ProcsTyped
    <3> QED
      BY <1>p, <1>3, <3>5 DEF ProcsTyped, StoreEvent
  <2>2. db' = db /\ owner' = p /\ RowsTyped(work')
    BY <1>o, <1>3, TypedContents, AddEventTyped DEF StoreEvent, Write
  <2> QED
    BY <2>1, <2>2, CaseTyped
<1>4. CASE EndEntry(p)
  <2>1. ProcsTyped'
    BY <1>p, <1>4 DEF ProcsTyped, EndEntry
  <2>2. db' = db /\ owner' = p /\ RowsTyped(work')
    BY <1>o, <1>4, TypedContents, SetParseResultTyped DEF EndEntry, Write
  <2> QED
    BY <2>1, <2>2, CaseTyped
<1>5. CASE WriteGaps(p)
  <2>1. ProcsTyped'
    BY <1>p, <1>5 DEF ProcsTyped, WriteGaps
  <2>2. db' = db /\ owner' = p /\ RowsTyped(work')
    BY <1>o, <1>5, TypedContents, AddGapsTyped DEF WriteGaps, Write
  <2> QED
    BY <2>1, <2>2, CaseTyped
<1>6. CASE CommitIngest(p)
  <2>1. ProcsTyped'
    BY <1>p, <1>6 DEF ProcsTyped, CommitIngest
  <2> QED
    BY <1>6, <2>1, CaseTyped DEF CommitIngest
<1>7. CASE WriteLast(p)
  <2>1. ProcsTyped'
    BY <1>p, <1>7 DEF ProcsTyped, WriteLast
  <2>2. Source(p) \in Sources
    BY <1>7, SourceOf DEF WriteLast, Control, IngestLabels
  <2>3. db' = db /\ owner' = p /\ RowsTyped(work')
    BY <1>7, <2>2, TypedContents, SetLastTyped DEF WriteLast, Begin, Bundle
  <2> QED
    BY <2>1, <2>3, CaseTyped
<1>8. CASE CloseIngest(p)
  <2>1. IngestCode(Source(p)) \in {0, 1, 2, 3, None}
    BY DEF IngestCode
  <2> QED
    BY <1>p, <1>8, <2>1, ProcsTypedEnd, CaseTyped DEF CloseIngest
<1> QED
  BY <1>1, <1>2, <1>3, <1>4, <1>5, <1>6, <1>7, <1>8 DEF IngestStep

(* So do those of a scan.                                                  *)
LEMMA TypedScan ==
  ASSUME Control, Inv, Typed, NEW p \in Procs, ScanStep(p)
  PROVE  Typed'
<1> USE DEF Goto
<1>p. ProcsTyped
  BY DEF Typed
<1>o. \A q \in Procs : q # None
  BY CaseAssumption
<1>1. CASE ReadEvents(p)
  <2>1. Cardinality(DOMAIN db.events) \in Nat
    BY FS_CardinalityType DEF Typed, RowsTyped
  <2>2. ProcsTyped'
    BY <1>p, <1>1, <2>1 DEF ProcsTyped, ReadEvents, caseVars
  <2> QED
    BY <1>1, <2>2, CaseTyped DEF ReadEvents, caseVars
<1>2. CASE StoreFindings(p)
  <2>1. ProcsTyped'
    BY <1>p, <1>2 DEF ProcsTyped, StoreFindings
  <2>2. db' = db /\ owner' = p /\ RowsTyped(work')
    BY <1>2, TypedContents, StoredFindingsTyped DEF StoreFindings, Begin
  <2> QED
    BY <2>1, <2>2, CaseTyped
<1>3. CASE StoreRun(p)
  <2>1. ProcsTyped'
    BY <1>p, <1>3 DEF ProcsTyped, StoreRun
  <2>2. IsContent(work) /\ RowsTyped(work)
    BY <1>o, <1>3, TypedContents DEF StoreRun, Write
  <2>3. /\ db' = db /\ owner' = p
        /\ work'.version = work.version /\ work'.last = work.last
        /\ work'.bundles = work.bundles /\ work'.artifacts = work.artifacts
        /\ work'.events = work.events
    BY <1>3, <2>2 DEF StoreRun, Write, IsContent
  <2>4. RowsTyped(work')
    BY <2>2, <2>3 DEF RowsTyped
  <2> QED
    BY <2>1, <2>3, <2>4, CaseTyped
<1>4. CASE CommitScan(p)
  <2>1. ProcsTyped'
    BY <1>p, <1>4 DEF ProcsTyped, CommitScan
  <2> QED
    BY <1>4, <2>1, CaseTyped DEF CommitScan
<1>5. CASE Report(p)
  <2>1. (IF hits[p] = {} THEN 3 ELSE 1) \in {0, 1, 2, 3, None}
    OBVIOUS
  <2> QED
    BY <1>p, <1>5, <2>1, ProcsTypedEnd, CaseTyped DEF Report, caseVars
<1> QED
  BY <1>1, <1>2, <1>3, <1>4, <1>5 DEF ScanStep

(* Every step keeps the types.                                             *)
LEMMA TypedStep == Control /\ Inv /\ Typed /\ [Next]_vars => Typed'
<1> SUFFICES ASSUME Control, Inv, Typed, [Next]_vars PROVE Typed'
  OBVIOUS
<1>p. ProcsTyped
  BY DEF Typed
<1>1. CASE UNCHANGED vars
  BY <1>1 DEF vars, caseVars, procVars, Typed, ProcsTyped, WorkTyped, RowsTyped
<1>2. ASSUME NEW p \in Procs, Fail(p) PROVE Typed'
  BY <1>p, <1>2, ProcsTypedEnd, CaseTyped DEF Fail, Rollback
<1>3. ASSUME NEW p \in Procs, CommitFails(p) PROVE Typed'
  BY <1>p, <1>3, ProcsTypedEnd, CaseTyped DEF CommitFails, LoseWork
<1>4. ASSUME NEW p \in Procs, ReportFails(p) \/ Busy(p) PROVE Typed'
  BY <1>p, <1>4, ProcsTypedEnd, CaseTyped DEF ReportFails, Busy, caseVars
<1>5. ASSUME NEW p \in Procs, Crash(p) PROVE Typed'
  BY <1>p, <1>5, ProcsTypedEnd, CaseTyped DEF Crash, LoseWork
<1> QED
  BY <1>1, <1>2, <1>3, <1>4, <1>5, TypedOpen, TypedIngest, TypedScan DEF Next, Step

(* What a process carries from step to step has its type (ingest, scan,    *)
(* cmd_ingest, cmd_scan).                                                  *)
THEOREM TypedHolds == Spec => []Typed
<1>1. Init => Typed
  BY TypedInit
<1>2. Control /\ Inv /\ Typed /\ [Next]_vars => Typed'
  BY TypedStep
<1> QED
  BY <1>1, <1>2, ControlHolds, InvHolds, PTL DEF Spec

(* Every variable has its type; the lock is held by the one process that   *)
(* is inside a transaction.                                                *)
THEOREM TypeInvariant == Spec => []TypeOK
<1>1. Control /\ Inv /\ Typed => TypeOK
  <2> SUFFICES ASSUME Control, Inv, Typed PROVE TypeOK
    OBVIOUS
  <2>1. ContentOK(db)
    BY DEF Inv, CaseOK, SchemaOK, Typed, RowsTyped, ContentOK
  <2>2. IF owner = None THEN work = None ELSE ContentOK(work)
    BY DEF Inv, WorkOK, CaseOK, SchemaOK, Typed, WorkTyped, RowsTyped, ContentOK
  <2> QED
    BY <2>1, <2>2 DEF Control, Typed, ProcsTyped, TypeOK
<1> QED
  BY <1>1, ControlHolds, InvHolds, TypedHolds, PTL

(* ------------------------------------------- what follows from the promise *)

(* The rows of the promise are those of the database.                      *)
LEMMA RowsFields ==
  /\ Rows.bundles = db.bundles /\ Rows.artifacts = db.artifacts
  /\ Rows.events = db.events /\ Rows.gaps = db.gaps
  /\ Rows.findings = db.findings /\ Rows.runs = db.runs /\ Rows.last = db.last
BY DEF Rows

(* A step of the promise only adds.                                        *)
LEMMA PromiseGrows ==
  ASSUME [Promise!Next]_Rows
  PROVE  /\ DOMAIN db.bundles \subseteq DOMAIN db'.bundles
         /\ DOMAIN db.artifacts \subseteq DOMAIN db'.artifacts
         /\ DOMAIN db.events \subseteq DOMAIN db'.events
         /\ db.gaps \subseteq db'.gaps /\ db.runs \subseteq db'.runs
<1>f. /\ Rows'.bundles = db'.bundles /\ Rows'.artifacts = db'.artifacts
      /\ Rows'.events = db'.events /\ Rows'.gaps = db'.gaps /\ Rows'.runs = db'.runs
  BY DEF Rows
<1>1. CASE Rows' = Rows
  BY <1>f, <1>1, RowsFields
<1>2. ASSUME NEW r \in Readings, Promise!Land(r)
      PROVE  /\ DOMAIN db.bundles \subseteq DOMAIN db'.bundles
             /\ DOMAIN db.artifacts \subseteq DOMAIN db'.artifacts
             /\ DOMAIN db.events \subseteq DOMAIN db'.events
             /\ db.gaps \subseteq db'.gaps /\ db.runs \subseteq db'.runs
  BY <1>f, <1>2, RowsFields DEF Promise!Land, Promise!Grows, Promise!Same
<1>3. CASE Promise!NameLast
  BY <1>f, <1>3, RowsFields DEF Promise!NameLast, Rows
<1>4. ASSUME NEW rules \in RuleSets, Promise!Store(rules)
      PROVE  /\ DOMAIN db.bundles \subseteq DOMAIN db'.bundles
             /\ DOMAIN db.artifacts \subseteq DOMAIN db'.artifacts
             /\ DOMAIN db.events \subseteq DOMAIN db'.events
             /\ db.gaps \subseteq db'.gaps /\ db.runs \subseteq db'.runs
  BY <1>f, <1>4, RowsFields DEF Promise!Store, Promise!StoreFound, Promise!Same
<1> QED
  BY <1>1, <1>2, <1>3, <1>4 DEF Promise!Next

(* A reading has each entry of its source with its events, and its gaps.   *)
LEMMA ReadingHas ==
  ASSUME NEW s
  PROVE  /\ ReadingOf(s).bundle = s.bundle
         /\ \A e \in EntriesOf(s) :
               /\ <<s.bundle, e.path>> \in {a.key : a \in ReadingOf(s).artifacts}
               /\ Identities(EventsFor(s.bundle, e))
                     \subseteq {v.id : v \in ReadingOf(s).events}
         /\ \A g \in GapsOf(s) : <<s.bundle, g.kind, g.detail>> \in ReadingOf(s).gaps
<1>1. ASSUME NEW e \in EntriesOf(s)
      PROVE  <<s.bundle, e.path>> \in {a.key : a \in ReadingOf(s).artifacts}
  <2> DEFINE a == [key |-> <<s.bundle, e.path>>, sha |-> e.sha, status |-> Status(e)]
  <2>1. a \in ReadingOf(s).artifacts
    BY DEF ReadingOf
  <2>2. a.key = <<s.bundle, e.path>>
    OBVIOUS
  <2> HIDE DEF a
  <2> QED
    BY <2>1, <2>2
<1>2. ASSUME NEW e \in EntriesOf(s), NEW i \in DOMAIN EventsFor(s.bundle, e)
      PROVE  EventsFor(s.bundle, e)[i] \in EventsOf(s)
  BY DEF EventsOf
<1>3. ReadingOf(s).events = EventsOf(s)
  BY DEF ReadingOf
<1>4. ASSUME NEW e \in EntriesOf(s)
      PROVE  Identities(EventsFor(s.bundle, e)) \subseteq {v.id : v \in ReadingOf(s).events}
  BY <1>2, <1>3 DEF Identities
<1>5. /\ ReadingOf(s).bundle = s.bundle
      /\ ReadingOf(s).gaps = {<<s.bundle, g.kind, g.detail>> : g \in GapsOf(s)}
  BY DEF ReadingOf
<1>6. \A g \in GapsOf(s) : <<s.bundle, g.kind, g.detail>> \in ReadingOf(s).gaps
  BY <1>5
<1> QED
  BY <1>1, <1>4, <1>5, <1>6

(* All of s is in the case.                                                *)
IsWhole(s) ==
    /\ \A e \in EntriesOf(s) :
          /\ <<s.bundle, e.path>> \in DOMAIN db.artifacts
          /\ Identities(EventsFor(s.bundle, e)) \subseteq DOMAIN db.events
    /\ \A g \in GapsOf(s) : <<s.bundle, g.kind, g.detail>> \in db.gaps

(* Every step of the promise keeps a bundle that is there whole.           *)
LEMMA WholeStep == CommittedIsWhole /\ [Promise!Next]_Rows => CommittedIsWhole'
<1> SUFFICES ASSUME CommittedIsWhole, [Promise!Next]_Rows PROVE CommittedIsWhole'
  OBVIOUS
<1>f. /\ Rows'.bundles = db'.bundles /\ Rows'.artifacts = db'.artifacts
      /\ Rows'.events = db'.events /\ Rows'.gaps = db'.gaps
  BY DEF Rows
<1>1. ASSUME NEW s \in Sources, IsWhole(s) PROVE IsWhole(s)'
  BY <1>1, PromiseGrows DEF IsWhole
<1>2. \A b \in DOMAIN db.bundles : \E s \in Sources : s.bundle = b /\ IsWhole(s)'
  BY <1>1 DEF CommittedIsWhole, IsWhole
<1>3. ASSUME NEW s \in Sources, Promise!Land(ReadingOf(s))
      PROVE  DOMAIN db'.bundles = DOMAIN db.bundles \cup {s.bundle} /\ IsWhole(s)'
  <2>1. /\ DOMAIN db'.bundles = DOMAIN db.bundles \cup {s.bundle}
        /\ {a.key : a \in ReadingOf(s).artifacts} \subseteq DOMAIN db'.artifacts
        /\ {v.id : v \in ReadingOf(s).events} \subseteq DOMAIN db'.events
        /\ ReadingOf(s).gaps \subseteq db'.gaps
    BY <1>f, <1>3, RowsFields, ReadingHas DEF Promise!Land, Promise!Grows
  <2> QED
    BY <2>1, ReadingHas DEF IsWhole
<1>4. CASE ~\E r \in Readings : Promise!Land(r)
  <2>1. ASSUME Rows' = Rows PROVE db'.bundles = db.bundles
    BY <1>f, <2>1, RowsFields
  <2>2. ASSUME Promise!NameLast PROVE db'.bundles = db.bundles
    <3>1. Rows'.bundles = Rows.bundles
      BY <2>2 DEF Promise!NameLast, Rows
    <3> QED
      BY <1>f, <3>1, RowsFields
  <2>3. ASSUME NEW rules \in RuleSets, Promise!Store(rules) PROVE db'.bundles = db.bundles
    BY <1>f, <2>3, RowsFields DEF Promise!Store, Promise!StoreFound, Promise!Same
  <2>4. db'.bundles = db.bundles
    BY <1>4, <1>f, <2>1, <2>2, <2>3, RowsFields DEF Promise!Next
  <2> QED
    BY <1>2, <2>4 DEF CommittedIsWhole, IsWhole
<1>5. CASE \E r \in Readings : Promise!Land(r)
  <2>1. PICK s \in Sources : Promise!Land(ReadingOf(s))
    BY <1>5 DEF Readings
  <2> QED
    BY <1>2, <1>3, <2>1 DEF CommittedIsWhole, IsWhole
<1> QED
  BY <1>4, <1>5

(* A bundle in the case is there with every entry, event and gap of a      *)
(* reading of it (ingest, Case.transaction).                               *)
THEOREM BundlesAreWhole == Spec => []CommittedIsWhole
<1>1. Init => CommittedIsWhole
  BY EmptyContent DEF Init, CaseInit, IsContent, CommittedIsWhole, NoRows
<1>2. Control /\ Inv /\ CommittedIsWhole /\ [Next]_vars => CommittedIsWhole'
  BY InvStep, WholeStep
<1> QED
  BY <1>1, <1>2, ControlHolds, InvHolds, PTL DEF Spec

(* A finding is explained by a run.                                        *)
Explained(k) ==
    /\ k[2] \subseteq DOMAIN db.events
    /\ \E r \in db.runs : k[1] \in r.rules /\ r.eventsRead >= Cardinality(k[2])

(* Every step of the promise keeps the findings explained.                 *)
LEMMA ExplainedStep ==
  IsFiniteSet(DOMAIN db.events) /\ FindingsAreExplained /\ [Promise!Next]_Rows
    => FindingsAreExplained'
<1> SUFFICES ASSUME IsFiniteSet(DOMAIN db.events), FindingsAreExplained,
                    [Promise!Next]_Rows
             PROVE  FindingsAreExplained'
  OBVIOUS
<1>f. /\ Rows'.bundles = db'.bundles /\ Rows'.findings = db'.findings
      /\ Rows'.runs = db'.runs /\ Rows'.last = db'.last
  BY DEF Rows
<1>1. \A k \in DOMAIN db.findings : Explained(k)'
  BY PromiseGrows DEF FindingsAreExplained, Explained
<1>2. db.last # None => db.last \in DOMAIN db'.bundles
  BY PromiseGrows DEF FindingsAreExplained
<1>3. ASSUME NEW rules \in RuleSets, Promise!Store(rules)
      PROVE  /\ \A k \in DOMAIN db'.findings \ DOMAIN db.findings : Explained(k)'
             /\ db'.last = db.last
  <2>1. PICK seen \in SUBSET DOMAIN db.events :
          Promise!StoreFound(rules, seen,
              Findings(rules, [k \in seen |-> db.events[k]]))
    BY <1>3, RowsFields DEF Promise!Store
  <2> DEFINE found == Findings(rules, [k \in seen |-> db.events[k]])
  <2>2. PICK run \in Rows'.runs \ Rows.runs :
          run.rules = {r.id : r \in rules} /\ run.eventsRead = Cardinality(seen)
    BY <2>1, Zenon DEF Promise!StoreFound, Cardinality, Promise!Cardinality
  <2>3. \A f \in found : f.rule \in run.rules /\ f.events \subseteq seen
    BY <2>2, FindingsFacts
  <2> HIDE DEF found
  <2>4. /\ \A k \in DOMAIN db'.findings \ DOMAIN db.findings :
              \E f \in found : k = <<f.rule, f.events>>
        /\ db'.last = db.last /\ db'.events = db.events
    <3>1. Promise!StoreFound(rules, seen, found) /\ Rows'.events = db'.events
      BY <2>1 DEF found, Rows
    <3> QED
      BY <1>f, <3>1, RowsFields DEF Promise!StoreFound, Promise!Same
  <2>5. IsFiniteSet(seen)
    BY FS_Subset
  <2>6. ASSUME NEW k \in DOMAIN db'.findings \ DOMAIN db.findings PROVE Explained(k)'
    <3>1. PICK f \in found : k = <<f.rule, f.events>>
      BY <2>4
    <3>2. k[1] = f.rule /\ k[2] = f.events
      BY <3>1
    <3>3. k[1] \in run.rules /\ k[2] \subseteq seen
      BY <2>3, <3>2
    <3>4. IsFiniteSet(k[2]) /\ Cardinality(k[2]) <= Cardinality(seen)
      BY <2>5, <3>3, FS_Subset
    <3>5. Cardinality(k[2]) \in Nat /\ Cardinality(seen) \in Nat
      BY <2>5, <3>4, FS_CardinalityType
    <3>6. run \in db'.runs /\ run.eventsRead >= Cardinality(k[2])
      BY <1>f, <2>2, <3>4, <3>5
    <3> QED
      BY <2>4, <3>3, <3>6 DEF Explained
  <2> QED
    BY <2>4, <2>6
<1>4. CASE \E rules \in RuleSets : Promise!Store(rules)
  BY <1>1, <1>2, <1>3, <1>4 DEF FindingsAreExplained, Explained
<1>5. CASE ~\E rules \in RuleSets : Promise!Store(rules)
  <2>1. CASE Rows' = Rows
    BY <1>1, <1>2, <1>f, <2>1, RowsFields DEF FindingsAreExplained, Explained
  <2>2. CASE Promise!NameLast
    <3>1. /\ Rows'.findings = Rows.findings /\ Rows'.bundles = Rows.bundles
          /\ Rows'.last \in DOMAIN Rows.bundles
      BY <2>2 DEF Promise!NameLast, Rows
    <3> QED
      BY <1>1, <1>f, <3>1, RowsFields DEF FindingsAreExplained, Explained
  <2>3. ASSUME NEW r \in Readings, Promise!Land(r)
        PROVE  db'.findings = db.findings /\ db'.last = db.last
    BY <1>f, <2>3, RowsFields DEF Promise!Land, Promise!Same
  <2> QED
    BY <1>1, <1>2, <1>5, <2>1, <2>2, <2>3 DEF FindingsAreExplained, Explained, Promise!Next
<1> QED
  BY <1>4, <1>5

(* Every finding rests on events of the case and on a run that asked its   *)
(* rule, and last_ingest names a bundle of the case (scan, _store).        *)
THEOREM FindingsRest == Spec => []FindingsAreExplained
<1>1. Init => FindingsAreExplained
  BY EmptyContent DEF Init, CaseInit, IsContent, FindingsAreExplained, NoRows
<1>2. Control /\ Inv /\ Typed /\ FindingsAreExplained /\ [Next]_vars
        => FindingsAreExplained'
  BY InvStep, ExplainedStep DEF Typed, RowsTyped
<1> QED
  BY <1>1, <1>2, ControlHolds, InvHolds, TypedHolds, PTL DEF Spec

-----------------------------------------------------------------------------

(* ------------------------------------------ what a command tells of itself *)

(* A process that is inside an ingest has counted what its transaction     *)
(* added.                                                                  *)
HasCounted(p) ==
    /\ pc[p] \in {"idle", "open", "connect", "schema", "version", "check", "ready"} =>
          added[p] = 0
    /\ pc[p] \in {"entries", "events", "commit"} =>
          Cardinality(DOMAIN work.events) = Cardinality(DOMAIN db.events) + added[p]

Counted == \A p \in Procs : HasCounted(p)

(* A command that runs has landed its ingest or not by where it is, and    *)
(* one that ended says so.                                                 *)
TellsIngest(p) ==
    /\ pc[p] = "idle" /\ exit[p] # None =>
          /\ exit[p] = 2 => p \notin wrote
          /\ exit[p] \in {0, 3} => p \in wrote /\ Bundle(p) \in DOMAIN db.bundles
          /\ exit[p] = 0 => EntriesOf(Source(p)) # {} /\ Unclaimed(Source(p)) = {}
    /\ pc[p] \notin {"idle", "meta", "close"} => p \notin wrote
    /\ pc[p] \in {"meta", "close"} => p \in wrote

ToldOfIngests ==
    \A p \in Procs :
        (pc[p] # "idle" \/ exit[p] # None) /\ task[p].op = "ingest" => TellsIngest(p)

RunIsThere(p, n) ==
    \E run \in db.runs : run.rules = {r.id : r \in task[p].rules} /\ run.findings = n

(* A scan that stores what it found is recorded before it reports.         *)
RecordedFirst(p) ==
    /\ pc[p] = "idle" /\ exit[p] = 3 => RunIsThere(p, 0)
    /\ pc[p] = "report" => RunIsThere(p, Cardinality(hits[p]))

ToldOfScans ==
    \A p \in Procs :
        /\ pc[p] # "idle" \/ exit[p] # None
        /\ task[p].op = "scan" /\ task[p].store
        => RecordedFirst(p)

(* One step of one process.                                                *)
Act(p) ==
    \/ Invoke(p) \/ Step(p)
    \/ Fail(p) \/ CommitFails(p) \/ ReportFails(p) \/ Busy(p) \/ Crash(p)

(* What a step leaves to a process that does not take it.                  *)
Rests(q) ==
    /\ pc'[q] = pc[q] /\ task'[q] = task[q] /\ added'[q] = added[q]
    /\ exit'[q] = exit[q] /\ hits'[q] = hits[q]
    /\ q \in wrote' <=> q \in wrote
    /\ pc[q] \in InTransaction => db' = db /\ work' = work

(* A command that ends leaves the other processes alone.                   *)
LEMMA EndRests ==
  ASSUME Control, ProcsTyped, NEW p \in Procs, NEW code, End(p, code),
         NEW q \in Procs \ {p}
  PROVE  /\ pc'[q] = pc[q] /\ task'[q] = task[q] /\ added'[q] = added[q]
         /\ exit'[q] = exit[q] /\ hits'[q] = hits[q]
BY DEF Control, ProcsTyped, IsTable, End, Goto

(* The process that has the lock sees the case as it was.                  *)
LEMMA LockKeeps ==
  ASSUME Control, NEW p \in Procs, NEW q \in Procs \ {p}, pc[q] \in InTransaction
  PROVE  owner = q /\ owner # p /\ owner # None
BY CaseAssumption DEF Control

(* So does every step that opens a case,                                   *)
LEMMA OpenRests ==
  ASSUME Control, ProcsTyped, NEW p \in Procs, Invoke(p) \/ OpenStep(p),
         NEW q \in Procs \ {p}
  PROVE  Rests(q)
<1> USE LockKeeps DEF Rests
<1>1. CASE Invoke(p)
  BY <1>1 DEF Control, ProcsTyped, Invoke, Goto, caseVars
<1>2. CASE LookForCase(p)
  <2>1. CASE End(p, 2)
    BY <1>2, <2>1, EndRests DEF LookForCase, caseVars
  <2>2. CASE ~End(p, 2)
    BY <1>2, <2>2 DEF LookForCase, Control, Goto, caseVars
  <2> QED
    BY <2>1, <2>2
<1>3. CASE Connect(p)
  <2>1. CASE End(p, 1)
    BY <1>3, <2>1, EndRests DEF Connect, boundVars
  <2>2. CASE ~End(p, 1)
    BY <1>3, <2>2 DEF Connect, KeepAll, Control, Goto
  <2> QED
    BY <2>1, <2>2
<1>4. CASE CreateNextTable(p)
  BY <1>4 DEF CreateNextTable, Autocommit
<1>5. CASE WriteVersion(p)
  BY <1>5 DEF Control, WriteVersion, Begin, Goto
<1>6. CASE CommitVersion(p)
  BY <1>6 DEF Control, CommitVersion, CommitWork, Goto
<1>7. CASE CheckVersion(p)
  <2>1. CASE End(p, 2)
    BY <1>7, <2>1, EndRests DEF CheckVersion, caseVars
  <2>2. CASE ~End(p, 2)
    BY <1>7, <2>2 DEF CheckVersion, KeepAll, Control, Goto, caseVars
  <2> QED
    BY <2>1, <2>2
<1> QED
  BY <1>1, <1>2, <1>3, <1>4, <1>5, <1>6, <1>7 DEF OpenStep

(* every step of an ingest,                                                *)
LEMMA IngestRests ==
  ASSUME Control, ProcsTyped, NEW p \in Procs, IngestStep(p), NEW q \in Procs \ {p}
  PROVE  Rests(q)
<1> USE LockKeeps DEF Rests, Control, ProcsTyped, Goto, Begin, Write, CommitWork
<1>1. CASE StartIngest(p)
  BY <1>1 DEF StartIngest
<1>2. CASE AddEntry(p)
  BY <1>2 DEF AddEntry
<1>3. CASE StoreEvent(p)
  BY <1>3 DEF StoreEvent
<1>4. CASE EndEntry(p)
  BY <1>4 DEF EndEntry
<1>5. CASE WriteGaps(p)
  BY <1>5 DEF WriteGaps
<1>6. CASE CommitIngest(p)
  BY <1>6 DEF CommitIngest
<1>7. CASE WriteLast(p)
  BY <1>7 DEF WriteLast
<1>8. CASE CloseIngest(p)
  BY <1>8, EndRests DEF CloseIngest
<1> QED
  BY <1>1, <1>2, <1>3, <1>4, <1>5, <1>6, <1>7, <1>8 DEF IngestStep

(* and every step of a scan.                                               *)
LEMMA ScanRests ==
  ASSUME Control, ProcsTyped, NEW p \in Procs, ScanStep(p), NEW q \in Procs \ {p}
  PROVE  Rests(q)
<1> USE LockKeeps DEF Rests, Control, ProcsTyped, Goto, Begin, Write, CommitWork
<1>1. CASE ReadEvents(p)
  BY <1>1 DEF ReadEvents, IsTable, caseVars
<1>2. CASE StoreFindings(p)
  BY <1>2 DEF StoreFindings
<1>3. CASE StoreRun(p)
  BY <1>3 DEF StoreRun
<1>4. CASE CommitScan(p)
  BY <1>4 DEF CommitScan
<1>5. CASE Report(p)
  BY <1>5, EndRests DEF Report, caseVars
<1> QED
  BY <1>1, <1>2, <1>3, <1>4, <1>5 DEF ScanStep

(* A step of one process leaves the others alone.                          *)
LEMMA OthersRest ==
  ASSUME Control, ProcsTyped, NEW p \in Procs, Act(p), NEW q \in Procs \ {p}
  PROVE  Rests(q)
<1>1. CASE Fail(p)
  BY <1>1, EndRests, LockKeeps DEF Rests, Fail, Rollback, Release
<1>2. CASE CommitFails(p)
  BY <1>2, EndRests, LockKeeps DEF Rests, CommitFails, CommitWork, LoseWork, Release
<1>3. CASE ReportFails(p) \/ Busy(p)
  BY <1>3, EndRests DEF Rests, ReportFails, Busy, caseVars
<1>4. CASE Crash(p)
  BY <1>4, EndRests, LockKeeps DEF Rests, Crash, LoseWork, Release
<1> QED
  BY <1>1, <1>2, <1>3, <1>4, OpenRests, IngestRests, ScanRests DEF Act, Step

(* ------------------------------------------------ the report of an ingest *)

(* A command that ends has nothing to count.                               *)
LEMMA EndCounts ==
  ASSUME Control, ProcsTyped, NEW p \in Procs, NEW code, End(p, code)
  PROVE  HasCounted(p)'
BY DEF Control, ProcsTyped, End, Goto, HasCounted

(* Opening a case stores no event.                                         *)
LEMMA OpenCounts ==
  ASSUME Control, ProcsTyped, NEW p \in Procs, Invoke(p) \/ OpenStep(p), HasCounted(p)
  PROVE  HasCounted(p)'
<1> USE DEF Control, ProcsTyped, Goto, HasCounted
<1>1. CASE Invoke(p)
  BY <1>1 DEF Invoke
<1>2. CASE LookForCase(p)
  <2>1. CASE End(p, 2)
    BY <2>1, EndCounts
  <2>2. CASE ~End(p, 2)
    BY <1>2, <2>2 DEF LookForCase
  <2> QED
    BY <2>1, <2>2
<1>3. CASE Connect(p)
  <2>1. CASE End(p, 1)
    BY <2>1, EndCounts
  <2>2. CASE ~End(p, 1)
    BY <1>3, <2>2 DEF Connect, KeepAll
  <2> QED
    BY <2>1, <2>2
<1>4. CASE CreateNextTable(p)
  BY <1>4 DEF CreateNextTable
<1>5. CASE WriteVersion(p)
  BY <1>5 DEF WriteVersion
<1>6. CASE CommitVersion(p)
  BY <1>6 DEF CommitVersion
<1>7. CASE CheckVersion(p)
  <2>1. CASE End(p, 2)
    BY <2>1, EndCounts
  <2>2. CASE ~End(p, 2)
    BY <1>7, <2>2 DEF CheckVersion, KeepAll
  <2> QED
    BY <2>1, <2>2
<1> QED
  BY <1>1, <1>2, <1>3, <1>4, <1>5, <1>6, <1>7 DEF OpenStep

(* What the transaction has written can be counted.                        *)
LEMMA WorkHasContent ==
  ASSUME Control, Inv, Typed, NEW p \in Procs, pc[p] \in InTransaction
  PROVE  /\ IsContent(work) /\ RowsTyped(work) /\ owner = p
         /\ Cardinality(DOMAIN work.events) \in Nat
         /\ Cardinality(DOMAIN db.events) \in Nat
<1>1. owner = p /\ owner # None
  BY CaseAssumption DEF Control
<1>2. IsContent(work) /\ RowsTyped(work) /\ RowsTyped(db)
  BY <1>1, TypedContents
<1> QED
  BY <1>1, <1>2, FS_CardinalityType DEF RowsTyped

(* A stored event is counted when it is new, and only then.                *)
LEMMA StoreEventCounts ==
  ASSUME Control, Inv, Typed, NEW p \in Procs, StoreEvent(p), HasCounted(p)
  PROVE  HasCounted(p)'
<1> DEFINE v == EventsFor(Bundle(p), Entry(p))[row[p]]
<1>1. /\ pc[p] = "events" /\ pc' = pc /\ db' = db
      /\ work' = AddEvent(work, v)
      /\ added' = [added EXCEPT ![p] = added[p] + NewRows(work, v)]
  BY DEF StoreEvent, Write
<1> HIDE DEF v
<1>2. /\ IsContent(work) /\ IsFiniteSet(DOMAIN work.events)
      /\ Cardinality(DOMAIN work.events) \in Nat
      /\ Cardinality(DOMAIN db.events) \in Nat
  BY <1>1, WorkHasContent DEF InTransaction, RowsTyped
<1>3. DOMAIN work'.events = DOMAIN work.events \cup {v.id}
  BY <1>1, <1>2, AddEventFacts
<1>4. Cardinality(DOMAIN work'.events) = Cardinality(DOMAIN work.events) + NewRows(work, v)
  <2>1. Cardinality(DOMAIN work.events \cup {v.id})
           = IF v.id \in DOMAIN work.events THEN Cardinality(DOMAIN work.events)
             ELSE Cardinality(DOMAIN work.events) + 1
    BY <1>2, FS_AddElement
  <2> QED
    BY <1>2, <1>3, <2>1 DEF NewRows
<1>5. added[p] \in Nat /\ added'[p] = added[p] + NewRows(work, v) /\ NewRows(work, v) \in Nat
  BY <1>1 DEF Typed, ProcsTyped, NewRows
<1>6. Cardinality(DOMAIN work.events) = Cardinality(DOMAIN db.events) + added[p]
  BY <1>1 DEF HasCounted
<1>7. Cardinality(DOMAIN work'.events) = Cardinality(DOMAIN db.events) + added'[p]
  BY <1>2, <1>4, <1>5, <1>6
<1> QED
  BY <1>1, <1>7 DEF HasCounted

(* Every step of an ingest keeps the count.                                *)
LEMMA IngestCounts ==
  ASSUME Control, Inv, Typed, NEW p \in Procs, IngestStep(p), HasCounted(p)
  PROVE  HasCounted(p)'
<1>p. ProcsTyped
  BY DEF Typed
<1> USE DEF Goto, InTransaction
<1>1. CASE StartIngest(p)
  <2>1. /\ pc[p] = "ready" /\ pc'[p] = "entries" /\ added' = added
        /\ work' = AddBundle(db, Source(p)) /\ db' = db
    BY <1>1 DEF StartIngest, Begin, Control
  <2>2. IsContent(db) /\ Cardinality(DOMAIN db.events) \in Nat
    BY TypedContents, FS_CardinalityType DEF RowsTyped
  <2>3. work'.events = db.events
    BY <2>1, <2>2, AddBundleFacts
  <2> QED
    BY <2>1, <2>2, <2>3 DEF HasCounted
<1>2. CASE AddEntry(p)
  <2>1. /\ pc[p] = "entries" /\ pc'[p] = "events" /\ added' = added /\ db' = db
        /\ work' = AddArtifact(work, Bundle(p), Entry(p))
    BY <1>2 DEF AddEntry, Write, Control
  <2>2. work'.events = work.events
    BY <2>1, WorkHasContent, ArtifactsOnly DEF SameButArtifacts
  <2> QED
    BY <2>1, <2>2 DEF HasCounted
<1>3. CASE StoreEvent(p)
  BY <1>3, StoreEventCounts
<1>4. CASE EndEntry(p)
  <2>1. /\ pc[p] = "events" /\ pc'[p] = "entries" /\ added' = added /\ db' = db
        /\ work' = SetParseResult(work, Bundle(p), Entry(p))
    BY <1>4 DEF EndEntry, Write, Control
  <2>2. work'.events = work.events
    BY <2>1, WorkHasContent, ArtifactsOnly DEF SameButArtifacts
  <2> QED
    BY <2>1, <2>2 DEF HasCounted
<1>5. CASE WriteGaps(p)
  <2>1. /\ pc[p] = "entries" /\ pc'[p] = "commit" /\ added' = added /\ db' = db
        /\ work' = AddGaps(work, Bundle(p), GapsOf(Source(p)))
    BY <1>5 DEF WriteGaps, Write, Control
  <2>2. work'.events = work.events
    BY <2>1, WorkHasContent, AddGapsFacts
  <2> QED
    BY <2>1, <2>2 DEF HasCounted
<1>6. CASE CommitIngest(p) \/ WriteLast(p)
  BY <1>6 DEF CommitIngest, WriteLast, Control, HasCounted
<1>7. CASE CloseIngest(p)
  BY <1>p, <1>7, EndCounts DEF CloseIngest
<1> QED
  BY <1>1, <1>2, <1>3, <1>4, <1>5, <1>6, <1>7 DEF IngestStep

(* Every step of a process keeps its count.                                *)
LEMMA ActCounts ==
  ASSUME Control, Inv, Typed, NEW p \in Procs, Act(p), HasCounted(p)
  PROVE  HasCounted(p)'
<1>p. ProcsTyped
  BY DEF Typed
<1>1. CASE ScanStep(p)
  <2>1. CASE Report(p)
    BY <1>p, <2>1, EndCounts DEF Report
  <2>2. CASE ~Report(p)
    BY <1>1, <2>2 DEF ScanStep, ReadEvents, StoreFindings, StoreRun, CommitScan, Goto,
                      Control, HasCounted
  <2> QED
    BY <2>1, <2>2
<1>2. CASE Fail(p) \/ CommitFails(p) \/ ReportFails(p) \/ Busy(p) \/ Crash(p)
  BY <1>p, <1>2, EndCounts DEF Fail, CommitFails, ReportFails, Busy, Crash
<1> QED
  BY <1>p, <1>1, <1>2, OpenCounts, IngestCounts DEF Act, Step

(* Every step keeps the counts of all.                                     *)
LEMMA CountedStep == Control /\ Inv /\ Typed /\ Counted /\ [Next]_vars => Counted'
<1> SUFFICES ASSUME Control, Inv, Typed, Counted, [Next]_vars PROVE Counted'
  OBVIOUS
<1>1. CASE UNCHANGED vars
  BY <1>1 DEF vars, caseVars, procVars, Counted, HasCounted
<1>2. ASSUME NEW p \in Procs, Act(p), NEW q \in Procs PROVE HasCounted(q)'
  <2>1. CASE q = p
    BY <1>2, <2>1, ActCounts DEF Counted
  <2>2. CASE q # p
    <3>1. Rests(q) /\ HasCounted(q)
      BY <1>2, <2>2, OthersRest DEF Typed, Counted
    <3> QED
      BY <3>1 DEF Rests, HasCounted, InTransaction
  <2> QED
    BY <2>1, <2>2
<1> QED
  BY <1>1, <1>2 DEF Next, Act, Counted

(* In the middle of an ingest the process has counted the events that its  *)
(* transaction added, and before it none (Case.add_events).                *)
THEOREM CountedHolds == Spec => []Counted
<1>1. Init => Counted
  BY DEF Init, Counted, HasCounted
<1> QED
  BY <1>1, CountedStep, ControlHolds, InvHolds, TypedHolds, PTL DEF Spec

(* Only the commit of its ingest takes a process past it.                  *)
LEMMA PastTheCommit ==
  ASSUME Control, ProcsTyped, [Next]_vars, NEW p \in Procs,
         pc[p] = "commit", pc'[p] = "meta"
  PROVE  db' = work
<1>1. PICK q \in Procs : Act(q)
  BY DEF Next, Act, vars, procVars
<1>2. q = p
  BY <1>1, OthersRest DEF Rests
<1>3. CASE OpenStep(p) \/ Invoke(p) \/ ScanStep(p)
  BY <1>3 DEF OpenStep, LookForCase, Connect, CreateNextTable, WriteVersion,
     CommitVersion, CheckVersion, Invoke, ScanStep, ReadEvents, StoreFindings, StoreRun,
     CommitScan, Report
<1>4. CASE IngestStep(p)
  BY <1>4 DEF IngestStep, StartIngest, AddEntry, StoreEvent, EndEntry, WriteGaps,
     CommitIngest, CommitWork, WriteLast, CloseIngest
<1>5. CASE Fail(p) \/ CommitFails(p) \/ ReportFails(p) \/ Busy(p) \/ Crash(p)
  <2>1. pc'[p] = "idle"
    BY <1>5 DEF Control, Fail, CommitFails, ReportFails, Busy, Crash, End, Goto
  <2> QED
    BY <2>1
<1> QED
  BY <1>1, <1>2, <1>3, <1>4, <1>5 DEF Act, Step

(* The events that an ingest reports as new are the events the case has    *)
(* more once it landed, whatever was ingested beside it and however often  *)
(* its rows were there already (ingest, Case.add_events).                  *)
THEOREM ReportedIsGrown == Spec => ReportIsTheGrowth
<1>1. Control /\ Typed /\ Counted /\ [Next]_vars =>
        \A p \in Procs :
          pc[p] = "commit" /\ pc'[p] = "meta" =>
              Cardinality(DOMAIN db'.events)
                  = Cardinality(DOMAIN db.events) + added[p]
  BY PastTheCommit DEF Counted, HasCounted, Typed
<1> QED
  BY <1>1, ControlHolds, TypedHolds, CountedHolds, PTL DEF Spec, ReportIsTheGrowth

(* ---------------------------------------------- the exit of an ingest *)

(* What a step must show of the ingest that takes it.                      *)
TellsIfIngest(p) ==
    (pc[p] # "idle" \/ exit[p] # None) /\ task[p].op = "ingest" => TellsIngest(p)

(* How a command ends.                                                     *)
LEMMA EndsOf ==
  ASSUME Control, ProcsTyped, NEW p \in Procs, NEW code, End(p, code)
  PROVE  pc'[p] = "idle" /\ exit'[p] = code /\ task' = task
BY DEF Control, ProcsTyped, End, Goto

(* A command that ends with 1, or is killed, claims nothing; one that ends *)
(* with 2 claims that it wrote nothing.                                    *)
LEMMA EndTells ==
  ASSUME Control, ProcsTyped, NEW p \in Procs, NEW code, End(p, code),
         code \in {1, None} \/ (code = 2 /\ p \notin wrote')
  PROVE  TellsIfIngest(p)'
BY EndsOf, NoneIsNoExitCode DEF TellsIfIngest, TellsIngest

(* The steps that open a case keep what an exit tells.                     *)
LEMMA OpenTells ==
  ASSUME Control, ProcsTyped, NEW p \in Procs, Invoke(p) \/ OpenStep(p), TellsIfIngest(p)
  PROVE  TellsIfIngest(p)'
<1> USE DEF Control, Goto, TellsIfIngest, TellsIngest
<1>1. CASE Invoke(p)
  BY <1>1 DEF Invoke
<1>2. CASE LookForCase(p)
  <2>1. CASE file = "absent" /\ ~Ingesting(p)
    <3>1. End(p, 2) /\ task[p].op # "ingest"
      BY <1>2, <2>1 DEF LookForCase, Ingesting
    <3> QED
      BY <3>1, EndsOf
  <2>2. CASE ~(file = "absent" /\ ~Ingesting(p))
    BY <1>2, <2>2 DEF LookForCase
  <2> QED
    BY <2>1, <2>2
<1>3. CASE Connect(p)
  <2>1. CASE End(p, 1)
    BY <2>1, EndTells
  <2>2. CASE ~End(p, 1)
    BY <1>3, <2>2 DEF Connect, KeepAll, boundVars
  <2> QED
    BY <2>1, <2>2
<1>4. CASE CreateNextTable(p)
  BY <1>4 DEF CreateNextTable
<1>5. CASE WriteVersion(p)
  BY <1>5 DEF WriteVersion
<1>6. CASE CommitVersion(p)
  BY <1>6 DEF CommitVersion
<1>7. CASE CheckVersion(p)
  <2>1. CASE End(p, 2)
    <3>1. pc[p] = "check" /\ wrote' = wrote
      BY <1>7 DEF CheckVersion
    <3>2. CASE task[p].op = "ingest"
      BY <2>1, <3>1, <3>2, EndTells
    <3>3. CASE task[p].op # "ingest"
      BY <2>1, <3>3, EndsOf
    <3> QED
      BY <3>2, <3>3
  <2>2. CASE ~End(p, 2)
    BY <1>7, <2>2 DEF CheckVersion, KeepAll
  <2> QED
    BY <2>1, <2>2
<1> QED
  BY <1>1, <1>2, <1>3, <1>4, <1>5, <1>6, <1>7 DEF OpenStep

(* An ingest that closes tells by its code what it landed.                 *)
LEMMA CloseTells ==
  ASSUME Control, Inv, ProcsTyped, NEW p \in Procs, CloseIngest(p), TellsIfIngest(p)
  PROVE  TellsIfIngest(p)'
<1> DEFINE s == Source(p)
<1>1. /\ pc[p] = "close" /\ task[p] \in Tasks /\ task[p].op = "ingest"
      /\ wrote' = wrote /\ p \in wrote /\ owner = p /\ db' = work
  BY DEF CloseIngest, CommitWork, Control, IngestLabels, TellsIfIngest, TellsIngest
<1>2. pc'[p] = "idle" /\ exit'[p] = IngestCode(s) /\ task' = task
  BY EndsOf DEF CloseIngest
<1>3. Bundle(p) \in DOMAIN db'.bundles
  <2>1. Bundle(p) \in DOMAIN db.bundles /\ CaseOK(db)
    BY <1>1 DEF Inv, Knows
  <2>2. work = SetLast(db, Bundle(p))
    BY <1>1 DEF Inv, HasDone
  <2>3. work.bundles = db.bundles
    BY <2>1, <2>2, SetLastFacts DEF CaseOK
  <2> QED
    BY <1>1, <2>1, <2>3
<1>4. Source(p)' = s /\ Bundle(p)' = Bundle(p)
  BY <1>2 DEF Source, Bundle
<1>5. IsSource(s)
  BY <1>1, SourceOf
<1> HIDE DEF s
<1>6. IngestCode(s) = 0 => EntriesOf(s) # {} /\ Unclaimed(s) = {}
  <2> SUFFICES ASSUME IngestCode(s) = 0 PROVE EntriesOf(s) # {} /\ Unclaimed(s) = {}
    OBVIOUS
  <2>1. s.entries # <<>> /\ Unclaimed(s) = {}
    BY DEF IngestCode
  <2>2. s.entries \in Seq({s.entries[i] : i \in DOMAIN s.entries})
    BY <1>5 DEF IsSource, IsList
  <2>3. 1 \in DOMAIN s.entries
    BY <2>1, <2>2
  <2> QED
    BY <2>1, <2>3 DEF EntriesOf
<1>7. IngestCode(s) # 2
  BY DEF IngestCode
<1>8. IngestCode(s) = 0 => EntriesOf(Source(p)') # {} /\ Unclaimed(Source(p)') = {}
  BY <1>4, <1>6
<1> QED
  BY <1>1, <1>2, <1>3, <1>4, <1>7, <1>8 DEF TellsIfIngest, TellsIngest

(* So does every other step of an ingest.                                  *)
LEMMA IngestTells ==
  ASSUME Control, Inv, ProcsTyped, NEW p \in Procs, IngestStep(p), TellsIfIngest(p)
  PROVE  TellsIfIngest(p)'
<1>1. CASE StartIngest(p) \/ AddEntry(p) \/ StoreEvent(p) \/ EndEntry(p)
           \/ WriteGaps(p) \/ CommitIngest(p) \/ WriteLast(p)
  BY <1>1 DEF Control, Goto, TellsIfIngest, TellsIngest, StartIngest, AddEntry,
     StoreEvent, EndEntry, WriteGaps, CommitIngest, WriteLast
<1> QED
  BY <1>1, CloseTells DEF IngestStep

(* A scan tells nothing of an ingest.                                      *)
LEMMA ScanTells ==
  ASSUME Control, ProcsTyped, NEW p \in Procs, ScanStep(p) \/ ReportFails(p)
  PROVE  TellsIfIngest(p)'
<1>1. task[p].op # "ingest"
  BY DEF Control, ScanLabels, ScanStep, ReadEvents, StoreFindings, StoreRun, CommitScan,
     Report, ReportFails, Ingesting
<1>2. task' = task
  BY EndsOf DEF ScanStep, ReadEvents, StoreFindings, StoreRun, CommitScan,
     Report, ReportFails
<1> QED
  BY <1>1, <1>2 DEF TellsIfIngest

(* Every step of a process keeps what its exit tells.                      *)
LEMMA ActTells ==
  ASSUME Control, Inv, ProcsTyped, NEW p \in Procs, Act(p), TellsIfIngest(p)
  PROVE  TellsIfIngest(p)'
<1>1. CASE Fail(p)
  <2>1. /\ pc[p] \in {"ready", "entries", "events", "run"} /\ wrote' = wrote
    BY <1>1 DEF Fail, Rollback
  <2>2. PICK code \in {1, 2} : End(p, code)
    BY <1>1 DEF Fail
  <2>3. CASE task[p].op = "ingest"
    <3>1. p \notin wrote'
      BY <2>1, <2>3 DEF TellsIfIngest, TellsIngest
    <3> QED
      BY <2>2, <3>1, EndTells
  <2>4. CASE task[p].op # "ingest"
    BY <2>2, <2>4, EndsOf DEF TellsIfIngest
  <2> QED
    BY <2>3, <2>4
<1>2. CASE CommitFails(p) \/ Busy(p) \/ Crash(p)
  BY <1>2, EndTells DEF CommitFails, Busy, Crash
<1> QED
  BY <1>1, <1>2, OpenTells, IngestTells, ScanTells DEF Act, Step

(* Every step keeps what the exits of all tell.                            *)
LEMMA ToldOfIngestsStep ==
  Control /\ Inv /\ Typed /\ ToldOfIngests /\ [Next]_vars => ToldOfIngests'
<1> SUFFICES ASSUME Control, Inv, Typed, ToldOfIngests, [Next]_vars
             PROVE  ToldOfIngests'
  OBVIOUS
<1>1. CASE UNCHANGED vars
  BY <1>1 DEF vars, caseVars, procVars, ToldOfIngests, TellsIngest, Bundle, Source
<1>2. DOMAIN db.bundles \subseteq DOMAIN db'.bundles
  BY InvStep, PromiseGrows
<1>3. ASSUME NEW p \in Procs, Act(p), NEW q \in Procs PROVE TellsIfIngest(q)'
  <2>0. ProcsTyped /\ TellsIfIngest(q)
    BY DEF Typed, ToldOfIngests, TellsIfIngest
  <2>1. CASE q = p
    BY <1>3, <2>0, <2>1, ActTells
  <2>2. CASE q # p
    <3>1. Rests(q)
      BY <1>3, <2>0, <2>2, OthersRest
    <3>2. Bundle(q)' = Bundle(q) /\ Source(q)' = Source(q)
      BY <3>1 DEF Rests, Bundle, Source
    <3> QED
      BY <1>2, <2>0, <3>1, <3>2 DEF Rests, TellsIfIngest, TellsIngest
  <2> QED
    BY <2>1, <2>2
<1> QED
  BY <1>1, <1>3 DEF Next, Act, ToldOfIngests, TellsIfIngest

(* The exit code of afx ingest tells what happened to the case: after 2    *)
(* nothing of the ingest landed, after 0 or 3 its bundle is there, and     *)
(* after 0 it had files and all of them were claimed (cmd_ingest).         *)
THEOREM ExitIsTrue == Spec => []ExitTellsTheCase
<1>1. Init => ToldOfIngests
  BY DEF Init, ToldOfIngests
<1>2. ToldOfIngests => ExitTellsTheCase
  BY DEF ToldOfIngests, TellsIngest, ExitTellsTheCase
<1> QED
  BY <1>1, <1>2, ToldOfIngestsStep, ControlHolds, InvHolds, TypedHolds, PTL DEF Spec

(* ------------------------------------------------ the record of a scan *)

RecordsIfScan(p) ==
    /\ pc[p] # "idle" \/ exit[p] # None
    /\ task[p].op = "scan" /\ task[p].store
    => RecordedFirst(p)

(* A command that ends with another code than 3 does not say that it       *)
(* looked and found nothing.                                               *)
LEMMA EndSaysNothing ==
  ASSUME Control, ProcsTyped, NEW p \in Procs, NEW code, End(p, code), code # 3
  PROVE  RecordsIfScan(p)'
BY EndsOf DEF RecordsIfScan, RecordedFirst

(* A step that does not come to a report leaves nothing to be recorded.    *)
LEMMA OnTheWay ==
  ASSUME NEW p \in Procs, pc'[p] \notin {"idle", "report"}
  PROVE  RecordsIfScan(p)'
BY DEF RecordsIfScan, RecordedFirst

(* A scan that reports is recorded.                                        *)
LEMMA ReportRecords ==
  ASSUME Control, ProcsTyped, NEW p \in Procs, Report(p), RecordsIfScan(p)
  PROVE  RecordsIfScan(p)'
<1>1. pc[p] = "report" /\ db' = db
  BY DEF Report, caseVars
<1>2. CASE hits[p] = {}
  <2>1. End(p, 3)
    BY <1>2 DEF Report
  <2>2. pc'[p] = "idle" /\ task' = task
    BY <2>1, EndsOf
  <2>3. Cardinality(hits[p]) = 0
    BY <1>2, FS_EmptySet
  <2>4. task[p].op = "scan" /\ task[p].store => RunIsThere(p, 0)
    BY <1>1, <2>3 DEF RecordsIfScan, RecordedFirst
  <2>5. RunIsThere(p, 0) => RunIsThere(p, 0)'
    BY <1>1, <2>2 DEF RunIsThere
  <2> QED
    BY <2>2, <2>4, <2>5 DEF RecordsIfScan, RecordedFirst
<1>3. CASE hits[p] # {}
  <2>1. End(p, 1)
    BY <1>3 DEF Report
  <2> QED
    BY <2>1, EndSaysNothing
<1> QED
  BY <1>2, <1>3

(* A scan that commits is recorded before it reports.                      *)
LEMMA CommitRecords ==
  ASSUME Control, Inv, NEW p \in Procs, CommitScan(p)
  PROVE  RecordsIfScan(p)'
<1>1. /\ pc[p] = "stored" /\ db' = work /\ task' = task /\ hits' = hits
      /\ pc'[p] = "report"
  BY DEF CommitScan, CommitWork, Goto, Control
<1> DEFINE run == RunOf(task[p].rules, hits[p], eventsRead[p], Cardinality(db.runs) + 1)
<1>2. run \in work.runs
  BY <1>1 DEF Inv, HasDone, ScanLands
<1>3. run.rules = {r.id : r \in task[p].rules} /\ run.findings = Cardinality(hits[p])
  BY DEF RunOf
<1> HIDE DEF run
<1>4. RunIsThere(p, Cardinality(hits[p]))'
  BY <1>1, <1>2, <1>3 DEF RunIsThere
<1> QED
  BY <1>1, <1>4 DEF RecordsIfScan, RecordedFirst

(* Every step of a scan keeps that.                                        *)
LEMMA ScanRecords ==
  ASSUME Control, Inv, ProcsTyped, NEW p \in Procs, ScanStep(p), RecordsIfScan(p)
  PROVE  RecordsIfScan(p)'
<1>1. CASE ReadEvents(p)
  <2>1. CASE task[p].store
    BY <1>1, <2>1, OnTheWay DEF ReadEvents, Goto, Control
  <2>2. CASE ~task[p].store
    BY <1>1, <2>2 DEF ReadEvents, RecordsIfScan
  <2> QED
    BY <2>1, <2>2
<1>2. CASE StoreFindings(p) \/ StoreRun(p)
  BY <1>2, OnTheWay DEF StoreFindings, StoreRun, Goto, Control
<1> QED
  BY <1>1, <1>2, CommitRecords, ReportRecords DEF ScanStep

(* The steps that open a case report on no scan,                           *)
LEMMA OpenSaysNothing ==
  ASSUME Control, ProcsTyped, NEW p \in Procs, Invoke(p) \/ OpenStep(p)
  PROVE  RecordsIfScan(p)'
<1> USE DEF Control, Goto
<1>1. CASE Invoke(p)
  BY <1>1, OnTheWay DEF Invoke
<1>2. CASE LookForCase(p)
  BY <1>2, OnTheWay, EndSaysNothing DEF LookForCase
<1>3. CASE Connect(p)
  BY <1>3, OnTheWay, EndSaysNothing DEF Connect
<1>4. CASE CreateNextTable(p) \/ WriteVersion(p) \/ CommitVersion(p)
  BY <1>4, OnTheWay DEF CreateNextTable, WriteVersion, CommitVersion
<1>5. CASE CheckVersion(p)
  BY <1>5, OnTheWay, EndSaysNothing DEF CheckVersion
<1> QED
  BY <1>1, <1>2, <1>3, <1>4, <1>5 DEF OpenStep

(* nor do those of an ingest.                                              *)
LEMMA IngestSaysNothing ==
  ASSUME Control, ProcsTyped, NEW p \in Procs, IngestStep(p)
  PROVE  RecordsIfScan(p)'
<1>1. task[p].op = "ingest" /\ task' = task
  BY EndsOf DEF Control, IngestLabels, IngestStep, StartIngest, AddEntry, StoreEvent,
     EndEntry, WriteGaps, CommitIngest, WriteLast, CloseIngest, Ingesting
<1> QED
  BY <1>1 DEF RecordsIfScan

(* Every step of a process keeps its scan recorded.                        *)
LEMMA ActRecords ==
  ASSUME Control, Inv, ProcsTyped, NEW p \in Procs, Act(p), RecordsIfScan(p)
  PROVE  RecordsIfScan(p)'
<1>1. CASE Fail(p) \/ CommitFails(p) \/ ReportFails(p) \/ Busy(p) \/ Crash(p)
  BY <1>1, EndSaysNothing, NoneIsNoExitCode
     DEF Fail, CommitFails, ReportFails, Busy, Crash
<1> QED
  BY <1>1, OpenSaysNothing, IngestSaysNothing, ScanRecords DEF Act, Step

(* Every step keeps the scans of all recorded.                             *)
LEMMA ToldOfScansStep ==
  Control /\ Inv /\ Typed /\ ToldOfScans /\ [Next]_vars => ToldOfScans'
<1> SUFFICES ASSUME Control, Inv, Typed, ToldOfScans, [Next]_vars
             PROVE  ToldOfScans'
  OBVIOUS
<1>1. CASE UNCHANGED vars
  BY <1>1 DEF vars, caseVars, procVars, ToldOfScans, RecordedFirst, RunIsThere
<1>2. db.runs \subseteq db'.runs
  BY InvStep, PromiseGrows
<1>3. ASSUME NEW p \in Procs, Act(p), NEW q \in Procs PROVE RecordsIfScan(q)'
  <2>0. ProcsTyped /\ RecordsIfScan(q)
    BY DEF Typed, ToldOfScans, RecordsIfScan
  <2>1. CASE q = p
    BY <1>3, <2>0, <2>1, ActRecords
  <2>2. CASE q # p
    <3>1. Rests(q)
      BY <1>3, <2>0, <2>2, OthersRest
    <3>2. /\ RunIsThere(q, 0) => RunIsThere(q, 0)'
          /\ RunIsThere(q, Cardinality(hits[q])) => RunIsThere(q, Cardinality(hits[q]))'
      BY <1>2, <3>1 DEF Rests, RunIsThere
    <3> QED
      BY <2>0, <3>1, <3>2 DEF Rests, RecordsIfScan, RecordedFirst
  <2> QED
    BY <2>1, <2>2
<1> QED
  BY <1>1, <1>3 DEF Next, Act, ToldOfScans, RecordsIfScan

(* A scan that ended with 3, nothing found, is recorded with every rule it *)
(* asked and no finding: no findings can be told from no scan (cmd_scan,   *)
(* scan and _store of rules/engine.py).                                    *)
THEOREM SilenceIsOnRecord == Spec => []SilenceIsRecorded
<1>1. Init => ToldOfScans
  BY DEF Init, ToldOfScans
<1>2. ToldOfScans => SilenceIsRecorded
  BY NoneIsNoExitCode
  DEF ToldOfScans, RecordedFirst, RunIsThere, SilenceIsRecorded
<1> QED
  BY <1>1, <1>2, ToldOfScansStep, ControlHolds, InvHolds, TypedHolds, PTL DEF Spec
=============================================================================
