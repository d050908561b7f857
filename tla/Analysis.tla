------------------------------ MODULE Analysis ------------------------------
(***************************************************************************)
(* afx ingest and afx scan (cmd_ingest, cmd_scan of cli.py) on one case:   *)
(* several processes, each of them one command at a time, that open the    *)
(* case, work on it and leave, with an exit code.                          *)
(***************************************************************************)
EXTENDS Naturals, Sequences, FiniteSets

(* ----------------------------------------------------------- the case -- *)
(* model/case.py and model/schema.py: the case database, one SQLite file   *)
(* in WAL mode that several processes may open.  A process reads what was  *)
(* committed last; its first write takes the only write lock and the       *)
(* others wait, for the five seconds of the busy timeout.  A process that  *)
(* dies loses what it had not committed.                                   *)
(*                                                                         *)
(* users and hosts, which hold names by number, and the facets, which are  *)
(* derived from an event when its row is new, are part of the event's row. *)
(*                                                                         *)
(* Before it, what reading one source makes of each collected file,        *)
(* without the database (ingest/ingest.py: events_for, _parse,             *)
(* _filesystem_events), and which holes it leaves (the gaps).              *)
(*                                                                         *)
(* A source is                                                             *)
(*   [bundle, manifest, entries, gaps]                                     *)
(* with entries a sequence of                                              *)
(*   [path, sha, collected, local, mtime, artifact, claimants, logless,    *)
(*    reads]                                                               *)
(* local: the file's bytes are there; artifact: the entry the source       *)
(* attributed it to; claimants: the others in the order _other_claimants   *)
(* tries them; logless: a WAL-mode store without its log that no pattern   *)
(* asks for; reads[a]: the records the parser of entry a makes of the      *)
(* bytes, or Raises.  A record is [locator, kind, payload].                *)

CONSTANTS
    None,       \* no value
    Handled,    \* the catalogue entries some parser handles
    Raises,     \* a parser that raised
    Procs,      \* the processes that work on the case
    Statements  \* how many CREATE statements SCHEMA holds; the first is case_meta

ASSUME CaseAssumption ==
    /\ None \notin Procs \cup {"older", "current"}
    /\ Statements \in Nat \ {0}

(* ----------------------------------------------------- reading a source *)

CanRead(e) == e.collected /\ e.local

(* The claimants that have a parser, the attributed entry first. *)
ReadableAs(e) ==
    SelectSeq(<<e.artifact>> \o e.claimants, LAMBDA a : a \in Handled)

(* The entry whose parser reads the file; None leaves its content unread. *)
ReadAs(e) ==
    IF CanRead(e) /\ ReadableAs(e) # <<>> THEN Head(ReadableAs(e)) ELSE None

Reattributed(e) == ReadAs(e) \notin {None, e.artifact}

Failed(e) == ReadAs(e) # None /\ e.reads[ReadAs(e)] = Raises

Records(e) ==
    IF ReadAs(e) = None \/ Failed(e) THEN <<>> ELSE e.reads[ReadAs(e)]

Status(e) ==
    IF ~CanRead(e) THEN "skipped"
    ELSE IF ReadAs(e) = None THEN "unsupported"
    ELSE IF Failed(e) THEN "failed" ELSE "parsed"

(* An event's identity is its provenance and its kind, never its payload. *)
EventId(b, e, artifact, locator, kind) ==
    <<b, e.path, e.sha, artifact, locator, kind>>

FilesystemEvents(b, e) ==
    IF ~e.collected /\ ~e.local /\ e.mtime = None THEN <<>>
    ELSE <<[id |-> EventId(b, e, e.artifact, "fs", "artifact.fs"),
            payload |-> e.mtime]>>

ParserEvents(b, e) ==
    [i \in DOMAIN Records(e) |->
        LET r == Records(e)[i] IN
        [id |-> EventId(b, e, ReadAs(e), r.locator, r.kind),
         payload |-> r.payload]]

EventsFor(b, e) == FilesystemEvents(b, e) \o ParserEvents(b, e)

Identities(events) == {events[i].id : i \in DOMAIN events}

Unparsed(e) ==
    Cardinality({i \in DOMAIN Records(e) : Records(e)[i].kind = "unparsed.record"})

EntriesOf(s) == {s.entries[i] : i \in DOMAIN s.entries}
Unattributed(s) == {e \in EntriesOf(s) : e.artifact = None}
Unclaimed(s) == {e \in Unattributed(s) : e.collected}

(* The holes of the source, and those only the reading shows.  A gap is    *)
(* keyed by its kind and its detail.                                       *)
GapsOf(s) ==
    LET hole(kind, files) ==
            IF files = {} THEN {}
            ELSE {[kind |-> kind, detail |-> {e.path : e \in files}]}
    IN  s.gaps
        \cup hole("attribution_disagreement",
                  {e \in EntriesOf(s) : Reattributed(e)})
        \cup hole("sqlite_write_ahead_log_not_collected",
                  {e \in EntriesOf(s) : CanRead(e) /\ e.logless})
        \cup hole("unattributed_files", Unattributed(s))

(* ------------------------------------------------------------- the case *)

VARIABLES
    file,   \* what is at the case's path: "absent", "other", "database"
    db,     \* what is committed
    owner,  \* the process that holds the write lock
    work    \* what it would commit

caseVars == <<file, db, owner, work>>

NoRows == [x \in {} |-> None]

EmptyCase ==
    [tables |-> 0, version |-> None, last |-> None, bundles |-> NoRows,
     artifacts |-> NoRows, events |-> NoRows, gaps |-> {},
     findings |-> NoRows, runs |-> {}]

(* The path holds nothing, a file that is no database, an empty or alien   *)
(* database, or an empty case of an older schema.                          *)
CaseInit ==
    /\ \/ file \in {"absent", "other"} /\ db = EmptyCase
       \/ /\ file = "database"
          /\ db \in {EmptyCase, [EmptyCase EXCEPT !.tables = Statements,
                                                  !.version = "older"]}
    /\ owner = None /\ work = None

(* ---------------------------------------------------------- transactions *)

(* A statement outside a transaction, as every CREATE is. *)
Autocommit(content) ==
    /\ owner = None
    /\ db' = content
    /\ UNCHANGED <<owner, work>>

(* The first INSERT or UPDATE opens a transaction and takes the lock. *)
Begin(p, content) ==
    /\ owner = None
    /\ owner' = p /\ work' = content
    /\ UNCHANGED db

Write(p, content) ==
    /\ owner = p
    /\ work' = content
    /\ UNCHANGED <<owner, db>>

(* Slip: the lock stays with a process that has committed. *)
CommitKeepsLock(p) ==
    /\ owner = p
    /\ db' = work
    /\ UNCHANGED <<owner, work>>

CommitWork(p) ==
    /\ owner = p
    /\ db' = work
    /\ owner' = None /\ work' = None

Release(p) ==
    IF owner = p THEN owner' = None /\ work' = None ELSE UNCHANGED <<owner, work>>

(* Slip: transaction() does not roll back, and close() commits. *)
KeepWork(p) ==
    /\ db' = IF owner = p THEN work ELSE db
    /\ Release(p)

(* transaction() rolls back, and the commit of close() finds nothing. *)
Rollback(p) == Release(p) /\ UNCHANGED db

(* The process dies. *)
LoseWork(p) == Release(p) /\ UNCHANGED db

Locked(p) == owner \notin {None, p}

(* ---------------------------------------------------------------- writes *)

Upsert(table, key, row) ==
    [k \in DOMAIN table \cup {key} |-> IF k = key THEN row ELSE table[k]]

(* Slip: a row that is there is replaced. *)
InsertOrReplace(table, rows) ==
    [k \in DOMAIN table \cup DOMAIN rows |->
        IF k \in DOMAIN rows THEN rows[k] ELSE table[k]]

(* ON CONFLICT DO NOTHING. *)
InsertNew(table, rows) ==
    [k \in DOMAIN table \cup DOMAIN rows |->
        IF k \in DOMAIN table THEN table[k] ELSE rows[k]]

(* A row that is there keeps the manifest it was first read from. *)
AddBundle(c, s) ==
    [c EXCEPT !.bundles = InsertNew(@, [b \in {s.bundle} |-> s.manifest])]

(* A row that is there keeps all but its hash, collected and reason. *)
ArtifactRow(table, key, e) ==
    IF key \in DOMAIN table
    THEN [artifact |-> table[key].artifact, mtime |-> table[key].mtime,
          sha |-> e.sha, collected |-> e.collected, status |-> table[key].status,
          events |-> table[key].events, unparsed |-> table[key].unparsed]
    ELSE [artifact |-> e.artifact, mtime |-> e.mtime, sha |-> e.sha,
          collected |-> e.collected, status |-> "not_parsed", events |-> 0,
          unparsed |-> 0]

(* Slip: a file whose content was not carried gets no row. *)
AddArtifactIfRead(c, b, e) ==
    IF CanRead(e)
    THEN [c EXCEPT !.artifacts = Upsert(@, <<b, e.path>>, ArtifactRow(@, <<b, e.path>>, e))]
    ELSE c

AddArtifact(c, b, e) ==
    [c EXCEPT !.artifacts = Upsert(@, <<b, e.path>>, ArtifactRow(@, <<b, e.path>>, e))]

(* An UPDATE: without the row nothing happens. *)
SetParseResult(c, b, e) ==
    [c EXCEPT !.artifacts =
        [k \in DOMAIN @ |->
            IF k = <<b, e.path>>
            THEN [artifact |-> @[k].artifact, mtime |-> @[k].mtime,
                  sha |-> @[k].sha, collected |-> @[k].collected,
                  status |-> Status(e), events |-> Len(EventsFor(b, e)),
                  unparsed |-> Unparsed(e)]
            ELSE @[k]]]

(* One event; a row that is there stays as it is. *)
AddEvent(c, v) == [c EXCEPT !.events = InsertNew(@, [k \in {v.id} |-> v.payload])]

AddGaps(c, b, gaps) ==
    [c EXCEPT !.gaps = @ \cup {<<b, g.kind, g.detail>> : g \in gaps}]

SetLast(c, b) == [c EXCEPT !.last = b]

(* ---------------------------------------------------------------- schema *)

(* CREATE TABLE IF NOT EXISTS, the statements in their order. *)
CreateTable(c, n) == [c EXCEPT !.tables = IF n > @ THEN n ELSE @]

InsertVersion(c) == [c EXCEPT !.version = "current"]

(* _check_version: the row is there and says this build's version. *)
IsCase(c) == c.tables >= 1 /\ c.version = "current"

(* ------------------------------------------------------- the commands -- *)

CONSTANTS
    Tasks,          \* [op |-> "ingest", source] or [op |-> "scan", rules, store]
    Patient,        \* whether every wait for the lock ends before the busy timeout
    MaxInvocations, \* bound on the commands given
    MaxFaults       \* bound on failures inside a command, and on crashes

IsList(x) == x \in Seq({x[i] : i \in DOMAIN x})

(* A source has its entries one after the other, and so has a parser its   *)
(* records.                                                                *)
ASSUME AnalysisAssumption ==
    /\ None \notin Tasks
    /\ \A t \in Tasks :
          /\ t.op \in {"ingest", "scan"}
          /\ t.op = "ingest" =>
                /\ IsList(t.source.entries)
                /\ \A e \in EntriesOf(t.source) : IsList(Records(e))
    /\ Patient \in BOOLEAN /\ MaxInvocations \in Nat /\ MaxFaults \in Nat

(* A process that was killed leaves no exit code.                          *)
ASSUME NoneIsNoExitCode == None \notin {0, 1, 2, 3}

VARIABLES
    pc,          \* the next step of each process
    task,        \* the command it runs
    existed,     \* whether the case was there when it looked
    at,          \* the next schema statement, or the next entry
    row,         \* the next event of that entry
    added,       \* the events its report says were new
    hits,        \* the findings of its scan
    eventsRead,  \* how many events the scan saw
    exit,        \* the exit code of its last command
    invocations, faults,
    wrote        \* history: the processes whose command committed rows

procVars == <<pc, task, existed, at, row, added, hits, eventsRead, exit>>
boundVars == <<invocations, faults>>
vars == <<caseVars, procVars, boundVars, wrote>>

(* rules/engine.py in one step: what a set of rules finds in a table of    *)
(* events; Rules takes it apart.  A rule is [id, sha, accepts, least]: the *)
(* hash of its file, the payloads its condition matches, and how many      *)
(* matching events of one bundle make a finding; a rule without aggregate  *)
(* has least = 1 and fires on each.                                        *)
Matching(rule, table) == {k \in DOMAIN table : table[k] \in rule.accepts}

(* The sets of events a rule fires on, in the groups of their bundles. *)
Fires(rule, table) ==
    IF rule.least = 1 THEN {{k} : k \in Matching(rule, table)}
    ELSE LET group(b) == {k \in Matching(rule, table) : k[1] = b}
         IN  {g \in {group(k[1]) : k \in Matching(rule, table)} :
                 Cardinality(g) >= rule.least}

Findings(rules, table) ==
    UNION {{[rule |-> r.id, sha |-> r.sha, events |-> g] : g \in Fires(r, table)}
           : r \in rules}

(* A finding's identity is the rule's name and its events. *)
FindingId(f) == <<f.rule, f.events>>

Ingesting(p) == pc[p] # "idle" /\ task[p].op = "ingest"
Source(p) == task[p].source
Bundle(p) == Source(p).bundle

Goto(p, label) == pc' = [pc EXCEPT ![p] = label]

(* What a process keeps while it runs is gone when it ends. *)
End(p, code) ==
    /\ Goto(p, "idle")
    /\ exit' = [exit EXCEPT ![p] = code]
    /\ UNCHANGED task
    /\ existed' = [existed EXCEPT ![p] = FALSE]
    /\ at' = [at EXCEPT ![p] = 0]
    /\ row' = [row EXCEPT ![p] = 0]
    /\ added' = [added EXCEPT ![p] = 0]
    /\ hits' = [hits EXCEPT ![p] = {}]
    /\ eventsRead' = [eventsRead EXCEPT ![p] = 0]

KeepAll == UNCHANGED <<task, existed, at, row, added, hits, eventsRead, exit>>

Fault == faults < MaxFaults /\ faults' = faults + 1

Init ==
    /\ CaseInit
    /\ pc = [p \in Procs |-> "idle"]
    /\ task = [p \in Procs |-> None]
    /\ existed = [p \in Procs |-> FALSE]
    /\ at = [p \in Procs |-> 0] /\ row = [p \in Procs |-> 0] /\ added = [p \in Procs |-> 0]
    /\ hits = [p \in Procs |-> {}] /\ eventsRead = [p \in Procs |-> 0]
    /\ exit = [p \in Procs |-> None]
    /\ invocations = 0 /\ faults = 0 /\ wrote = {}

Invoke(p) ==
    /\ pc[p] = "idle" /\ invocations < MaxInvocations
    /\ invocations' = invocations + 1
    /\ task' \in {[task EXCEPT ![p] = t] : t \in Tasks}
    /\ Goto(p, "open")
    /\ exit' = [exit EXCEPT ![p] = None]
    /\ wrote' = wrote \ {p}
    /\ UNCHANGED <<caseVars, existed, at, row, added, hits, eventsRead, faults>>

(* --------------------------------------------------------- Case.open --- *)

(* A scan does not create a case. *)
LookForCase(p) ==
    /\ pc[p] = "open"
    /\ IF file = "absent" /\ ~Ingesting(p)
       THEN End(p, 2)
       ELSE /\ existed' = [existed EXCEPT ![p] = file # "absent"]
            /\ Goto(p, "connect")
            /\ UNCHANGED <<task, at, row, added, hits, eventsRead, exit>>
    /\ UNCHANGED <<caseVars, boundVars, wrote>>

(* The first pragma that touches the file creates it, and fails on a file  *)
(* that is no database, with an exception nobody catches.                  *)
Connect(p) ==
    /\ pc[p] = "connect"
    /\ IF file = "other"
       THEN End(p, 1) /\ UNCHANGED file
       ELSE /\ file' = "database"
            /\ Goto(p, IF existed[p] THEN "check" ELSE "schema")
            /\ KeepAll
    /\ UNCHANGED <<db, owner, work, boundVars, wrote>>

CreateNextTable(p) ==
    /\ pc[p] = "schema" /\ at[p] < Statements
    /\ Autocommit(CreateTable(db, at[p] + 1))
    /\ at' = [at EXCEPT ![p] = @ + 1]
    /\ UNCHANGED <<file, pc, task, existed, row, added, hits, eventsRead, exit,
                   boundVars, wrote>>

(* Slip: the version row right after case_meta, before the other tables. *)
SchemaReadyEarly(p) == at[p] >= 1

(* The version row is the last thing apply_schema writes. *)
SchemaReady(p) == at[p] = Statements

WriteVersion(p) ==
    /\ pc[p] = "schema" /\ SchemaReady(p)
    /\ Begin(p, InsertVersion(db))
    /\ Goto(p, "version")
    /\ at' = [at EXCEPT ![p] = 0]
    /\ UNCHANGED <<file, task, existed, row, added, hits, eventsRead, exit,
                   boundVars, wrote>>

CommitVersion(p) ==
    /\ pc[p] = "version"
    /\ CommitWork(p)
    /\ Goto(p, "check")
    /\ UNCHANGED <<file, task, existed, at, row, added, hits, eventsRead, exit,
                   boundVars, wrote>>

CheckVersion(p) ==
    /\ pc[p] = "check"
    /\ IF IsCase(db)
       THEN /\ Goto(p, "ready")
            /\ KeepAll
       ELSE End(p, 2)
    /\ UNCHANGED <<caseVars, boundVars, wrote>>

(* ------------------------------------------------------------- ingest --- *)

StartIngest(p) ==
    /\ pc[p] = "ready" /\ Ingesting(p)
    /\ Begin(p, AddBundle(db, Source(p)))
    /\ Goto(p, "entries")
    /\ at' = [at EXCEPT ![p] = 1]
    /\ UNCHANGED <<file, task, existed, row, added, hits, eventsRead, exit,
                   boundVars, wrote>>

Entry(p) == Source(p).entries[at[p]]

AddEntry(p) ==
    /\ pc[p] = "entries" /\ at[p] <= Len(Source(p).entries)
    /\ Write(p, AddArtifact(work, Bundle(p), Entry(p)))
    /\ row' = [row EXCEPT ![p] = 1]
    /\ Goto(p, "events")
    /\ UNCHANGED <<file, task, existed, at, added, hits, eventsRead, exit,
                   boundVars, wrote>>

(* Slip: what was read is counted, not what was new. *)
OneMore(c, v) == 1

NewRows(c, v) == IF v.id \in DOMAIN c.events THEN 0 ELSE 1

StoreEvent(p) ==
    /\ pc[p] = "events" /\ row[p] <= Len(EventsFor(Bundle(p), Entry(p)))
    /\ LET v == EventsFor(Bundle(p), Entry(p))[row[p]] IN
       /\ Write(p, AddEvent(work, v))
       /\ added' = [added EXCEPT ![p] = @ + NewRows(work, v)]
    /\ row' = [row EXCEPT ![p] = @ + 1]
    /\ UNCHANGED <<file, pc, task, existed, at, hits, eventsRead, exit,
                   boundVars, wrote>>

EndEntry(p) ==
    /\ pc[p] = "events" /\ row[p] > Len(EventsFor(Bundle(p), Entry(p)))
    /\ Write(p, SetParseResult(work, Bundle(p), Entry(p)))
    /\ at' = [at EXCEPT ![p] = @ + 1]
    /\ row' = [row EXCEPT ![p] = 0]
    /\ Goto(p, "entries")
    /\ UNCHANGED <<file, task, existed, added, hits, eventsRead, exit,
                   boundVars, wrote>>

WriteGaps(p) ==
    /\ pc[p] = "entries" /\ at[p] > Len(Source(p).entries)
    /\ Write(p, AddGaps(work, Bundle(p), GapsOf(Source(p))))
    /\ Goto(p, "commit")
    /\ UNCHANGED <<file, task, existed, at, row, added, hits, eventsRead, exit,
                   boundVars, wrote>>

CommitIngest(p) ==
    /\ pc[p] = "commit"
    /\ CommitWork(p)
    /\ Goto(p, "meta")
    /\ wrote' = wrote \cup {p}
    /\ UNCHANGED <<file, task, existed, at, row, added, hits, eventsRead, exit,
                   boundVars>>

(* last_ingest is written after the ingest has landed. *)
WriteLast(p) ==
    /\ pc[p] = "meta"
    /\ Begin(p, SetLast(db, Bundle(p)))
    /\ Goto(p, "close")
    /\ UNCHANGED <<file, task, existed, at, row, added, hits, eventsRead, exit,
                   boundVars, wrote>>

IngestCode(s) ==
    IF s.entries = <<>> THEN 3 ELSE IF Unclaimed(s) # {} THEN 1 ELSE 0

CloseIngest(p) ==
    /\ pc[p] = "close"
    /\ CommitWork(p)
    /\ End(p, IngestCode(Source(p)))
    /\ UNCHANGED <<file, boundVars, wrote>>

(* --------------------------------------------------------------- scan --- *)

ReadEvents(p) ==
    /\ pc[p] = "ready" /\ ~Ingesting(p)
    /\ hits' = [hits EXCEPT ![p] = Findings(task[p].rules, db.events)]
    /\ eventsRead' = [eventsRead EXCEPT ![p] = Cardinality(DOMAIN db.events)]
    /\ Goto(p, IF task[p].store THEN "store" ELSE "report")
    /\ UNCHANGED <<caseVars, task, existed, at, row, added, exit, boundVars, wrote>>

StoredFindings(c, found) ==
    [c EXCEPT !.findings =
        InsertNew(@, [k \in {FindingId(f) : f \in found} |->
                        (CHOOSE f \in found : FindingId(f) = k).sha])]

StoreFindings(p) ==
    /\ pc[p] = "store"
    /\ Begin(p, StoredFindings(db, hits[p]))
    /\ Goto(p, "run")
    /\ UNCHANGED <<file, task, existed, at, row, added, hits, eventsRead, exit,
                   boundVars, wrote>>

(* Slip: only the rules that fired are named. *)
RanAndFired(p) == {f.rule : f \in hits[p]}

(* Every rule that ran is named, whether or not it fired. *)
Ran(p) == {r.id : r \in task[p].rules}

StoreRun(p) ==
    /\ pc[p] = "run"
    /\ Write(p, [work EXCEPT !.runs = @ \cup
                    {[rules |-> Ran(p), eventsRead |-> eventsRead[p],
                      findings |-> Cardinality(hits[p]),
                      number |-> Cardinality(@) + 1]}])
    /\ Goto(p, "stored")
    /\ UNCHANGED <<file, task, existed, at, row, added, hits, eventsRead, exit,
                   boundVars, wrote>>

CommitScan(p) ==
    /\ pc[p] = "stored"
    /\ CommitWork(p)
    /\ wrote' = wrote \cup {p}
    /\ Goto(p, "report")
    /\ UNCHANGED <<file, task, existed, at, row, added, hits, eventsRead, exit,
                   boundVars>>

(* The findings are written out when the case has them already. *)
Report(p) ==
    /\ pc[p] = "report"
    /\ End(p, IF hits[p] = {} THEN 3 ELSE 1)
    /\ UNCHANGED <<caseVars, boundVars, wrote>>

(* ------------------------------------------------------------ failure --- *)

(* An exception inside a command: transaction() rolls back, and the case   *)
(* is closed, which commits.  BundleError, CaseError and OSError give 2,   *)
(* any other exception is a traceback and gives 1.                         *)
Fail(p) ==
    /\ pc[p] \in {"ready", "entries", "events", "run"}
    /\ Fault
    /\ Rollback(p)
    /\ wrote' = IF db' # db THEN wrote \cup {p} ELSE wrote
    /\ \E code \in {1, 2} : End(p, code)
    /\ UNCHANGED <<file, invocations>>

(* The commit itself fails.  transaction() does not roll back then, and    *)
(* the commit of close() may yet succeed.                                  *)
CommitFails(p) ==
    /\ pc[p] \in {"commit", "close", "stored"}
    /\ Fault
    /\ \/ CommitWork(p) /\ wrote' = wrote \cup {p}
       \/ LoseWork(p) /\ UNCHANGED wrote
    /\ End(p, 1)
    /\ UNCHANGED <<file, invocations>>

(* The file of --out cannot be written. *)
ReportFails(p) ==
    /\ pc[p] = "report"
    /\ Fault
    /\ End(p, 2)
    /\ UNCHANGED <<caseVars, invocations, wrote>>

(* The lock was not free for as long as the busy timeout.  The             *)
(* OperationalError is caught nowhere: a traceback, and exit code 1.       *)
Busy(p) ==
    /\ pc[p] \in {"schema", "ready", "meta", "store"}
    /\ pc[p] = "ready" => Ingesting(p)
    /\ Locked(p) /\ ~Patient
    /\ End(p, 1)
    /\ UNCHANGED <<caseVars, boundVars, wrote>>

Crash(p) ==
    /\ pc[p] # "idle"
    /\ Fault
    /\ LoseWork(p)
    /\ End(p, None)
    /\ UNCHANGED <<file, invocations, wrote>>

OpenStep(p) ==
    \/ LookForCase(p) \/ Connect(p) \/ CreateNextTable(p) \/ WriteVersion(p)
    \/ CommitVersion(p) \/ CheckVersion(p)

IngestStep(p) ==
    \/ StartIngest(p) \/ AddEntry(p) \/ StoreEvent(p) \/ EndEntry(p)
    \/ WriteGaps(p) \/ CommitIngest(p) \/ WriteLast(p) \/ CloseIngest(p)

ScanStep(p) ==
    \/ ReadEvents(p) \/ StoreFindings(p) \/ StoreRun(p) \/ CommitScan(p)
    \/ Report(p)

Step(p) == OpenStep(p) \/ IngestStep(p) \/ ScanStep(p)

Next ==
    \E p \in Procs :
        \/ Invoke(p) \/ Step(p)
        \/ Fail(p) \/ CommitFails(p) \/ ReportFails(p) \/ Busy(p) \/ Crash(p)

Spec == Init /\ [][Next]_vars

(* Every process that runs is given its turn. *)
FairSpec == Spec /\ \A p \in Procs : WF_vars(Step(p))

(* The rows of the case, without its schema. *)
Rows == [bundles |-> db.bundles, artifacts |-> db.artifacts,
         events |-> db.events, gaps |-> db.gaps, findings |-> db.findings,
         runs |-> db.runs, last |-> db.last]

Sources == {t.source : t \in {u \in Tasks : u.op = "ingest"}}

(* What a reading of a source brings. *)
EventsOf(s) ==
    UNION {{EventsFor(s.bundle, e)[i] : i \in DOMAIN EventsFor(s.bundle, e)}
           : e \in EntriesOf(s)}

ReadingOf(s) ==
    [bundle |-> s.bundle, events |-> EventsOf(s),
     artifacts |-> {[key |-> <<s.bundle, e.path>>, sha |-> e.sha, status |-> Status(e)]
                    : e \in EntriesOf(s)},
     gaps |-> {<<s.bundle, g.kind, g.detail>> : g \in GapsOf(s)}]

Readings == {ReadingOf(s) : s \in Sources}
RuleSets == {t.rules : t \in {u \in Tasks : u.op = "scan"}}

Promise == INSTANCE CasePromise WITH rows <- Rows

(* ------------------------------------------------------------ properties *)

Labels == {"idle", "open", "connect", "schema", "version", "check", "ready",
           "entries", "events", "commit", "meta", "close", "store", "run", "stored",
           "report"}
InTransaction == {"version", "entries", "events", "commit", "close", "run", "stored"}

ContentOK(c) ==
    /\ c.tables \in 0..Statements
    /\ c.version \in {None, "older", "current"}
    /\ c.last \in {None} \cup {s.bundle : s \in Sources}
    /\ DOMAIN c.bundles \subseteq {s.bundle : s \in Sources}
    /\ \A k \in DOMAIN c.artifacts :
          c.artifacts[k].status
              \in {"not_parsed", "skipped", "unsupported", "failed", "parsed"}

(* Every variable has its type; the lock is held by a process that is      *)
(* inside a transaction, and by no other.                                  *)
TypeOK ==
    /\ file \in {"absent", "other", "database"}
    /\ ContentOK(db)
    /\ owner \in Procs \cup {None}
    /\ IF owner = None THEN work = None ELSE ContentOK(work)
    /\ pc \in [Procs -> Labels]
    /\ task \in [Procs -> Tasks \cup {None}]
    /\ existed \in [Procs -> BOOLEAN]
    /\ at \in [Procs -> Nat] /\ row \in [Procs -> Nat] /\ added \in [Procs -> Nat]
    /\ eventsRead \in [Procs -> Nat]
    /\ exit \in [Procs -> {0, 1, 2, 3, None}]
    /\ \A p \in Procs : owner = p <=> pc[p] \in InTransaction

(* The case, as anybody who opens it sees it, changes only by whole        *)
(* readings and whole scans, whichever processes work on it, fail or die:  *)
(* transaction() of case.py, the conflict clauses and the order of the     *)
(* commits.                                                                *)
KeepsItsPromise == Promise!Spec

(* A bundle that is in the case is there with every entry of a reading of  *)
(* it, the ones that were not collected too, and with every event and gap. *)
CommittedIsWhole ==
    \A b \in DOMAIN db.bundles :
        \E s \in Sources :
            /\ s.bundle = b
            /\ \A e \in EntriesOf(s) :
                  /\ <<b, e.path>> \in DOMAIN db.artifacts
                  /\ Identities(EventsFor(b, e)) \subseteq DOMAIN db.events
            /\ \A g \in GapsOf(s) : <<b, g.kind, g.detail>> \in db.gaps

(* No row is in a database without the whole schema of this version,       *)
(* however many processes create it and wherever they die.                 *)
RowsNeedSchema ==
    /\ db.version = "current" => db.tables = Statements
    /\ DOMAIN db.bundles # {} \/ db.runs # {} \/ db.last # None =>
          db.version = "current"

(* Every finding rests on events of the case and is explained by a scan    *)
(* that named its rule and read at least those events; last_ingest names a *)
(* bundle of the case.                                                     *)
FindingsAreExplained ==
    /\ \A k \in DOMAIN db.findings :
          /\ k[2] \subseteq DOMAIN db.events
          /\ \E r \in db.runs : /\ k[1] \in r.rules
                                 /\ r.eventsRead >= Cardinality(k[2])
    /\ db.last # None => db.last \in DOMAIN db.bundles

(* A scan that ended without failing is recorded with every rule it asked, *)
(* so that no findings can be told from no scan.                           *)
SilenceIsRecorded ==
    \A p \in Procs :
        /\ pc[p] = "idle" /\ exit[p] = 3
        /\ task[p].op = "scan" /\ task[p].store
        => \E run \in db.runs : /\ run.rules = {r.id : r \in task[p].rules}
                              /\ run.findings = 0

(* The exit code of an ingest tells what happened to the case: after 2     *)
(* nothing of it landed, after 0 or 3 its bundle did.                      *)
ExitTellsTheCase ==
    \A p \in Procs : pc[p] = "idle" /\ exit[p] # None /\ task[p].op = "ingest" =>
        /\ exit[p] = 2 => p \notin wrote
        /\ exit[p] \in {0, 3} =>
              p \in wrote /\ Bundle(p) \in DOMAIN db.bundles
        /\ exit[p] = 0 => /\ EntriesOf(Source(p)) # {}
                          /\ Unclaimed(Source(p)) = {}

(* The events an ingest reports as new are the events the case has more    *)
(* once it landed, whatever was ingested beside it.                        *)
ReportIsTheGrowth ==
    [][\A p \in Procs :
          pc[p] = "commit" /\ pc'[p] = "meta" =>
              Cardinality(DOMAIN db'.events)
                  = Cardinality(DOMAIN db.events) + added[p]]_vars

(* An ingest that found a case lands, when nothing fails and every wait    *)
(* for the lock is shorter than the busy timeout.                          *)
IngestLands ==
    \A p \in Procs : pc[p] = "ready" /\ Ingesting(p) ~> p \in wrote
=============================================================================
