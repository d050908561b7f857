# AI Forensic Suite: models and proofs

The AI Forensic Suite collects what AI coding agents leave on an endpoint, and
analyses it. A **collector** (`src/collector/collect.py`, or its PowerShell
counterpart) runs on the endpoint and writes a *bundle*. The **analysis side**
(`src/src/agentforensics`, the command `afx`) verifies a bundle, ingests it into
a *case*, scans the case with rules, and lets an analyst read and export it.

This directory holds TLA+ models of the parts of that program that carry its
promises as evidence tooling, the TLC configurations that check them on small
instances, and proofs, checked by TLAPS, for every value of the constants. The
source is the reference: each definition that models code is mapped to its lines
in `PROJECT.json` ("map").

To run something, in this directory:

    tlc -workers 2 -config MCAnalysis_case.cfg MCAnalysis.tla
    tlapm AnalysisProofs.tla

## 1. The system

### Components, what each keeps and does

| component | source | state | operations |
|---|---|---|---|
| collector | `collector/collect.py` | one run in memory (claims, entries, errors) and the `--out` directory: `files/`, `manifest.json`, `chain_of_custody.jsonl`, a zip | `main`, `discover_users`, `expand_paths`, `iter_matches`, `run`, `collect_file`, the registry pass, `write_manifest` … |
| PowerShell collector | `collector/collect.ps1` | the same | the same, in another language |
| bundle verification | `bundle/verify.py` | none | `verify_bundle`: a verdict over the bytes of a bundle |
| source adapters | `ingest/native.py`, `ingest/tree.py`, `ingest/source.py` | none | turn a bundle, or a bare tree, into entries and gaps |
| path matcher | `ingest/match.py` | none | which catalogue entry claims a path |
| ingest | `ingest/ingest.py` | rows of a case | `ingest`: bundle row, per entry artifact row and events, gaps, `last_ingest` |
| parsers | `parsers/*.py` | what one reader carries from record to record of one file | bytes of one file to records |
| case database | `model/case.py`, `model/schema.py`, `model/event.py` | one SQLite file in WAL mode | `open`, `transaction`, `add_*`, `set_*`, `close` |
| scan | `rules/engine.py` | findings and runs in a case | `scan`, `_store`, `_windows` |
| rule conditions, selectors | `rules/conditions.py`, `rules/select.py`, `rules/model.py` | none | whether one event matches, and with which values |
| command line | `cli.py` | exit codes | `afx ingest`, `scan`, `verify`, `timeline`, `serve`, … |
| timeline | `timeline/build.py` | none | a query and its rendering |
| case reader and server | `webui/api.py`, `webui/server.py` | a connection | local HTTP requests, each one of several queries |
| unified log | `unified/*.py` | none | a neutral format, read and written |
| catalogue, rule packs | `catalog/*.yaml`, `rules/**/*.yaml` | data | loaded and validated |
| exporters | `exporters/*.py` | none | other tools' artefacts out of the catalogue |
| viewer, scripts | `viewer/`, `scripts/` | none | a page; development tooling |

The parsers are, by the kind of file: transcripts of one record a line
(`claude_code`, `codex`, `copilot`, `pi`, `cline_cli`) or of one document
(`gemini`, `continue_sessions`, `cline`); conversation stores in SQLite (`goose`,
`opencode`, `amazonq`, `hermes`, `zed`, `codex_state`, with `sqlite_store` and
`sqlite_generic` below them); an editor's store and its snapshots
(`vscode_state`, `file_snapshot`, `instructions`, `memory`); git checkpoints
(`git_*`); histories (`shell_history`, `prompt_history`, `aider`); page stores
(`lmdb*`, `prompt_library`); log stores (`leveldb*`); and the floors that read
what nobody has a schema for (`*_generic`, `text_*`, `shell_script`, `registry`).

### How they interact

    agents on the endpoint                               analysts' processes
          | write                                    afx ingest   afx scan   afx serve
          v                                              |  ^         |  ^        ^
      filesystem --> collector --> bundle --> adapter ---+  |         |  |        |
                                     |         matcher      v         v  |        |
                                     +--> verify  parsers  [ case database (SQLite, WAL) ]
                                                  (rules read its events, the server its rows)

Three places are shared between actors that do not know of each other, and they
are where the program is hard:

* **the endpoint's filesystem**, which agents write while the collector hashes
  and copies a file with several system calls;
* **the `--out` directory**, which outlives a run that crashed, and which another
  run, and later the verification, find as it was left;
* **the case**, which several processes create, open, write and read, each with
  several transactions of its own, with one write lock and a busy timeout.

### What is hard, and what makes each part correct

* Collector: a torn read must be noticed; a path claimed by several patterns, or
  reached from two profiles, is decided once; a secret claim wins over any other;
  every early return leaves an entry and every failure an error; what a crash
  leaves does not pass for a whole bundle; two runs do not mix.
* Case, ingest, scan: an ingest or a scan lands as a whole or not at all, whatever
  fails, dies or runs beside it; the schema is whole before a row is written;
  counts reported are true beside concurrent writers; exit codes tell what
  happened to the case; findings rest on evidence the case has, and a scan that
  found nothing can be told from none.
* Parsers: what a record says is in force reaches the records after it and no
  other; two events of one record get places of their own, because two at one place
  are one row of the case; what is torn, cut or not understood is told and not
  dropped; of a store that its writer was changing, the last commit is read.
* Rules: a scan finds what its rules ask for, whatever the query leaves tied; a
  selector overlooks no place; a finding quotes what fired it; one pass with two
  positions finds the longest burst.
* Server and timeline: answers made of several queries and of pages agree with
  one another while ingests and scans land in between.
* Adapters and matcher: two files do not become one, what is not searched is said,
  and the collector's and the analysis' choice of an entry agree.

All hazards, at their lines and with the properties that cover them, are listed
in `PROJECT.json` under "hazards". Those without a property say why.

## 2. The modules

    Collector --- MCCollector                            Analysis --- MCAnalysis
        |                                                  |  |
    CollectorProofs                    CasePromise -- (INSTANCE)  +--- AnalysisProofs
                                                  |
    Scan --- Rules --- MCRules                    +-- (INSTANCE) --- Serve --- MCServe
      |                                                                |
    ScanProofs                                                    ServeProofs

    Locate --- MCLocate
       |
    LocateProofs

    Readers --- ClaudeCode Gemini Codex Copilot Pi Cline Continue
       |        Git Histories Leveldb Floors       -- (INSTANCE) --- Transcripts --- MCTranscripts
       +------- Stores: Goose Opencode AmazonQ Hermes Zed (Codex)         |
       +------- Editor Lmdb                                         TranscriptsProofs --+
                   |                                                                    |
                   +---- (INSTANCE) --- Databases --- MCDatabases                 SequenceLemmas
                                            |                                           |
                                        DatabasesProofs --------------------------------+

### Collector

`Collector` begins with the environment, the endpoint: paths name inodes, an open descriptor goes on
reading its inode whatever the path names by then, and an agent may append,
rewrite a block, truncate, replace by a new inode or delete at any time. The
repository has no code for it; it is modelled from the calls the collector makes
and its entries are marked external in the map.

The rest is one process that runs `main()` up to `MaxRuns` times with the same
`--out`. Each call of the code that touches the filesystem is an action:

| code | actions |
|---|---|
| `main`, the check of `--out` | `RefuseOut`, `Invoke` |
| `run`, over the profiles: all claims gathered, then each path decided | `SkipUser`, `MatchUser`, `NextUser`, `UsersDone` |
| `collect_file`: lstat and early returns | `Examine` |
| — `sha256_file` | `OpenToHash`, `HashBlock`, `HashEnd`, `HashFails` |
| — second stat, secret policy | `Restat` |
| — copy, `os.utime` | `OpenToCopy`, `CopyBlock`, `CopyEnd`, `CopyFails`, `FinishCopy` |
| registry pass | `ReadKey`, `RegistryDone` |
| manifest, custody, zip, exit code | `Assemble`, `WriteManifest`, `WriteCustody`, `WriteZip`, `Exit` |
| the process is killed, or an exception ends it | `Crash` |
| `verify_bundle` | the operators `Missing`, `Mismatched`, `Unexpected`, `Verifies` |

`entries`, `errors` and `listed` are the manifest in memory and on disk; `stored`
is `files/`. A file that is opened to be written is first `"torn"`, then
`"whole"`, so a crash can fall in between. `run`, `writers`, `restatted`,
`touched` and `held` are history for the properties; no action of the code
reads `writers`, `restatted`, `touched` or `held`.

Abstractions: a SHA-256 is the content it was taken of (no collisions); the place
of a path in the bundle is the path itself; the pair of modification time and size
that `collect_file` compares is the stamp of the last write, so each write changes
it (a writer that restores both is outside the model); matching a profile is one
step, since its result is only a set of names; `permission_denied` and
`unreadable`, treated alike by the code, are one reason; whether a failed call
has a visible cause is a choice bounded by `MaxFaults`.

### Analysis

* `Analysis` begins with what `ingest.py` makes of one source without the database, as
  operators: which parser reads a file (the attributed entry first, then the other
  claimants), its status, its events with their identities, the gaps.
* The database is the next part: `db` is what is committed, `work` what the
  holder of the write lock (`owner`) would commit. One operator per write of
  `case.py`, with its conflict clause: `InsertNew` is `ON CONFLICT DO NOTHING`,
  `Upsert` with `ArtifactRow` the `ON CONFLICT DO UPDATE` of `artifacts`.
  `Autocommit`, `Begin`, `Write`, `CommitWork`, `Rollback`, `LoseWork` are the
  transactions.
* The actions run `afx ingest` and `afx scan` in any number of processes on one
  case, from `Case.open` to the exit code. What a set of rules finds in a table of
  events is one step here, with a condition as the set of payloads it accepts:

| code | actions |
|---|---|
| `Case.open`, `apply_schema`, `_check_version` | `LookForCase`, `Connect`, `CreateNextTable`, `WriteVersion`, `CommitVersion`, `CheckVersion` |
| `ingest()` | `StartIngest`, `AddEntry`, `StoreEvent`, `EndEntry`, `WriteGaps`, `CommitIngest`, `WriteLast` |
| `cmd_ingest`, `close` | `CloseIngest` |
| `scan()`, `_store()` | `ReadEvents`, `StoreFindings`, `StoreRun`, `CommitScan` |
| `cmd_scan` | `Report` |
| an exception, a failing commit, an unwritable `--out`, a busy timeout, a crash | `Fail`, `CommitFails`, `ReportFails`, `Busy`, `Crash` |

Every write transaction of the code begins with a write, not a read, so none is
upgraded from a stale snapshot; `Begin` therefore starts from what is committed.
The scan's read is one query, hence one step (`ReadEvents`), outside the
transaction that stores its findings: an ingest may land in between.

`CasePromise` is the abstract specification: one variable, `rows`, that changes by
whole readings (`Land`), by the name of the last bundle (`NameLast`) and by whole
scans of some set of events the case held (`Store`). It knows of no process, lock,
schema or crash. `Analysis` instantiates it with the committed rows,
`Promise == INSTANCE CasePromise WITH rows <- Rows`, and `KeepsItsPromise` is
`Promise!Spec`.

### Scan and Rules

`Scan` is one scan of `rules/engine.py` as a state machine: the pack, the loop over
the events, the loop over the groups of each aggregate rule, and `_windows` with the
two positions of its loop. What a condition is, which events meet it and what a
finding quotes are operators that it is given (`Parses`, `Meets`, `Quotes`), so what
is proved of a scan is proved for every language of conditions. `Rules` is the
language of the code; the configuration of `rules_scan` gives its operators
(`Compiles`, `Matches`, `Matched`) to `Scan`.

| code | actions and operators |
|---|---|
| `load`, `load_file`, `parse`, `check` | `Load`, with `LoadsAs`, `Compiles`, `Known`: every file of a pack or none |
| `resolve`, `_walk`, `_get`, `flatten`, `_as_text` | `Resolve`, `Step`, `Get`, `Flatten`, `AsText` |
| `Leaf.matches`, `Leaf.hits`, `All`, `Any_`, `None_` | `LeafMatches`, `Hits`, `Matches` |
| `scan`, the loop over events | `ReadEvent`, `EndOfEvents` |
| `scan`, the loops over rules and groups | `NextRule`, `WholeGroup`, `EndScan` |
| `_windows` | `StartWindows`; `Divide`, `EndDivide`, dated and undated events apart; `Advance`, `NextEvent`, the pass; `EndWindows` |

A text is a sequence of tokens and a pattern the tokens it looks for, in a regular
expression with `^`, `$` and `.*` among them; a value is a text, a number, a truth
value, a list or a mapping. A finding quotes the first `QuoteLimit` tokens of
`QuoteCount` values of a field and says how many more there are. The property
`FindingsAreWhatIsAsked` does not use the lists, buckets and positions of the code:
it says of *sets* of events which groups and which windows a rule asks for.

### Serve

Requests of `webui/api.py` and of the timeline as the queries that each is made of:
`Receive`, `Query` (one of them, an atomic read), `Answer`; a log or a tool listing
that a client pages through, `NextPage`; the sessions it goes through one by one,
`ReadSessions`, `NextSession`, `NotFound`; `Reconnect`. `wire` is what of a request
is still unread on the connection. The environment is `Ingest` and `Scan`, which are
steps of `CasePromise` (instantiated with the rows that are read): so what is proved
of `Analysis`, that it implements `CasePromise`, is what makes this environment the
right one. The rows only grow, whole ingest by whole ingest.

### Locate

`Locate` begins with the encoding of a path in a bundle (`encode_segment`,
`bundle_path_for`: reserved characters, device names, a cut and tagged long name,
capitals) and the way back (`tree.py`), as operators. Then it takes one profile after
the other (`MatchUser`) and each of the catalogue's patterns to what is searched and
what is recorded as not searched (`expand_paths`, `resolve_env_prefix`, the floors
under working copies and relocated trees), decides which entry a path goes to
(`Decide`, `claim_order`), and compares it with what `match.py` says of the path
alone. A machine is alive, or mounted as an image under a root; a link to a directory
is among what the collector may find, and not among what a tree lists (`TreeLists`);
a link in the middle of a path is followed as `iter_matches` follows it.

### Readers, the parsers, Transcripts and Databases

`Readers` holds what parsers share: how a record is taken apart, the places of
events, what becomes of a torn line. Each parser module has an operator per record
type with the names of the code, of the form *(element, place, carried) to events
and what is carried on*. `Transcripts` composes those that read a file from its
first element to its last: `Open`, a `Read…` for each format, and `Close`.
`Databases` does the same for stores: their tables, rows and the shapes that break
them, and for LMDB the transactions of its writer and where the last one was cut.
Cline's command line is read by operators of `Cline`, the state database of Codex by
operators of `Codex`.

A record has the keys its writer gave it; a text is a member of a small set. The
elements of a format (`Elements`, `Cells` in the MC modules) include what each
branch of its parser asks for: absent keys, values of a type nobody expects, blank
and torn lines.

### Definitions marked as slips

Some modules hold, before a definition, a variant that starts with the comment
`Slip:`. It is that definition with one plausible mistake (a guard dropped, an
order swapped). `PROJECT.json` ("mutants") names, for each property, the slip that
the property catches when it replaces the original; nothing else uses them.

## 3. The runs

| run | what it asks | states |
|---|---|---|
| `collector_race` | two writes by an agent at any moment of hashing and copying | 207,647 |
| `collector_crash` | two profiles that share paths, all kinds of options, a failing call, a crash anywhere, a second run into the same `--out` | 2,314,511 |
| `analysis_case` | two processes that ingest, re-ingest with a fixed parser, ingest an empty source and scan, starting from nothing or from a file of each kind, with one failure or crash anywhere | 349,946 |
| `analysis_live` | two ingests that compete for the write lock | 8,600 |
| `rules_scan` | six packs over every case of up to five of nine events, in every order the query may give them | 32,564 |
| `serve_grow` | two requests of each kind and listings of two rows a page, while three ingests and two scans land | 84,056 |
| `locate_claims` | a machine alive under three environments and mounted, a Windows profile, and a hundred profiles with odd names | 27,339 |
| `parse_transcripts` | every file of two to four elements of every line or document format | 97,792 |
| `parse_stores` | stores of every product, whole, broken and cut | 59,381 |

What they show:

* `collector_race`: `UnflaggedHashWasHeld`, a hash whose entry is not flagged
  `changed_while_reading` is the hash of a content the path really had at one
  moment. `QuietFileIsExact`, a path that nobody wrote to is described and copied
  exactly, and not flagged.
* `collector_crash`: `QuietBundleVerifies`, a run on a quiet endpoint with no copy
  cut short leaves a bundle that verifies; `VerifiedBundleIsWhole`, nothing a crash
  leaves verifies unless the manifest lists every path that was matched;
  `OneRunPerBundle`; `DecidedOnce`; `NothingDropped`; `SecretsStayOut`, which holds
  of the bytes under `files/` at each moment and not only at the end.
* `analysis_case`: the case keeps the promise of `CasePromise`; a bundle in the case
  is there with all of a reading (`CommittedIsWhole`); no row without the whole
  schema (`RowsNeedSchema`); findings rest on evidence and on a recorded scan
  (`FindingsAreExplained`); the number of new events an ingest reports is the growth
  of the case although others write (`ReportIsTheGrowth`); a rule without findings
  was run (`SilenceIsRecorded`); after exit code 2 nothing of an ingest landed, after
  0 or 3 its bundle did (`ExitTellsTheCase`). After 1 either may be the case: 1 is
  "files nothing claims", and also a traceback (see section 6).
* `analysis_live`: `IngestLands`, an ingest that found a case lands.
* `rules_scan`: `FindingsAreWhatIsAsked`, the findings are what the rules ask for
  and do not depend on the order of what is tied; `NothingIsOverlooked`, a condition
  that a field contains words misses no place that the field names, nor one a list
  deeper; `QuotedIsWhatFired`, a finding quotes of each event a value that the rule
  needs, or says how many it left out, and nothing it excludes; `BurstIsLongest`.
* `serve_grow`: `ListingIsFaithful`, a client that pages misses nothing that was
  there when it began, meets a row twice only if an ingest landed, and finds each
  session it was told of; `NoAnswerContradictsItself`; `BodyIsNoRequest`;
  `ListingEnds`.
* `locate_claims`: `NothingUnsaid`, of every pattern the bundle says where it was
  searched or why not; `SearchesBeginInPlace`, in the profile and in the image;
  `NamesSurvive`, two paths are never one name in a bundle; `AttributedAlike`, of
  a file the matcher knows the entry by which the collector found it, among others, and
  of several entries that spell out a file's place a bundle and a bare tree give it to
  the same one.
* `parse_transcripts`: `IdentitiesDistinct`; `InForceWhereItStands`, the session, the
  folder and the time of an event are those that were said where it stands;
  `NothingIsLost`, each element, and of a history each line, is in an event;
  `ExpandedIsWhatWasPacked` of git's deltas; `BatchesAsWritten` of a log cut anywhere.
* `parse_stores`: `RowIdentitiesDistinct`, of stores that are read in rows; `StampedByItsStore`, a message has the
  directory of its own session, wherever its row is; `ReadOrSaid`, what was not read
  is said; `LiveIsCommitted` and `RecoveredIsNotLive`, a page store is read as of its
  last commit and nothing of it is told as removed.

Each property is known to be able to fail: its mutant in `PROJECT.json` breaks it
under the configuration of its own run.

### Bounds, and why they are enough

* Two paths and two profiles: one path suffices for what happens to a file, the
  second for what one file's steps do to another (the open descriptor, the partial
  copy, the shared manifest). The entries are a broad glob, one that names a file,
  and a credential entry that is *not* the most specific claim on `f1`.
* Two writes and three inodes, with files of two blocks: enough for a write during
  the hash followed by one that could hide it, and for a replacement by a new inode
  that is written again. One write with one block in the larger `collector_crash`.
* `MaxFaults` = 1: the code handles each failure where it happens and keeps nothing
  between two of them but entries and errors. `MaxRuns` = 2: the second run meets
  what the first left; a third would meet the same.
* Two processes and three commands: the write lock admits one at a time, so each
  interleaving is between a holder and one other; three commands let a process run
  twice beside another (ingest, re-ingest, scan). A source has two entries, one read
  and one withheld or disputed; a parser gives up on one record.
* `Statements` = 2 (the code has more): the first creates `case_meta`, the second
  stands for those after it. The proofs are for any number.
* `rules_scan`: a window of 2, a threshold of 2 and times `0..5` with ties: five of
  the nine events make groups with two bursts, one that is split by the span, and one
  of undated events only. The packs hold a rule of every operator family; one does
  not compile and one has an id twice. `FlattenDepth` = 3 (24 in the code) is
  reached, and `QuoteLimit` = 3 and `QuoteCount` = 2 (300 and 6 in the code) are passed.
* `serve_grow`: `MaxPage` = 2 with seven events gives listings of up to four pages,
  so that an ingest may land before, on and behind the cut; `MaxSent` = 2 requests,
  since a connection carries over only whether the last body was read.
* `locate_claims`: names of at most eight characters are whole and cut to six (200
  and 190 in the code), so that the cut, its tag and a device name meet.
* `parse_transcripts`: three elements are one that announces, one that another
  session announces, and one that inherits. Histories, packs and logs have up to four
  (an entry that spans lines, and its neighbours), formats with many kinds of elements
  two. The numeric limits (`MaxLines`, `MaxObjects` …) are so small that each is passed.
* `parse_stores`: up to three rows in any order over the tables of a store; `MaxRows`
  = 2; up to four transactions of an LMDB writer over twelve pages, so that pages are
  reused, each interrupted anywhere or not. Those of a prompt library write both names
  of its two databases, a database and a key that are no prompt's, and a version over
  another; `MaxRecovered` = 2 (500 in the code) is passed.

No symmetry is used: the instances are asymmetric (claims, sources) or small.

### Fairness and deadlock

Two runs assume fairness. In `analysis_live`, `FairSpec` is weak fairness of each
process' own steps, which the operating system's scheduling gives a running
process. Weak fairness does not promise that a process waiting for SQLite's lock
gets it; here it does because each process has finitely many commands
(`MaxInvocations`) and so the lock is eventually left alone. `Patient = TRUE`, in
that run only, says that no wait exceeds the busy timeout: with longer waits the
code gives up (`Busy`), and in the other runs it may. Failures are switched off in
that run, since a process that crashed does not land its ingest.

In `serve_grow`, `Fairness` is weak fairness of the server's and the paging client's
next step together: a reader never waits for a writer in WAL mode, so the thread that
answers is always able to go on. Nothing is assumed of new requests, ingests or
scans; `ListingEnds` therefore also says that ingests that land while a listing is
read cannot keep it from ending, which holds because finitely many of them exist.

The programs are batch programs that end, and their invocations are bounded, so
every configuration says `CHECK_DEADLOCK FALSE`. What ends early is covered by
properties of the final state (`QuietBundleVerifies`, `ExitTellsTheCase`) and by
`IngestLands`.

### Runs in which the source disagrees with what it says of itself

Three runs end in a counterexample, on purpose. Each checks one sentence of the
repository, quoted in `PROJECT.json` ("findings"), which the code does not keep:

| run | the sentence | what happens |
|---|---|---|
| `locate_mounted` | `collect.py:13716-13718`: a project root read out of the agent's own state is put under the mounted root | it is dropped before, because the recorded directory is not one of the machine that reads the image |
| `parse_identities` | `tests/unit/test_ingest.py:695-703`: no parser hands out two events with one identity | two files read by one call of Cline's command line, and the case keeps the first |
| `parse_log` | `parsers/leveldb.py:170`: every put and delete in the write-ahead log | a batch whose first fragment has no bytes is taken for one without a start |

In the runs that pass, `SearchesBeginInPlace` speaks of where a search begins and
not of links, `AttributedAlike` of choices among entries that spell out a file's place,
`BatchesAsWritten` of logs whose records do not begin with an empty fragment, and
`IdentitiesDistinct` of all formats but `cline_messages`, `cline_hooks`, `registry` and
`git_index`; each says so in its statement.

## 4. What is proved

The proofs are for every value of the constants that meets the assumptions:
any set of paths, entries, profiles, processes, sources and rules, any number of
writes, failures, crashes and invocations, files and tables of any length with any
elements and rows.

### Collector (`CollectorProofs`)

| theorem | property | rests on |
|---|---|---|
| `TypeInvariant`, `UnflaggedHash` | `TypeOK`, `UnflaggedHashWasHeld` | `IInv` |
| `DecidedOnceHolds` | `DecidedOnce` | `IInv` |
| `SecretsHeldBack` | `SecretsStayOut` | `SecretInv` |
| `OneRunWrites` | `OneRunPerBundle` | `WriterInv` |
| `NothingIsDropped` | `NothingDropped` | `DropInv` |
| `VerifiedIsWhole` | `VerifiedBundleIsWhole` | `BundleInv`, `DropInv` |
| `QuietIsExact` | `QuietFileIsExact` | `QuietInv` |
| `QuietVerifies` | `QuietBundleVerifies` | `QuietInv`, `EndInv`, `BundleInv` |

`UnflaggedHashWasHeld` is not inductive: it speaks of files that are finished. The
invariant `IInv` adds what is known of the file in progress. `HashInv` is the heart:
*as long as the path's stamp is the one of its first stat, the digest is a prefix of
the content the path holds now*, and at the second stat it is all of it. A write
either changes the stamp, which ends the claim, or goes to another inode; that
needs `EndpointInv` (no two paths share an inode, stamps are not ahead of the clock,
the present content is in the history). `SecretInv` adds that bytes with no entry
can only be those of the path being copied, whose claims were asked before; it needs
that a run which is no dry run has `--out` to itself, and so covers crashes.

`QuietInv` is `HashInv` turned round: a path nobody wrote to since it was examined
still has the stamp of that moment, so the digest, and then the copy, is a prefix of
what it holds, and all of it when it is finished. `BundleInv` says how far a run has
come by what is on disk: a whole manifest is there only after the walk, and after the
walk each path that was matched was taken up; with `DropInv`, that a path taken up has
its entry unless it is the one being read, a bundle that verifies lists them all.
`EndInv` is what is known when `main` has returned: the last file is not half copied,
and of each entry whether its bytes and its hash belong together.

### Case, ingest and scan (`AnalysisProofs`)

| theorem | property |
|---|---|
| `ControlHolds` | the lock is held by exactly the process inside a transaction |
| `SchemaBeforeRows` | `RowsNeedSchema` |
| `CaseKeepsItsPromise` | `KeepsItsPromise`: `Analysis` implements `CasePromise` |
| `TypeInvariant` | `TypeOK` |
| `BundlesAreWhole` | `CommittedIsWhole` |
| `FindingsRest` | `FindingsAreExplained` |
| `ReportedIsGrown` | `ReportIsTheGrowth`, an action property |
| `ExitIsTrue` | `ExitTellsTheCase` |
| `SilenceIsOnRecord` | `SilenceIsRecorded` |
| `LandedLands`, `ScanStores` | a finished transaction is one step of `CasePromise` |

The argument. (1) `Control` is inductive by itself. (2) To show that a commit is one
step of the promise one must know what the transaction has done since it began,
although other processes ran in between. That is `Inv`: `CaseOK` of the committed
case; `WorkOK`, the uncommitted one extends the committed one; `Knows(p)`, what a
process has read and relies on later (the schema statements it ran, the findings of
the events it saw); `HasDone(p)`, how far the reading has been written (`Between` two
entries, `Amid` one, `Landed`). (3) `Kept(p)` is the interface of a step: the case
only grows and another process' transaction does not see it. `KnowsStays` and
`HasDoneStays` show that then nothing another process knows is lost, which is what
keeps the proof one lemma per action rather than one per pair of actions. The
scan's stale snapshot is settled there (`SeenStays`): events are never rewritten,
so what rules make of the events that were read stays what they make of them.
(4) `InvStep` gives `Inv' /\ [Promise!Next]_Rows`, hence the refinement.
(5) `BundlesAreWhole` and `FindingsRest` are then proved of the *abstract* step
(`PromiseGrows`, `WholeStep`, `ExplainedStep`), with no word of processes: that
is what the promise is for.

(6) What a command says of itself needs what it remembers besides: `Counted`, that
beside an open ingest the uncommitted events are the committed ones and as many more
as were counted (nobody else commits meanwhile, because the lock is held);
`ToldOfIngests`, that a command is past its commit exactly when its bundle landed;
`RecordedFirst`, that a scan reports after its run is in the case. `OpenRests`,
`IngestRests`, `ScanRests` and `OthersRest` say once what a step leaves to the other
processes.

### Scan (`ScanProofs`)

| theorem | property |
|---|---|
| `BurstHolds` | `BurstIsLongest` |
| `FindingsHold` | `FindingsAreWhatIsAsked` |

`FindingsAreWhatIsAsked` says of *sets* of events what a rule asks for; the code has
lists, buckets and two positions. `ScanInv` is the bridge.

* `ReadInv`: each bucket has, of the events read so far, those that meet the rule, in
  groups of one key (`BucketOK`); its lists ascend, so each is a set with an order
  (`SliceCounts`). That the key of a list of names, absent ones included, is agreement
  in what the rule groups by is `KeyAgrees`. `UnseenOK` counts the events of no rule.
* `DivideOK`: the dated events of the group, in the order of the query, are in the
  order of their times (`TimesSorted`), whatever the query leaves tied.
* `Pass` is the pass: all events behind `start` are too far from the one at `end`
  (`LeftBehind`), and no burst that ends before `end` is longer than the one kept, nor
  as long and earlier (`NoneMissed`).
* `WithinIsSlice` and `LargestIsKept` tie them: the events inside one span of a time
  are next to each other among the dated ones, so the first of the longest runs is the
  first of the largest sets; and events of one time are in or out together.
* `FiresSuffices`: a list is long enough and says enough just when its set does; to
  count different values one picks a representative of each (`Representatives`).
* `EvidenceOK`: what was found is what is owed of the events and groups that the scan
  has been through. In the end all of them are, and what is owed is what is asked
  (`OwedIsAsked`).

A least and a greatest element of a set of numbers (`LeastNat`, `GreatestNat`) come
from the library's theorem on well-founded sets, which has no operator parameter.

### Serve (`ServeProofs`)

| theorem | property |
|---|---|
| `ListingsAreFaithful` | `ListingIsFaithful` |
| `BodiesAreDropped` | `BodyIsNoRequest` |
| `AnswersAgree` | `NoAnswerContradictsItself` |

`Shape` is the type invariant with the order of a request's queries. A listing is cut
by OFFSET out of rows into which others insert. The proof speaks of *ranks*: the rank
of a row is how many rows are not behind it. Rows only get in, so a rank never falls
(`RankGrows`), and a page is the rows with ranks in an interval (`PageFacts`).
`PageInv` then says, for each row that was there at the beginning, that it has been
given if its rank is behind the cut, and that a row is given once more only if an
ingest pushed it over the cut. `LogInv` is the same for a log, session by session: a
session that was read is still in the case when its rows are asked for. `AnswerInv`
says of each answer of several queries what the later ones find of what the earlier
found; it holds because the case only grows.

### Locate (`LocateProofs`)

| theorem | property |
|---|---|
| `NothingIsUnsaid` | `NothingUnsaid` |
| `SearchesBegin` | `SearchesBeginInPlace` |
| `NamesDoSurvive` | `NamesSurvive` |
| `EncodedReadsBack` | every name that is not cut is read back as it was |
| `EncodedApart` | two names that are not cut are never written alike |

`LocateInv` says that every search begins in its place (`InPlace`: below
the profile, a working copy, a mount, or where a pattern says for everyone). Where a
search goes from there, through links, the theorem does not say. What is to be shown is about the operators that make a glob of a pattern, and so about
prefixes of paths: what is put below a directory stays below it (`PrefixUnder`,
`HeadInPlace`), a path of another machine put under a mounted root is below the root
(`ReanchoredFacts`), and each branch of `expand_paths` searches, refuses or is one of
the two that nobody has to be told of (`SearchSays`).

Names are read back by positions. `Marks` says of a written name where each character
ends, and that it stands there alone or as its code (`StandsAt`). Escaping has such
marks (`EscapedSpells`); giving the last dot its code (`KeepEndSpells`) and the first
letter of a device name (`NoDeviceSpells`) moves them, since a character that gets a
code stood alone; and `DecodeSegment` reads the name from any text that has them
(`SpelledReadsBack`). What is recursive, `FlattenSeq` and the reading, is unrolled by
a least counterexample (`LeastOf`, `UpTo`, `DownTo`), which needs no induction theorem.

`NamesInv` says that a file is at the place its path makes for it, with a hash or
without, and that `used` knows whose place that is. `NamesDoSurvive` has two
hypotheses, both on the machine and both true in every state of `locate_claims`:
`TagsAreTheirs`, that no two paths have one hash and no file's name ends in "~" and
the hash of another path; and `PathsAreOrdinary`, that a path begins on a drive, or
with a name that looks neither like a drive nor like what a collecting tool puts above
a tree. Without the second the property is false (section 6).

### Line and document files (`TranscriptsProofs`)

| theorem | property |
|---|---|
| `AlwaysIdentitiesDistinct` | `IdentitiesDistinct`, of the formats it speaks of (not `cline_messages`, `cline_hooks`, `registry`, `git_index`) |
| `AlwaysNothingIsLost` | `NothingIsLost`, of `AlwaysElementsTold` and `AlwaysLinesConserved` |
| `AlwaysInForceWhereItStands` | `InForceWhereItStands`, of `AlwaysStampedAsInForce` and `AlwaysOwnTime` |
| `AlwaysExpandedIsWhatWasPacked` | `ExpandedIsWhatWasPacked` |
| `AlwaysBatchesAsWritten` | `BatchesAsWritten` |

The constants are the elements of each format and how many a file has, so the theorems
are about every file. None of the properties is inductive: each compares what was told
with the whole file, and what a reader still carries is in neither.

* What each reader answers an element with comes first, as one lemma per operator:
  the answer is at the element's own place (`Own`), it is there (`Tells`), no two parts
  of it share an identity (`Distinct`), and it has the stamp that was carried. The
  lemmas on lists, on lists of lists (`FlattenSeq`) and on `Own`, `Tells` and `Distinct`
  are `SequenceLemmas`, which `DatabasesProofs` uses too.
* `ReadByElement`: the events are of the elements before the next one, and each of those
  has one. Files that are read by elements that do not wait for others need no more.
* `ReadInEntries` is that for histories, logs and scripts, where an entry spans lines.
  The lines whose entry is still being gathered (`Starts`) are those that no event has
  taken, so that the lines are conserved at each step: what is told and what is carried
  weighs as much as what was read. At the end of the file nothing is carried.
* `ReadTimes`: a stamp that was carried is the one of the line before, and of no other.
* `ReadInForce`: what a reader carries is what the file has announced last up to the
  next element (`InForce`), a recursion over the file that no reader computes.
* `ReadInPack`: an object that was expanded is the one that was packed, and one that was
  not has no base before it or stands at the end of too long a chain (`Expanded`), of all
  objects that were read, since any may be the base of the next. `Linked` is of how git
  writes a pack: an offset leads back to an object of the same kind.
* `ReadInBatches`: of each record of a log the entries that were told are the first of
  those it was written with, and the fragments that are pending are what was read of the
  last one (`LogWritten`); when the log is closed, all of them, or the file is said to
  have more (`LogClosed`). `LogAsLeft` says how a writer leaves a log, wherever it was
  interrupted: only the last fragment is cut, and one that goes on follows one that may.
* `ReadAsItStands` is for the formats that are told as they stand: the events of one
  file have places of their own, also when one element is told in pieces.

`Readers` defines `Flattened` and `Members`, which the community modules have too: an
instance of a module that extends `SequencesExt` or `Folds` would bring in copies of
their operators that the provers cannot tell to be the same.

### Stores (`DatabasesProofs`)

| theorem | property |
|---|---|
| `AlwaysRowIdentitiesDistinct` | `RowIdentitiesDistinct`, of every format that is kept in rows |
| `AlwaysReadOrSaid` | `ReadOrSaid` |
| `AlwaysStampedByItsStore` | `StampedByItsStore`, with `AlwaysFolderOfTheWorkspace` |
| `AlwaysLiveIsCommitted` | `LiveIsCommitted` |
| `AlwaysRecoveredIsNotLive` | `RecoveredIsNotLive` |

A store is any choice of rows for the tables of a product, in any order, with row numbers
or without, under any suffix, and ends where reading it fails.

* `StoreKept` says that the open store was put together so (`StoreIs`). What a reader
  goes through is then each row that can be read, once, in the order of the tables
  that it asks for first, and a record for each table that stops (`Takes`, `Ordered`,
  shown of every reader's order by `InOrderTakes`).
* `StepTakes` is the interface of the parsers: a step takes the next item and answers it
  at its own place (`Answered`), so `ReadByPlace`, that identities are distinct and each
  event is of an item that was taken, and `ReadWholly`, that each item that was taken has
  an event, are kept by one argument for all of them. An item may be answered with
  nothing in one case, a reply in the store of Hermes that says nothing (`Passed`).
* `StampedByItsStore` relates two tables. `ReadHeaders` says what is carried: the headers
  of the sessions and threads whose rows were taken so far, and no others. When a
  message is taken all rows of the tables before its own were (`TakenBefore`), so what is
  carried of its session is what the row of that session says (`CarriedIs`), and there is
  one such row or none (`KeysAssumption`). Last, the property's `HomeOf` chooses that row
  (`HomeIs`, `KnownHome`), and `ReadInHome` says of each event, whichever branch of a
  reader made it, that it has the directory.
* `ReadInFolder`: what follows the first event of an editor's store is in the folder
  beside it, and the first event is the one that says if none could be told.

A page store is what its writer left after any changes, each of them committed or cut
before or within the writing of its meta page, and on any twelve pages or more.

* `IsPageStore` holds of it after every transaction; `TransactionKeeps` and `PageFileIs`
  carry it along `PageFile`, a function over the transactions, by induction on their
  number. The two meta pages take turns, and the one that is not of the last commit is
  older or torn (`MetasOf`); the trees of the last commit stand, each on a page of its
  own, as that commit made them (`TreesOf`); what is in use by that commit and the one
  before is few pages (`UsedIs`), so there are fresh ones, and writing to them changes no
  tree of either.
* What a reader makes of such a store follows: the meta page that it takes for current
  is the one of the last commit, its walk from a root that is a leaf is that leaf, and
  the records of the main tree and of the databases that it names are those of the
  commit, each once (`LiveIs`). This needs `IsReadWholly`, that the limit of a reader is
  not below the number of records; beyond it the code says that it stopped.
* What is recovered is of a leaf that the walk does not reach, and each record of a leaf
  is one that some transaction wrote; that a prompt without a live record under its key
  is told as removed, and no other, is read off what `LivePrompts` and
  `RecoveredPrompts` told when the store was opened (`PromptsTold`). `LeftByWriter` ties
  the file to the transactions in every state.

### Assumptions

Types of the constants: `EndpointAssumption`, `CollectorAssumption`, `CaseAssumption`,
`AnalysisAssumption`, `ServeAssumption`, `WindowsAssumption`, `PathNamesAssumption`,
`CodesAssumption` (a code is two hexadecimal digits, a device is named by letters). In
them, a set of claims has a most specific one (the code sorts a finite list); a
source's entries and a parser's records are lists; an order of rows lists every event
that may land once.

Sentinels that are not values: `NoneIsNoEntry`, `NoneIsNoReason`, `NoneIsNoExitCode`,
`NoneIsNoOffset`.

What data the code accepts looks like: `RequestsAssumption` (a request has one of the
operations, and a key just when it asks for a session), `CatalogueAssumption` and
`GivenAssumption` (a pattern begins with one of the heads that `expand_paths` knows;
the tables of placeholders hold paths), `PoolAssumption` (an event has a time in
seconds or none, and the fields of `EventView`), `PacksAssumption` (an aggregate of a
rule file has the types its schema asks for).

Of files and stores: `Marks` (what stands for an absent, an unexpected, a blank and a
torn element is no element), `ElementsFit` and `StoresAssumption` (what a library hands
to a parser as a list is one, and as a mapping has a key once; an object of a pack and
a fragment of a log are of one of the kinds there are; a store has a table of a name
once), `KeysAssumption` (the identifier of a session or thread is the key of its
table, so no two rows of one table have the same), and `Bounds` of both modules (limits
and lengths are natural numbers). Of LMDB: `ChangesAssumption` (a change is of one of
the databases, the order of keys tells keys apart, a meta page that was written is no
torn one) and `PagesAssumption` (finitely many pages, twelve at least, so that two are
free beside those of two commits). Nothing else is assumed of what columns and fields hold, nor of
the order of elements and rows. TLC evaluates all of them in every run.

## 5. What is only model-checked

* `IngestLands` and `ListingEnds`: liveness under fairness, out of the prover's reach.
* `AttributedAlike` of `Locate`: it is a property of this catalogue on these machines,
  and is false of arbitrary ones. The matcher ignores case
  and is shown a path alone, so with entries that differ by case it chooses, on a file
  system that does not, one that the collector never considered.
* `NothingIsOverlooked` and `QuotedIsWhatFired` of `Rules`: conditions and values are
  trees, what is said of them would need induction over data, and `Rules` is the one
  module that declares `RECURSIVE` operators. What `Scan` does with a condition is
  proved for any.
* What stands before the first command of a fish history is told as one unread record;
  the properties weigh the lines of its commands.
* The three counterexamples, which are facts about one instance.

That the places of a page store's events are distinct is not claimed: section 6.

## 6. What is not modelled, and what to know of the code

* Bytes and text: hashing, zlib, snappy, protobuf, decryption, the syntax of regular
  expressions, SQLite's files, the libraries that parse JSON, YAML, TOML and plists.
* Times: an event has the time of its record, or none. `normalise_ts` is a pure
  function of a text.
* Of the floors: `text_config`, `prose_document`, the front matter of instructions;
  of log stores: the sorted tables and the manifest; of a tree: its walk and its gaps;
  of the timeline: its filters and output formats; of the server: instructions, the
  artifacts view, the rendering of cells.
* Users, hosts and facets of an event are functions of the event and are part of
  its row; the cache of their numbers on a `Case` survives a rollback, but every
  command leaves its `Case` then.
* The filesystem does not lose what was written: a crash is that of the process. A
  power failure, and SQLite's own recovery, are outside.
* The PowerShell collector, exporters, catalogue, rule packs, viewer, unified log,
  scripts: see the notes in `PROJECT.json`.

Read while modelling, and not made runs: some because the text can be read both
ways, some to keep the runs to what the modules are for.

Collector and bundle:

* `docs/BUNDLE_FORMAT.md:294` says that the hash matches the bytes stored; the path is
  opened again for the copy (`collect.py:14213`), and only `verify_bundle` compares them.
* `verify.py:66` calls an unexpected file one that was added after collection; a copy
  that fails half way leaves its part.
* `docs/BUNDLE_FORMAT.md:338-340`: the exit code asks for entries before it asks for
  errors (`collect.py:14873`), so a run that found no profile ends with 3, not 1.
* `collect.py:13775` promises to "expand a glob without following symlinks into
  directories outside the tree", and 13797-13798 that a link is not to take the
  collection out of the profile. Only the walk of a `**` and the last name of a path
  (`collect_file`) are asked about links: a name, or a single star, in the middle of a
  pattern is walked through when it is a link, and so is the directory where a walk
  begins. With `/root/.codex/logs` a link to `/srv/conf`, as in `locate_claims`, the
  model collects files of `/srv/conf` for `~/.codex/logs/**`.
* `collect.py:13561-13563` and `match.py:100-102` promise that the collector and the
  matcher prefer the same of two entries. They measure a pattern that begins with a
  placeholder differently (`collect.py:13574-13577` leaves out what the placeholder
  stands for, `match.py:173-195` counts it), so of a pattern that spells out a place and
  one that does not a bundle and a bare tree may choose differently: on a Mac the task
  file of Cline in the insiders' edition of the editor is the editor's
  (`vscode.user_data_roots`) for the one and Cline's for the other. Ingest reads a file
  with another claimant's parser when the entry of its choice has none
  (`ingest.py`, `_parse`), so that is how a file is labelled, and not always how it is read.
* `tree.py:207-212` says of a link to a directory that "the link itself is still
  yielded, so the fact that it was there is recorded". `os.walk` counts such links among
  the directories, and `_walk` lists files only; the collector does record them.
* `collect.py:13129` says that `encode_segment` is reversible, and the proof needs
  names that are text: a byte that is no UTF-8 is written as its code and read back as
  the character of that number (`tree.py`). A surrogate that stands for no byte, which
  only a Windows volume can hold, makes `_pct` raise, where its comment (13120-13124)
  promises that no name can abort a collection.
* `tree.py` takes a first name of one letter for a drive and strips a first name that
  collecting tools use (`files`, `uploads`): a path that begins so on the machine, and
  a share (`UNC`), is not read back from a tree without a manifest.

Case, ingest and scan:

* `case.py:8-10` promises a re-ingest after a parser is fixed "without wondering
  whether counts are now wrong", and `cli.py:867-869` the same of a re-scan; the old
  reading's events, and the old findings, stay beside the new ones.
* `case.py:114-116` promises a sentence for a file that is no case; the first pragma
  raises before that check.
* `cli.py:324`: a busy timeout is an exception nothing catches and ends with 1, the
  code of an ingest that left files unclaimed.
* `schema.py:31-32`, `schema.py:305`: the schema is not one transaction; a case whose
  creation was cut short has tables and no version, and is then refused.
* `tree.py:97-99`: a tree's bundle is named by its path, so another tree at the same
  path is read into the bundle of the first.

Rules:

* `model.py:11-13` and `test_rules.py:263` promise that a misspelled field does not
  load; that is so of `match`, but `group_by` and `distinct` are asked of an event by
  `getattr` (`engine.py:250`): a misspelled one puts all events into one group
  (the pack with `Rapid` has one).
* `select.py:198`: a rule "stays correct when a producer nests one level deeper". It
  does for `contains`, as `NothingIsOverlooked` states it. For `equals`, `startswith`,
  `endswith`, `glob`, numbers and a `regex` with an anchor (the shipped pack has one,
  `AFX-DANGEROUSCOMMANDS-001`) the value is then a list, compared as JSON text
  (`select.py:207-218`), in which words with quotes or backslashes are missed.
* `engine.py:351`: a finding "quotes the value the condition actually accepted". It
  also quotes leaves of an arm of `any` that failed elsewhere, and leaves inside a
  `none` of an `all`; `QuotedIsWhatFired` speaks of leaves the rule needs or excludes.
* `engine.py:275-276`: of "every maximal run" one per group is kept, before the test
  for different values.

Parsers:

* `docs/adr/0035` promises that a page store with one torn meta page is recovered;
  `looks_like_lmdb` asks for the first one and refuses it.
* `git_pack.py` resolves a delta by reference only against what was read before it.
* Places that can meet: a registry value named `(default)`, the stages of an index
  entry, a key of LMDB longer than 120. Of a prompt library, the records of one page
  that belong to another database or whose key is no prompt's share `page:N`
  (`prompt_library.py:191-202`, 255-262), and the note that reading stopped after 500
  recovered records has the place and the kind of the store's own note (205-206,
  236-248), although the comment at 340-344 says why two events may not. The model has
  these places, and `RowIdentitiesDistinct` is of stores that are read in rows.
* `docs/adr/0009`: "nothing that exists in a log may be absent from the view or from the
  model". Of Hermes, an assistant's row without a reply, items, reasoning and calls is in
  no event (`hermes.py:491-593`), with its time and what it cost; `ReadOrSaid` speaks of
  all rows but these (`Wordless`).
* `sqlite_store.py:252`: a table with a column of its own called `rowid` hides the number
  of the row, and its rows are then placed by that column.
* `base.py`, `_from_epoch`: the comment's years do not fit the code's 1e11. An offset
  of a day or more raises outside of the `try` around it.

## 7. Plan

In the order of what matters to an investigation:

1. Collector, bundle and verification: done, every safety property proved.
2. Case, ingest and scan, with `CasePromise`: done, with the refinement and every
   safety property proved.
3. The scan with its groups and windows: done and proved; conditions: done.
4. Serve, over `CasePromise`: done, every safety property proved.
5. Places and attribution (`Locate`): done, with three properties proved; the walk of a
   tree is left.
6. Parsers: done but for what section 6 lists, with every property of `Transcripts` and
   of `Databases` proved; times (`normalise_ts`) and the sorted tables of LevelDB
   are next.
7. The unified log: what of an event survives writing and reading it back.
8. Proofs: every safety property that can be proved for arbitrary constants is; what
   stays with TLC is listed in section 5.

A run is added when it asks something new.
