----------------------------- MODULE MCAnalysis -----------------------------
(***************************************************************************)
(* Small instances of Analysis: two processes, one source that is read by  *)
(* two versions of its parser, one with files nothing claims, one that is  *)
(* empty, and a rule beside an aggregate rule.                             *)
(***************************************************************************)
EXTENDS Analysis, TLC

CONSTANTS transcript, config, b1, b2, b3, old, new, stamp

Record(locator, kind, payload) ==
    [locator |-> locator, kind |-> kind, payload |-> payload]

(* A transcript whose parser gives up on its second record, the same one   *)
(* after the parser was fixed, and a file the collector only described.    *)
Transcript ==
    [path |-> "session", sha |-> "h1", collected |-> TRUE, local |-> TRUE,
     mtime |-> stamp, artifact |-> transcript, claimants |-> <<>>,
     logless |-> FALSE,
     reads |-> (transcript :> <<Record("1", "user.prompt", old),
                                Record("2", "unparsed.record", old)>>)]
FixedTranscript ==
    [Transcript EXCEPT !.reads =
        (transcript :> <<Record("1", "user.prompt", new),
                         Record("2", "tool.call", new)>>)]
Withheld ==
    [path |-> "auth", sha |-> None, collected |-> FALSE, local |-> FALSE,
     mtime |-> None, artifact |-> config, claimants |-> <<>>,
     logless |-> FALSE, reads |-> (transcript :> Raises)]

(* A file attributed to an entry nothing parses, read under another claim  *)
(* by a parser that raises, and a database no entry claims.                *)
Disputed ==
    [path |-> "notes", sha |-> "h2", collected |-> TRUE, local |-> TRUE,
     mtime |-> stamp, artifact |-> config, claimants |-> <<transcript>>,
     logless |-> FALSE, reads |-> (transcript :> Raises)]
Stray ==
    [path |-> "stray", sha |-> "h3", collected |-> TRUE, local |-> TRUE,
     mtime |-> None, artifact |-> None, claimants |-> <<>>,
     logless |-> TRUE, reads |-> (transcript :> Raises)]

First == [bundle |-> b1, manifest |-> "m1", entries |-> <<Transcript, Withheld>>,
          gaps |-> {[kind |-> "refused_pattern", detail |-> {"~/**"}]}]
FirstFixed == [First EXCEPT !.entries = <<FixedTranscript, Withheld>>]
Second == [bundle |-> b2, manifest |-> None, entries |-> <<Disputed, Stray>>,
           gaps |-> {[kind |-> "no_manifest", detail |-> {}]}]
Empty == [bundle |-> b3, manifest |-> "m3", entries |-> <<>>, gaps |-> {}]

Rule == [id |-> "r", sha |-> "r1", accepts |-> {old}, least |-> 1]
Burst == [id |-> "q", sha |-> "q1", accepts |-> {old, new}, least |-> 2]

Ingest(s) == [op |-> "ingest", source |-> s]
ScanWith(rules) == [op |-> "scan", rules |-> rules, store |-> TRUE]

(* A re-ingest after the parser changed, beside other ingests, a source    *)
(* without files and scans that store their findings or only print them.   *)
MCAll == {Ingest(First), Ingest(FirstFixed), Ingest(Second), Ingest(Empty),
          ScanWith({Rule, Burst}), [ScanWith({Rule}) EXCEPT !.store = FALSE]}

MCIngests == {Ingest(First), Ingest(Second)}
=============================================================================
