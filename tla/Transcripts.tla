------------------------------ MODULE Transcripts ------------------------------
(***************************************************************************)
(* The parsers that read a file from its first element to its last, each   *)
(* over the files of its format.  A file is a list of elements out of      *)
(* Elements[format] (lines of a transcript, entries of a document), and a  *)
(* few fields of its own out of Files[format].  The reader opens it, takes *)
(* its elements one after the other, and closes it.                        *)
(***************************************************************************)
EXTENDS Readers, SequencesExt

CONSTANTS
    Elements,       \* of every format, the elements that a file of it may have
    Files,          \* of every format, what else a file of it may be
    Lengths,        \* of every format, how many elements a file may have
    MaxExpanded, MaxLines, SplitLimit, MaxDepth, MaxObjects, MaxEntries, MaxRows, MaxRecords

VARIABLES
    format, file,       \* what is read
    lines,              \* the elements of it
    items,              \* what there is to take of them once it is open
    at,                 \* the element that is next, 0 before the file is open
    carried,            \* what the reader carries from element to element
    events              \* the events so far

vars == <<format, file, lines, items, at, carried, events>>

Cla == INSTANCE ClaudeCode
Gem == INSTANCE Gemini
Cdx == INSTANCE Codex
Cop == INSTANCE Copilot
PiA == INSTANCE Pi
Cli == INSTANCE Cline
Con == INSTANCE Continue
Goo == INSTANCE Goose
His == INSTANCE Histories
Flo == INSTANCE Floors
Git == INSTANCE Git
Edi == INSTANCE Editor
Lev == INSTANCE Leveldb

(* What there is instead of a record is no record, and nothing is no text. *)
ASSUME Marks ==
    /\ Null # Odd /\ Blank \notin {Null, Odd, Torn} /\ Torn \notin {Null, Odd}
    /\ Null \notin {"unknown", "unexpanded", "baseless", "deep", "unapplied"}

(* What a reader takes for granted of an element that is there and is no   *)
(* torn line: that its lists are lists, and how fragments are named.       *)
Fits(f, rec) ==
    CASE f \in {"claude", "pi"} -> AList(Get(Get(rec, "message"), "content"))
      [] f = "qwen" -> AList(Get(Get(rec, "message"), "parts"))
      [] f = "gemini" -> \A key \in {"content", "thoughts", "toolCalls"} : AList(Get(rec, key))
      [] f \in {"goose", "cline"} -> AList(Get(rec, "content"))
      [] f = "cline_messages" ->
            LET content == Get(rec, "content")
            IN  /\ AList(content)
                /\ \A i \in DOMAIN Listed(content) :
                      Get(content[i], "type") = "tool_use" => Cli!Aims(content[i])
      [] f = "cline_hooks" -> Get(rec, "hookName") = "tool_call" => Cli!Aims(rec.call)
      [] f = "continue" -> AList(Get(rec, "toolCallStates")) /\ AList(Get(rec, "appliedRules"))
      [] f = "document" ->
            /\ rec.is = "list" => rec.of \in Seq(Range(rec.of))
            /\ rec.is = "mapping" => Flo!Entries(rec.entries)
      [] f = "cascade" -> Flo!Entries(rec.entries)
      [] f = "git_pack" ->
            /\ rec.kind \in Git!Whole /\ rec.body \in Seq(Range(rec.body)) /\ rec.base \in Seq(Range(rec.base))
            /\ rec.how \in {"whole", "offset", "reference"} /\ rec.back \in Nat
      [] f = "leveldb_log" ->
            rec.kind \in {"full", "first", "middle", "last", "unknown"} /\ rec.body \in Seq(Range(rec.body))
      [] f = "leveldb_table" -> rec.entries \in Seq(Range(rec.entries))
      [] OTHER -> TRUE

Documents ==
    {"cline", "cline_messages", "continue", "gemini_prompts", "document", "cascade", "registry",
     "git_index", "git_pack", "leveldb_log", "leveldb_table"}

ASSUME ElementsFit ==
    \A f \in DOMAIN Elements : \A i \in DOMAIN Elements[f] :
        \/ Elements[f][i] = Blank /\ f \notin Documents
        \/ Elements[f][i] = Torn /\ f \notin Documents \ {"document", "cascade", "git_index", "git_pack"}
        \/ Elements[f][i] \notin {Blank, Torn} /\ Fits(f, Elements[f][i])

ASSUME Bounds ==
    /\ \A f \in DOMAIN Elements : Lengths[f] \in Nat
    /\ {MaxExpanded, MaxLines, SplitLimit, MaxDepth, MaxObjects, MaxEntries, MaxRows, MaxRecords} \subseteq Nat

(* The documents that hold their entries under a key of their own. *)
ClineFile == IF file.name \in Cli!Lists THEN With(file, "value", lines) ELSE file
MessagesFile == With(file, "value", With(file.value, "messages", lines))
SessionFile == [index |-> file.index, stem |-> file.stem,
                value |-> IF file.index THEN lines ELSE With(file.value, "history", lines)]
RolloutFile == With(file, "lines", lines)
PromptFile == [value |-> IF file = Torn THEN Torn ELSE lines]

(* A pack, from the objects that were packed: how each is stored, and      *)
(* against which of the others.  A delta is what the two have in common    *)
(* at their start and then the rest.                                       *)
DeltaOf(base, target) ==
    LET same == {n \in 1..Lesser(Len(base), Len(target)) : SubSeq(base, 1, n) = SubSeq(target, 1, n)}
        common == Cardinality(same)
    IN  [against |-> Len(base), size |-> Len(target),
         ops |-> <<[is |-> "copy", from |-> 0, length |-> common],
                   [is |-> "insert", bytes |-> SubSeq(target, common + 1, Len(target))]>>]

Packed(i) ==
    LET object == lines[i]
    IN  CASE object = Torn -> Torn
          [] object # Torn /\ object.how = "offset" ->
                [kind |-> "offset", back |-> object.back, body |-> DeltaOf(lines[i - object.back].body, object.body)]
          [] object # Torn /\ object.how = "reference" ->
                [kind |-> "reference", ref |-> <<object.kind, object.base>>, body |-> DeltaOf(object.base, object.body)]
          [] OTHER -> [kind |-> object.kind, body |-> object.body]

Pack == [long |-> file.long, objects |-> [i \in DOMAIN lines |-> Packed(i)]]

(* What a writer can leave: an offset is that of an object of the same     *)
(* kind before it; a fragment continues the one before it, or begins a     *)
(* record, also when the record before was never ended, and the last one   *)
(* of all may be cut.                                                      *)
Writable ==
    /\ format = "git_pack" =>
          \A i \in DOMAIN lines : lines[i] # Torn /\ lines[i].how = "offset" =>
              i > lines[i].back /\ lines[i - lines[i].back] # Torn
              /\ lines[i - lines[i].back].kind = lines[i].kind
    /\ format = "leveldb_log" =>
          \A i \in DOMAIN lines :
              /\ lines[i].kind \in {"middle", "last"} =>
                    i > 1 /\ lines[i - 1].kind \in {"first", "middle"} /\ lines[i - 1].batch = lines[i].batch
              /\ ~lines[i].whole => i = Len(lines)

(* What is there to take of the file: a rollout is expanded before it is   *)
(* read, and what is read as a whole has no elements.                      *)
Whole == {"git_reference", "git_file", "git_object", "prose", "instruction", "memory", "copy", "local_history", "manifest",
          "workspace", "leveldb_file"}

Items ==
    CASE format = "codex" -> Cdx!Expand(RolloutFile).lines
      [] format = "cline" -> Cli!Entries(ClineFile)
      [] format = "continue" -> Con!Entries(SessionFile)
      [] format = "gemini_prompts" -> Gem!Prompts(PromptFile)
      [] format = "git_pack" -> Git!PackItems(Pack)
      [] format \in Whole -> <<>>
      [] OTHER -> lines

StartOf ==
    CASE format \in {"gemini"} -> Gem!Start
      [] format = "codex" -> Cdx!Start
      [] format = "copilot" -> Cop!Start(file.directory)
      [] format = "pi" -> PiA!Start
      [] format = "goose" -> Goo!LegacyStart(file.stem)
      [] format = "cline_messages" -> Cli!Start(MessagesFile)
      [] format \in {"shell", "recall", "bash"} -> His!Idle
      [] format = "fish" -> His!IdleFish
      [] format = "prompts" -> His!IdlePrompt
      [] format = "aider" -> His!IdleChat
      [] format \in {"log", "patterns"} -> Flo!Unread
      [] format = "script" -> Flo!ScriptStart
      [] format = "git_index" -> Git!IndexStart
      [] format = "git_pack" -> <<>>
      [] format = "leveldb_log" -> Lev!LogStart
      [] format = "leveldb_table" -> Lev!TableStart
      [] format = "document" -> file.configuration
      [] OTHER -> Null

(* What is told of the file before its elements. *)
Preface ==
    CASE format = "cline" -> Cli!Document(ClineFile)
      [] format = "cline_messages" -> Cli!Preface(MessagesFile)
      [] format = "manifest" -> Cli!ManifestEvents(file)
      [] format = "continue" -> Con!Preface(SessionFile)
      [] format = "gemini_prompts" -> Gem!PromptPreface(PromptFile)
      [] format = "script" -> Flo!ScriptPreface(lines)
      [] format = "registry" -> Flo!KeyPreface([values |-> lines])
      [] format = "prose" -> Flo!Prose(file, "unparsed.record")
      [] format = "git_reference" -> Git!Reference(file.path, lines)
      [] format = "git_file" -> Git!Bookkeeping(file.path, file.content)
      [] format = "git_object" -> Git!Loose(file.object)
      [] format = "instruction" -> Edi!Instruction(file, file.roots)
      [] format = "memory" -> Edi!Memory(file, file.roots)
      [] format = "copy" -> Edi!SnapshotCopy(file)
      [] format = "local_history" -> Edi!LocalHistory(file, file.index)
      [] format = "workspace" -> Edi!WorkspaceDocument(file)
      [] format = "leveldb_file" -> Lev!OtherFile(file)
      [] OTHER -> <<>>

(* What is told at the end of the file. *)
Finish ==
    CASE format = "codex" -> Cdx!Finish(RolloutFile)
      [] format \in {"shell", "recall"} -> His!FinishShell(carried)
      [] format = "fish" -> His!FinishFish(carried)
      [] format = "prompts" -> His!FinishPrompt(carried, lines)
      [] format = "aider" -> His!FinishChat(carried)
      [] format = "script" -> Flo!FinishScript(carried)
      [] format = "git_index" -> Git!FinishIndex(carried)
      [] format = "git_pack" -> Git!FinishPack(Pack)
      [] format = "leveldb_log" -> Lev!FinishLog(carried)
      [] format = "leveldb_table" -> Lev!FinishTable(carried)
      [] OTHER -> <<>>

Init ==
    /\ format \in DOMAIN Elements
    /\ \E i \in DOMAIN Files[format] : file = Files[format][i]
    /\ \E n \in 0..Lengths[format] :
          \E d \in [1..n -> DOMAIN Elements[format]] : lines = [i \in 1..n |-> Elements[format][d[i]]]
    /\ Writable
    /\ items = <<>> /\ at = 0 /\ carried = Null /\ events = <<>>

Open ==
    /\ at = 0
    /\ at' = 1 /\ items' = Items /\ carried' = StartOf /\ events' = Preface
    /\ UNCHANGED <<format, file, lines>>

Element == items[at]

Read(result) ==
    /\ at \in DOMAIN items
    /\ at' = at + 1 /\ carried' = result.carried /\ events' = events \o result.events
    /\ UNCHANGED <<format, file, lines, items>>

Kept(told) == [carried |-> carried, events |-> told]

ReadClaude == format = "claude" /\ Read(Cla!Take(at, Element, carried))
ReadClaudeHistory == format = "claude_history" /\ Read(Cla!TakeHistory(at, Element, carried))
ReadGemini == format = "gemini" /\ Read(Gem!Take(at, Element, carried))
ReadQwen == format = "qwen" /\ Read(Gem!TakeQwen(at, Element, carried))
ReadCodex == format = "codex" /\ Read(Cdx!Take(at, Element, carried))
ReadCodexHistory == format = "codex_history" /\ Read(Cdx!TakeHistory(at, Element, carried))
ReadGeminiPrompts == format = "gemini_prompts" /\ Read(Kept(Gem!TakePrompt(at, Element)))
ReadCopilot == format = "copilot" /\ Read(Cop!Take(at, Element, carried))
ReadPi == format = "pi" /\ Read(PiA!Take(at, Element, carried))
ReadGoose == format = "goose" /\ Read(Goo!TakeLegacy(at, Element, carried))
ReadCline == format = "cline" /\ Read(Kept(Cli!Take(ClineFile, at, Element)))
ReadClineMessages == format = "cline_messages" /\ Read(Cli!TakeMessage(at, Element, carried))
ReadHooks == format = "cline_hooks" /\ Read(Cli!TakeHook(at, Element, carried))
ReadContinue == format = "continue" /\ Read(Kept(Con!Take(SessionFile, at, Element)))
ReadShell == format = "shell" /\ Read(His!TakeShell(at, Element, carried))
ReadRecall == format = "recall" /\ Read(His!TakeRecall(at, Element, carried))
ReadBash == format = "bash" /\ Read(His!TakeBash(at, Element, carried))
ReadFish == format = "fish" /\ Read(His!TakeFish(at, Element, carried))
ReadPrompts == format = "prompts" /\ Read(His!TakePrompt(at, Element, carried))
ReadPromptLines == format = "prompt_lines" /\ Read(His!TakeLine(at, Element, carried))
ReadAider == format = "aider" /\ Read(His!TakeChat(at, Element, carried))
ReadJsonl == format = "jsonl" /\ Read(Flo!TakeJsonl(at, Element, carried))
ReadDocument == format = "document" /\ Read(Flo!TakeDocument(at, Element, carried))
ReadCascade == format = "cascade" /\ Read(Flo!TakeCascade(at, Element, carried))
ReadLog == format = "log" /\ Read(Flo!TakeLog(at, Element, carried))
ReadPatterns == format = "patterns" /\ Read(Flo!TakePattern(at, Element, carried))
ReadScript == format = "script" /\ Read(Flo!TakeScript(at, Element, carried))
ReadRegistry == format = "registry" /\ Read(Flo!TakeValue(at, Element, carried))

(* git_checkpoints.py goes by where in a repository the file is. *)
ReadRepository ==
    /\ format = "git_log" /\ Git!Place(file.path) \in {"log", "packed", "pathspec"}
    /\ Read(Kept(CASE Git!Place(file.path) = "log" -> Git!TakeLogLine(file.path, at, Element)
                   [] Git!Place(file.path) = "packed" -> Git!TakePackedRef(at, Element)
                   [] OTHER -> Git!TakePathspec(at, Element)))

ReadIndex == format = "git_index" /\ Read(Git!TakeEntry(file.version, Element, carried))

ReadPack == format = "git_pack" /\ Read(Git!TakeObject(Element, carried))
ReadLevelLog == format = "leveldb_log" /\ Read(Lev!TakeFragment(at, Element, carried))
ReadTable == format = "leveldb_table" /\ Read(Lev!TakeBlock(at, Element, carried))
ReadOwnLog == format = "leveldb_own_log" /\ Read(Lev!TakeOwnLog(at, Element, carried))

Close ==
    /\ at = Len(items) + 1
    /\ at' = Len(items) + 2 /\ events' = events \o Finish
    /\ UNCHANGED <<format, file, lines, items, carried>>

Next ==
    \/ Open \/ Close
    \/ ReadClaude \/ ReadClaudeHistory \/ ReadGemini \/ ReadQwen \/ ReadCodex \/ ReadCopilot \/ ReadPi
    \/ ReadCodexHistory \/ ReadGeminiPrompts
    \/ ReadGoose \/ ReadCline \/ ReadClineMessages \/ ReadHooks \/ ReadContinue
    \/ ReadShell \/ ReadRecall \/ ReadBash \/ ReadFish \/ ReadPrompts \/ ReadPromptLines \/ ReadAider
    \/ ReadJsonl \/ ReadDocument \/ ReadCascade \/ ReadLog \/ ReadPatterns \/ ReadScript \/ ReadRegistry
    \/ ReadRepository \/ ReadIndex \/ ReadPack \/ ReadLevelLog \/ ReadTable \/ ReadOwnLog

Spec == Init /\ [][Next]_vars

(******************************* properties *******************************)

(* No two events of a file have one identity: an event with the identity   *)
(* of another is dropped when a case is filled (model/event.py, event_id). *)
EveryEventIsItsOwn ==
    \A i, j \in DOMAIN events : i < j => EventId(events[i]) # EventId(events[j])

(* The readers that put two events at one place: the effects of a call of  *)
(* Cline's command line that are of one kind, and values and paths that    *)
(* are found again by a name that another one has too.                     *)
SharesPlaces == {"cline_messages", "cline_hooks", "registry", "git_index"}

IdentitiesDistinct == format \notin SharesPlaces => EveryEventIsItsOwn

(* What a record says is in force from itself on: "session" or "cwd".  Of  *)
(* Pi the newest session replaces the one before with all that it had.     *)
Announces(rec, what) ==
    CASE format = "codex" ->
            LET payload == Get(rec, "payload")
            IN  \/ what = "cwd" /\ Get(rec, "type") \in {"session_meta", "turn_context"} /\ Said(Get(payload, "cwd"))
                \/ what = "session" /\ Get(rec, "type") = "session_meta"
                   /\ (Said(Get(payload, "id")) \/ Said(Get(payload, "session_id")))
      [] format = "copilot" ->
            LET data == Get(rec, "data")
            IN  \/ what = "cwd" /\ (Said(Get(data, "cwd")) \/ Said(Get(data, "workingDirectory")))
                \/ what = "session" /\ Said(Get(data, "sessionId"))
      [] format = "pi" -> Get(rec, "type") = "session"
      [] format = "gemini" ->
            /\ what = "session" /\ Given(Get(rec, "sessionId")) /\ Given(Get(rec, "projectHash"))
            /\ \A key \in {"$rewindTo", "id", "$set"} : ~Given(Get(rec, key))

Announcement(rec, what) ==
    CASE format = "codex" ->
            LET payload == Get(rec, "payload")
            IN  IF what = "cwd" THEN Get(payload, "cwd") ELSE Or(Get(payload, "id"), Get(payload, "session_id"))
      [] format = "copilot" ->
            LET data == Get(rec, "data")
            IN  IF what = "cwd" THEN Or(Get(data, "cwd"), Get(data, "workingDirectory")) ELSE Get(data, "sessionId")
      [] format = "pi" -> Get(rec, IF what = "cwd" THEN what ELSE "id")
      [] format = "gemini" -> rec.sessionId

Announcing(i, what) == {j \in 1..i : items[j] \notin {Blank, Torn} /\ Announces(items[j], what)}

InForce(i, what) ==
    IF Announcing(i, what) # {} THEN Announcement(items[Max(Announcing(i, what))], what)
    ELSE IF format = "copilot" /\ what = "session" THEN Or(file.directory, Null) ELSE Null

(* An event is stamped with the session and the directory that the file    *)
(* announced last before it, and with nothing that it announces later:     *)
(* what a command is attributed to does not depend on the rest of the      *)
(* file (codex.py, copilot.py, pi.py, gemini.py).                          *)
StampedAsInForce ==
    format \in {"codex", "copilot", "pi", "gemini"} =>
        \A i \in DOMAIN events :
            LET e == events[i]
            IN  e.kind # "unparsed.record" =>
                    /\ e.stamp.session = InForce(e.loc[1], "session")
                    /\ e.stamp.cwd = InForce(e.loc[1], "cwd")

(* The lines of a history that have to be found in events: those that are  *)
(* neither blank, nor a time, nor what is said of a command, nor a brace.  *)
Weighs(f, line) ==
    /\ line # Blank
    /\ f \in {"bash", "prompts"} => line.is # "stamp"
    /\ f = "fish" => line.is = "cmd"
    /\ f = "script" => line.is # "close"

Weight(f, some) == Len(Those(some, LAMBDA line : Weighs(f, line)))

(* What is told of the lines, in the order in which it is told. *)
Told(some) == FlattenSeq([i \in DOMAIN some |-> When(some[i].loc[1] # 0, some[i].raw)])

Gathered == {"shell", "recall", "bash", "fish", "prompts", "aider", "script"}
Closed == at = Len(items) + 2

(* A script that is longer than what is read of it says so. *)
CutScript == format = "script" /\ carried.done

(* Of a history whose entries span lines every line is in exactly one      *)
(* event, also what is gathered when the file ends (shell_history.py,      *)
(* prompt_history.py, aider.py, shell_script.py).                          *)
LinesConserved ==
    format \in Gathered /\ Closed /\ ~CutScript => Weight(format, Told(events)) = Weight(format, lines)

(* The time that a line states, and the last line before another that is   *)
(* not blank.                                                              *)
TimeAt(j) == IF j > 0 /\ lines[j] # Blank /\ lines[j].is = "stamp" THEN lines[j].when ELSE Null
FilledBefore(n) == {j \in 1..(n - 1) : lines[j] # Blank}
LastBefore(n) == Max(FilledBefore(n) \cup {0})

(* The time of a command of bash is that of the line before it, of an      *)
(* entry of a prompt history that of the line right above it: a stamp      *)
(* dates one entry and no entry is dated by the stamp of another.          *)
OwnTime ==
    \A i \in DOMAIN events :
        LET n == events[i].loc[1]
        IN  /\ format = "bash" => events[i].says = TimeAt(LastBefore(n))
            /\ format = "prompts" /\ events[i].kind = "prompt.history" => events[i].says = TimeAt(n - 1)

(* What a record is attributed to, and when it was, is what the file said  *)
(* of it where it stands: not what is said later, nor of another record.   *)
InForceWhereItStands == StampedAsInForce /\ OwnTime

(* The elements that leave no event of their own: a blank line, the turn   *)
(* of Codex that sets what its records run with, the first line of a       *)
(* history that says which writer escapes, and a reference of git that is  *)
(* the developer's or cannot be read.                                      *)
Silent(i) ==
    \/ items[i] = Blank
    \/ format = "codex" /\ items[i] # Torn /\ Get(items[i], "type") = "turn_context"
    \/ format = "prompt_lines" /\ i = 1 /\ items[i].is = "version"
    \/ format = "git_log" /\ Git!Place(file.path) = "packed"

ByElement == DOMAIN Elements \ (Gathered \cup Whole \cup {"registry", "log", "patterns", "git_index", "git_pack", "leveldb_log", "leveldb_table"})

(* No other element that has been read is without an event at its place:   *)
(* what a reader does not understand, an answer of nothing and a line that *)
(* is torn are in the case too (base.py, iter_lines; ADR 0039).            *)
ElementsTold ==
    format \in ByElement =>
        \A i \in 1..(at - 1) : i \in DOMAIN items /\ ~Silent(i) => \E j \in DOMAIN events : events[j].loc[1] = i

(* Nothing that stands in a file is missing from the case.                 *)
NothingIsLost == LinesConserved /\ ElementsTold

(* An object that a pack's event holds is the one that was packed, and one *)
(* is left unexpanded because its base is not before it, or is itself left *)
(* so, or because the chain is too long, or is told unread because it is   *)
(* no tree although it says so (git_pack.py, _resolve).                    *)
ExpandedIsWhatWasPacked ==
    format = "git_pack" =>
        \A i \in DOMAIN events : events[i].loc[1][1] = "offset" =>
            LET e == events[i]
                n == e.loc[1][2]
            IN  /\ e.kind = "file.snapshot" => e.raw = [type |-> lines[n].kind, content |-> lines[n].body]
                /\ e.kind # "file.snapshot" =>
                      LET base == Git!BaseOf(Pack.objects[n], n, SubSeq(carried, 1, n - 1))
                      IN  \/ base = 0 \/ carried[base].depth >= MaxDepth
                          \/ ~Git!Interprets(lines[n].kind, lines[n].body)

(* The last fragment of the record of a log that begins with a fragment,   *)
(* and what the fragments from one to another hold.                        *)
LastOf(i) ==
    CHOOSE j \in i..Len(lines) :
        /\ \A k \in (i + 1)..j : lines[k].kind \in {"middle", "last"}
        /\ j = Len(lines) \/ lines[j + 1].kind \notin {"middle", "last"}

Span(i, m) == FlattenSeq([n \in 1..(m - i + 1) |-> lines[i + n - 1].body])

(* That record, and whether it was ended, or cut by the end of the file.   *)
RecordFrom(i) ==
    [body |-> Span(i, LastOf(i)),
     ended |-> lines[LastOf(i)].kind \in {"full", "last"} \/ LastOf(i) = Len(lines)]

(* What is told at a place, in the order in which it is told. *)
RawsAt(some, i) ==
    LET told == Those(some, LAMBDA e : e.loc[1] = i)
    IN  [n \in DOMAIN told |-> told[n].raw]

(* Every put and delete of a log is told as it was written: the entries of *)
(* a batch in their order, at the place where it begins, none of them with *)
(* those of another batch; and all of one that was ended, or cut by the    *)
(* end of the file, unless it is said that reading stopped (leveldb.py,    *)
(* read_log).                                                              *)
EveryBatchIsTold ==
    format = "leveldb_log" =>
        \A i \in DOMAIN lines : lines[i].kind \in {"full", "first"} =>
            LET raws == RawsAt(events, i)
            IN  /\ IsPrefix(raws, RecordFrom(i).body)
                /\ Closed /\ RecordFrom(i).ended =>
                      \/ raws = Lev!EntriesOf(RecordFrom(i).body)
                      \/ \E n \in DOMAIN events : events[n].loc[1] = 0 /\ events[n].says \in {"truncated", "stopped"}

(* The same of a log, however its writer was interrupted, in which no      *)
(* record begins with a fragment of no bytes.                              *)
BatchesAsWritten ==
    (\A i \in DOMAIN lines : format = "leveldb_log" => lines[i].kind # "first" \/ lines[i].body # <<>>)
        => EveryBatchIsTold
================================================================================
