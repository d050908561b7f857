------------------------------- MODULE Histories -------------------------------
(***************************************************************************)
(* parsers/shell_history.py, parsers/prompt_history.py and                 *)
(* parsers/aider.py: text files whose entries span lines.  A line is blank *)
(* or has the field "is", which says what it would be to the reader of its *)
(* format, and the fields "more" (it ends the way that continues an entry) *)
(* and "when" (the time that it states).  What is gathered of an entry is  *)
(* carried from line to line and flushed when the entry ends; the end of   *)
(* the file is an element of its own.                                      *)
(***************************************************************************)
EXTENDS Readers

Idle == [lines |-> <<>>, start |-> 0, when |-> Null]

(* text_lines numbers the lines; an event keeps the lines it is made of. *)
Entry(c, kind) ==
    When(c.lines # <<>>, <<Ev(c.start, "self", 0, kind, c.lines, NoStamp, c.when)>>)

(* unreadable_lines: one record of a run that is not blank altogether. *)
Unreadable(start, run) ==
    When(\E i \in DOMAIN run : run[i] # Blank, <<Unparsed(start, "self", 0, run, NoStamp)>>)

Answer(c, events) == [carried |-> c, events |-> events]

(* A line that opens an entry, or continues the one that is open; an entry *)
(* that nothing continues is done.                                         *)
Gather(at, line, c) ==
    LET open == c.lines # <<>>
        entry == [lines |-> Append(c.lines, line),
                  start |-> IF open THEN c.start ELSE at,
                  when |-> IF open THEN c.when ELSE Get(line, "when")]
    IN  IF line # Blank /\ line.more THEN Answer(entry, <<>>)
        ELSE Answer(Idle, Entry(entry, "command.exec"))

(* _zsh, _plain (PSReadLine): a blank line is passed over between entries, *)
(* and ends an entry that awaits its next line.  What states a time is in  *)
(* the first line of an entry.                                             *)
TakeShell(at, line, c) ==
    IF line = Blank /\ c.lines = <<>> THEN Answer(c, <<>>) ELSE Gather(at, line, c)

(* _agent_recall: a blank line is passed over, in an entry too. *)
TakeRecall(at, line, c) == IF line = Blank THEN Answer(c, <<>>) ELSE Gather(at, line, c)

(* Slip: an entry that is open when the file ends is left. *)
FinishShellEarly(c) == <<>>

FinishShell(c) == Entry(c, "command.exec")

(* Slip: a time dates every command from there on. *)
TakeBashForward(at, line, c) ==
    IF line = Blank THEN Answer(c, <<>>)
    ELSE IF line.is = "stamp" THEN Answer([c EXCEPT !.when = line.when], <<>>)
    ELSE Answer(c, <<Ev(at, "self", 0, "command.exec", <<line>>, NoStamp, c.when)>>)

(* _bash: a line is a command, and a time is that of the next command. *)
TakeBash(at, line, c) ==
    IF line = Blank THEN Answer(c, <<>>)
    ELSE IF line.is = "stamp" THEN Answer([c EXCEPT !.when = line.when], <<>>)
    ELSE Answer(Idle, <<Ev(at, "self", 0, "command.exec", <<line>>, NoStamp, c.when)>>)

-------------------------------------------------------------------------------
(* _fish: an entry is the line of its command and what is said of it until *)
(* the next one.  The lines before the first are held.                     *)

IdleFish == [lines |-> <<>>, start |-> 0, when |-> Null, held |-> <<>>, inPaths |-> FALSE, paths |-> <<>>]

Fish(c) == When(c.lines # <<>>,
                <<Ev(c.start, "self", 0, "command.exec", c.lines, NoStamp, [when |-> c.when, paths |-> c.paths])>>)

(* Of a line that is said of a command: its time, its paths. *)
Detail(line, c) ==
    CASE line # Blank /\ line.is = "when" -> [c EXCEPT !.when = line.when, !.inPaths = FALSE]
      [] line # Blank /\ line.is = "added" -> [c EXCEPT !.inPaths = FALSE]
      [] line # Blank /\ line.is = "paths" -> [c EXCEPT !.inPaths = TRUE]
      [] line # Blank /\ line.is = "path" /\ c.inPaths -> [c EXCEPT !.paths = Append(@, line)]
      [] OTHER -> c

TakeFish(at, line, c) ==
    LET first == c.lines = <<>>
    IN  IF line # Blank /\ line.is = "cmd"
        THEN Answer([IdleFish EXCEPT !.lines = <<line>>, !.start = at],
                    (IF first THEN Unreadable(at - Len(c.held), c.held) ELSE Fish(c)))
        ELSE IF first THEN Answer([c EXCEPT !.held = Append(@, line)], <<>>)
        ELSE Answer(Detail(line, c), <<>>)

FinishFish(c) == IF c.lines = <<>> THEN Unreadable(1, c.held) ELSE Fish(c)

-------------------------------------------------------------------------------
(* _prompt_toolkit: an entry is a run of content lines.  Any other line    *)
(* ends it; a stamp dates the entry after it, and what is neither content, *)
(* nor a stamp, nor blank is a stray, held until its run ends.             *)

IdlePrompt == [lines |-> <<>>, start |-> 0, when |-> Null, stray |-> <<>>, strayAt |-> 0, reported |-> FALSE]

Strays(c) == Unreadable(c.strayAt, c.stray)
NoStrays(c) == [c EXCEPT !.stray = <<>>, !.reported = @ \/ c.stray # <<>>]

TakePrompt(at, line, c) ==
    IF line # Blank /\ line.is = "content"
    THEN Answer([NoStrays(c) EXCEPT !.lines = Append(@, line), !.start = IF c.lines = <<>> THEN at ELSE @],
                Strays(c))
    ELSE LET stray == line # Blank /\ line.is # "stamp"
             ended == [c EXCEPT !.lines = <<>>, !.when = IF stray \/ line = Blank THEN Null ELSE line.when]
         IN  IF stray
             THEN Answer([ended EXCEPT !.stray = Append(@, line), !.strayAt = IF c.stray = <<>> THEN at ELSE @],
                         Entry(c, "prompt.history"))
             ELSE Answer(NoStrays(ended), Entry(c, "prompt.history") \o Strays(c))

(* A file without an entry and without a stray is reported as a whole. *)
FinishPrompt(c, doc) ==
    LET entry == \E i \in DOMAIN doc : doc[i] # Blank /\ doc[i].is = "content"
    IN  Entry(c, "prompt.history") \o Strays(c)
        \o When(~entry /\ ~NoStrays(c).reported, Unreadable(1, doc))

(* _rustyline, _plain: a line is a prompt; a first line that says which    *)
(* writer escapes is none.                                                 *)
TakeLine(at, line, c) ==
    IF line = Blank \/ (at = 1 /\ line.is = "version") THEN Answer(c, <<>>)
    ELSE Answer(c, <<Ev(at, "self", 0, "prompt.history", <<line>>, NoStamp, Null)>>)

-------------------------------------------------------------------------------
(* AiderParser.parse: a prompt is a run of prompt lines; an answer is all  *)
(* that is between a banner, a prompt or a notice and the next of them.    *)

IdleChat == [prompt |-> <<>>, promptAt |-> 0, answer |-> <<>>, answerAt |-> 0]

(* flush_prompt, flush_answer *)
PromptOf(c) == When(c.prompt # <<>>, <<Ev(c.promptAt, "self", 0, "user.prompt", c.prompt, NoStamp, Null)>>)
AnswerOf(c) == When(\E i \in DOMAIN c.answer : c.answer[i] # Blank,
                    <<Ev(c.answerAt, "self", 0, "assistant.text", c.answer, NoStamp, Null)>>)

TakeChat(at, line, c) ==
    LET is == IF line = Blank THEN "text" ELSE line.is
        one(kind) == <<Ev(at, "self", 0, kind, <<line>>, NoStamp, Null)>>
        noAnswer == [c EXCEPT !.answer = <<>>]
        ended == [c EXCEPT !.prompt = <<>>]
    IN  CASE is = "banner" -> Answer(IdleChat, AnswerOf(c) \o PromptOf(c) \o one("session.start"))
          [] is = "prompt" ->
                Answer([noAnswer EXCEPT !.prompt = Append(@, line),
                                        !.promptAt = IF c.prompt = <<>> THEN at ELSE @],
                       AnswerOf(c))
          [] is = "notice" -> Answer(IdleChat, AnswerOf(c) \o PromptOf(c) \o one("unparsed.record"))
          [] OTHER -> Answer([ended EXCEPT !.answer = Append(@, line),
                                           !.answerAt = IF c.answer = <<>> THEN at ELSE @],
                             PromptOf(c))

FinishChat(c) == PromptOf(c) \o AnswerOf(c)
===============================================================================
