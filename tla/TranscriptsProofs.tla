--------------------------- MODULE TranscriptsProofs ---------------------------
(***************************************************************************)
(* What the parsers read out of a file, whatever its elements and however  *)
(* many: no event is another's, none of an element is missing, and each is *)
(* attributed as the file says where it stands.                            *)
(***************************************************************************)
EXTENDS Transcripts, SequenceLemmas

(* ---------------------------------------------- the events of an element -- *)

(* Events that come only on a condition.                                   *)
LEMMA TellsWhen ==
    ASSUME NEW c, NEW evs, NEW n, NEW parts, NEW k, NEW stamp
    PROVE  /\ Tells(evs, n, parts, stamp) => Tells(When(c, evs), n, parts, stamp)
           /\ TellsOf(evs, n, parts, k, stamp) => TellsOf(When(c, evs), n, parts, k, stamp)
BY TellsNone DEF When

(* The readers flatten lists as the library does.                          *)
LEMMA ReadersFlatten == \A u : Flattened(u) = FlattenSeq(u)
BY DEF Flattened, FlattenSeq

(* One event of a reader.                                                  *)
LEMMA EvTells ==
    ASSUME NEW n, NEW part, NEW k, NEW kind, NEW raw, NEW stamp, NEW says, NEW all,
           stamp = all \/ kind = "unparsed.record"
    PROVE  /\ TellsOf(<<Ev(n, part, k, kind, raw, stamp, says)>>, n, {part}, k, all)
           /\ Tells(<<Ev(n, part, k, kind, raw, stamp, says)>>, n, {part}, all)
           /\ <<Ev(n, part, k, kind, raw, stamp, says)>> # <<>>
<1> DEFINE e == Ev(n, part, k, kind, raw, stamp, says)
<1>1. e.loc = <<n, part, k>> /\ (e.kind = "unparsed.record" \/ e.stamp = all)
  BY DEF Ev
<1> HIDE DEF e
<1>2. TellsOf(<<e>>, n, {part}, k, all) /\ Tells(<<e>>, n, {part}, all) /\ <<e>> # <<>>
  BY <1>1, TellsOne
<1> QED
  BY <1>2 DEF e

(* One event answers.                                                      *)
LEMMA EvAnswers ==
    ASSUME NEW n, NEW part, NEW k, NEW kind, NEW raw, NEW stamp, NEW says, NEW all,
           stamp = all \/ kind = "unparsed.record"
    PROVE  Answers(<<Ev(n, part, k, kind, raw, stamp, says)>>, n, all)
<1>1. Tells(<<Ev(n, part, k, kind, raw, stamp, says)>>, n, {part}, all)
      /\ <<Ev(n, part, k, kind, raw, stamp, says)>> # <<>>
  BY EvTells
<1> QED
  BY <1>1 DEF Answers

(* --------------------------------------------------------- Claude Code -- *)

(* Claude Code's reader flattens lists as any does.                        *)
LEMMA ClaudeFlattens == \A u : Cla!Flattened(u) = FlattenSeq(u)
BY DEF Cla!Flattened, FlattenSeq

ClaudeParts == {"think", "text", "tool", "effect", "block"}

(* A block of an answer.                                                   *)
LEMMA ClaudeBlock ==
    ASSUME NEW n, NEW rec, NEW block, NEW i
    PROVE  /\ TellsOf(Cla!Block(n, rec, block, i), n, ClaudeParts, i, Cla!Stamp(rec))
           /\ Cla!Block(n, rec, block, i) # <<>>
<1>1. /\ TellsOf(Cla!ToolUse(n, rec, block, i), n, {"tool"} \cup {"effect"}, i, Cla!Stamp(rec))
      /\ Cla!ToolUse(n, rec, block, i) # <<>>
  <2> DEFINE st == Cla!Stamp(rec)
             says == Cla!Call(block.name, block.id)
             a == <<Cla!Ev(n, "tool", i, IF block.mcp THEN "mcp.call" ELSE "tool.call", rec, st, says)>>
             b == <<Cla!Ev(n, "effect", i, Cla!Effect(block), rec, st, says)>>
             c == Cla!Effect(block) # Null
  <2>1. TellsOf(a, n, {"tool"}, i, st) /\ a # <<>> /\ TellsOf(b, n, {"effect"}, i, st)
    <3> HIDE DEF st, says
    <3> QED
      BY EvTells DEF Cla!Ev, Ev
  <2>2. Cla!ToolUse(n, rec, block, i) = a \o When(c, b)
    BY DEF Cla!ToolUse, Cla!When, When
  <2> HIDE DEF a, b, c, st
  <2>3. TellsOf(When(c, b), n, {"effect"}, i, st)
    BY <2>1, TellsWhen
  <2>4. {"tool"} \cap {"effect"} = {}
    OBVIOUS
  <2>5. Tells(a, n, {"tool"}, st) /\ Tells(When(c, b), n, {"effect"}, st)
    BY <2>1, <2>3 DEF TellsOf
  <2>6. TellsOf(a \o When(c, b), n, {"tool"} \cup {"effect"}, i, st) /\ a \o When(c, b) # <<>>
    BY <2>1, <2>3, <2>4, <2>5, TellsJoin
  <2> QED
    BY <2>2, <2>6 DEF st
<1>2. TellsOf(Cla!ToolUse(n, rec, block, i), n, ClaudeParts, i, Cla!Stamp(rec))
  BY <1>1, TellsMore DEF ClaudeParts
<1>3. ASSUME NEW part \in ClaudeParts, NEW kind, NEW raw, NEW stamp, NEW says,
             stamp = Cla!Stamp(rec) \/ kind = "unparsed.record"
      PROVE  /\ TellsOf(<<Cla!Ev(n, part, i, kind, raw, stamp, says)>>, n, ClaudeParts, i, Cla!Stamp(rec))
             /\ <<Cla!Ev(n, part, i, kind, raw, stamp, says)>> # <<>>
  <2> DEFINE st == Cla!Stamp(rec)
             e == <<Cla!Ev(n, part, i, kind, raw, stamp, says)>>
  <2>1. TellsOf(e, n, {part}, i, st) /\ e # <<>>
    <3> HIDE DEF st
    <3> QED
      BY <1>3, EvTells DEF Cla!Ev, Ev, st
  <2> HIDE DEF st, e
  <2>2. TellsOf(e, n, ClaudeParts, i, st)
    BY <2>1, TellsMore
  <2> QED
    BY <2>1, <2>2 DEF st, e
<1>4. /\ "think" \in ClaudeParts /\ "text" \in ClaudeParts /\ "block" \in ClaudeParts
  BY DEF ClaudeParts
<1> QED
  BY <1>1, <1>2, <1>3, <1>4 DEF Cla!Block, Cla!Unparsed

(* An answer of the model.                                                 *)
LEMMA ClaudeAssistant ==
    ASSUME NEW n, NEW rec, NEW message, AList(Get(message, "content"))
    PROVE  Answers(Cla!Assistant(n, rec, message), n, Cla!Stamp(rec))
<1> DEFINE st == Cla!Stamp(rec)
           content == Get(message, "content")
           blocks == IF content \in {Null, Odd} THEN <<[type |-> "text"]>> ELSE content
           refused == Get(message, "stop_reason") = "refusal"
           u == [i \in DOMAIN blocks |-> Cla!Block(n, rec, blocks[i], i - 1)]
           a == <<Cla!Ev(n, "refusal", 0, "safety.refusal", rec, st, Null)>>
           b == FlattenSeq(u)
           c == <<Cla!Unparsed(n, "self", 0, rec, Cla!BlockStamp(rec))>>
           d == When(refused, a)
           e == When(blocks = <<>> /\ ~refused, c)
<1>1. Cla!Assistant(n, rec, message) = (d \o b) \o e
  BY ClaudeFlattens DEF Cla!Assistant, Cla!When, When, Cla!Each, Cla!Get, Get
<1>2. IsList(blocks)
  <2>1. content \notin {Null, Odd} => IsList(content)
    BY DEF AList, Members, Range, Given, IsList
  <2> QED
    BY <2>1, ShortLists
<1> HIDE DEF blocks, refused, content
<1>3. Tells(a, n, {"refusal"}, st) /\ a # <<>> /\ Tells(c, n, {"self"}, st) /\ c # <<>>
  <2> HIDE DEF st
  <2> QED
    BY EvTells DEF Cla!Ev, Cla!Unparsed, Ev
<1> HIDE DEF a, c
<1>4. Tells(b, n, ClaudeParts, st) /\ (blocks # <<>> => b # <<>>)
  <2>1. /\ u = [i \in DOMAIN blocks |-> u[i]]
        /\ \A i \in 1..Len(blocks) : u[i] = Cla!Block(n, rec, blocks[i], i - 1)
    BY <1>2, ListFacts
  <2>2. \A i \in 1..Len(blocks) : TellsOf(u[i], n, ClaudeParts, i - 1, st) /\ u[i] # <<>>
    <3> HIDE DEF u
    <3> QED
      BY <2>1, ClaudeBlock
  <2> HIDE DEF u, st
  <2> QED
    BY <1>2, <2>1, <2>2, EachTells
<1>5. Tells(d, n, {"refusal"}, st) /\ Tells(e, n, {"self"}, st)
  BY <1>3, TellsWhen
<1>6. d # <<>> \/ b # <<>> \/ e # <<>>
  BY <1>3, <1>4 DEF When
<1>7. {"refusal"} \cap ClaudeParts = {} /\ ({"refusal"} \cup ClaudeParts) \cap {"self"} = {}
  BY DEF ClaudeParts
<1> HIDE DEF b, d, e, st
<1>8. Tells((d \o b) \o e, n, ({"refusal"} \cup ClaudeParts) \cup {"self"}, st) /\ (d \o b) \o e # <<>>
  BY <1>4, <1>5, <1>6, <1>7, TellsThree
<1> QED
  BY <1>1, <1>8 DEF Answers, st

(* What the user typed, or the results of tools.                           *)
LEMMA ClaudeUser ==
    ASSUME NEW n, NEW rec, NEW message, AList(Get(message, "content"))
    PROVE  Answers(Cla!User(n, rec, message), n, Cla!Stamp(rec))
<1> DEFINE st == Cla!Stamp(rec)
           content == Cla!Listed(Cla!Get(message, "content"))
           v == [i \in DOMAIN content |->
                    Cla!When(Cla!Get(content[i], "type") = "tool_result", <<content[i]>>)]
           results == FlattenSeq(v)
           u == [i \in DOMAIN results |->
                    <<Cla!Ev(n, "result", i - 1, "tool.result", rec, st, Cla!Call(Null, results[i].tool_use_id))>>]
           one == <<Cla!Ev(n, "self", 0, "user.prompt", rec, st, Null)>>
<1>1. Cla!User(n, rec, message) = IF results # <<>> THEN FlattenSeq(u) ELSE one
  BY ClaudeFlattens DEF Cla!User, Cla!Each, Cla!Those
<1>2. IsList(content)
  BY ShortLists DEF AList, Members, Range, Given, IsList, Cla!Listed, Cla!Given, Cla!Get, Get
<1>3. IsList(results)
  <2> HIDE DEF content
  <2>1. /\ v = [i \in DOMAIN content |-> v[i]]
        /\ \A i \in DOMAIN content : v[i] \in {<<>>, <<content[i]>>}
    BY DEF Cla!When
  <2> HIDE DEF v
  <2> QED
    BY <1>2, <2>1, ChosenFacts
<1> HIDE DEF content, results
<1>4. \A i \in 1..Len(results) :
         /\ u[i] = <<Cla!Ev(n, "result", i - 1, "tool.result", rec, st, Cla!Call(Null, results[i].tool_use_id))>>
  BY <1>3, ListFacts
<1>5. u = [i \in DOMAIN results |-> u[i]]
  OBVIOUS
<1> HIDE DEF u
<1>6. \A i \in 1..Len(results) : TellsOf(u[i], n, {"result"}, i - 1, st) /\ u[i] # <<>>
  <2> HIDE DEF st
  <2> TAKE i \in 1..Len(results)
  <2> DEFINE says == Cla!Call(Null, results[i].tool_use_id)
  <2>1. u[i] = <<Cla!Ev(n, "result", i - 1, "tool.result", rec, st, says)>>
    BY <1>4
  <2> HIDE DEF says
  <2> QED
    BY <2>1, EvTells DEF Cla!Ev, Ev
<1>7. Tells(FlattenSeq(u), n, {"result"}, st) /\ (results # <<>> => FlattenSeq(u) # <<>>)
  <2> HIDE DEF st
  <2> QED
    BY <1>3, <1>5, <1>6, EachTells
<1>8. Answers(one, n, st)
  <2> HIDE DEF st
  <2> QED
    BY EvAnswers DEF Cla!Ev, Ev
<1> QED
  BY <1>1, <1>7, <1>8 DEF Answers

(* Every line of a transcript of Claude Code.                              *)
LEMMA ClaudeTells ==
    ASSUME NEW n, NEW rec, NEW c, rec # Blank,
           rec # Torn => AList(Get(Get(rec, "message"), "content"))
    PROVE  \E stamp : Answers(Cla!Take(n, rec, c).events, n, stamp)
<1> DEFINE st == Cla!Stamp(rec)
<1>1. CASE rec = Torn
  <2>1. Cla!Take(n, rec, c).events = <<Cla!Unparsed(n, "self", 0, rec, Cla!NoStamp)>>
    BY <1>1 DEF Cla!Take, Cla!ReadLine
  <2>2. Answers(<<Cla!Unparsed(n, "self", 0, rec, Cla!NoStamp)>>, n, st)
    <3> HIDE DEF st
    <3> QED
      BY EvAnswers DEF Cla!Unparsed, Cla!Ev, Ev
  <2> QED
    BY <2>1, <2>2
<1>2. CASE rec # Torn
  <2>1. Cla!Take(n, rec, c).events = Cla!Record(n, rec, c).events
    BY <1>2 DEF Cla!Take, Cla!ReadLine
  <2> DEFINE message == Cla!Get(rec, "message")
  <2>2. AList(Get(message, "content"))
    BY <1>2 DEF Cla!Get, Get
  <2> HIDE DEF message
  <2>3. Answers(Cla!User(n, rec, message), n, st) /\ Answers(Cla!Assistant(n, rec, message), n, st)
    BY <2>2, ClaudeUser, ClaudeAssistant
  <2>4. \A kind : Answers(<<Cla!Ev(n, "self", 0, kind, rec, Cla!Stamp(rec), Null)>>, n, st)
    BY EvAnswers DEF Cla!Ev, Ev
  <2>5. Answers(Cla!Record(n, rec, c).events, n, st)
    <3> HIDE DEF st
    <3> QED
      BY <2>3, <2>4 DEF Cla!Record, Cla!Unparsed, message
  <2> QED
    BY <2>1, <2>5
<1> QED
  BY <1>1, <1>2

(* Every line of the prompts that were typed.                              *)
LEMMA ClaudeHistoryTells ==
    ASSUME NEW n, NEW rec, NEW c, rec # Blank
    PROVE  \E stamp : Answers(Cla!TakeHistory(n, rec, c).events, n, stamp)
<1> DEFINE st == [Cla!NoStamp EXCEPT !.cwd = Cla!Get(rec, "project")]
           a == <<Cla!Unparsed(n, "self", 0, rec, Cla!NoStamp)>>
           b == <<Cla!Ev(n, "self", 0, "prompt.history", rec, st, Null)>>
<1>1. Cla!TakeHistory(n, rec, c).events = IF rec = Torn THEN a ELSE b
  BY DEF Cla!TakeHistory, Cla!ReadLine, Cla!Prompt
<1>2. Answers(a, n, st) /\ Answers(b, n, st)
  <2> HIDE DEF st
  <2> QED
    BY EvAnswers DEF Cla!Unparsed, Cla!Ev, Ev
<1> QED
  BY <1>1, <1>2

(* --------------------------------------------- Gemini CLI and Qwen Code -- *)

(* Gemini's reader flattens lists as any does.                             *)
LEMMA GeminiFlattens == \A u : Gem!Flattened(u) = FlattenSeq(u)
BY DEF Gem!Flattened, FlattenSeq

PartParts == {"part", "effect-part", "result-part"}
ToolParts == {"tool", "effect-tool", "result-tool"}

(* A call, what it touched and what came back.                             *)
LEMMA GeminiToolCall ==
    ASSUME NEW n, NEW rec, NEW part \in {"part", "tool"}, NEW i, NEW call, NEW result, NEW st
    PROVE  /\ TellsOf(Gem!ToolCall(n, rec, part, i, call, result, st), n,
                      IF part = "part" THEN PartParts ELSE ToolParts, i, st)
           /\ Gem!ToolCall(n, rec, part, i, call, result, st) # <<>>
<1> DEFINE says == Gem!Call(call.name, call.id)
           a == <<Gem!Ev(n, part, i, "tool.call", rec, st, says)>>
           b == <<Gem!Ev(n, Gem!EffectOf[part], i, Gem!Effect(call), rec, st, says)>>
           c == <<Gem!Ev(n, Gem!ResultOf[part], i, "tool.result", rec, st, says)>>
           d == When(Gem!Effect(call) # Null, b)
           e == When(result # Null, c)
           eff == Gem!EffectOf[part]
           res == Gem!ResultOf[part]
<1>1. Gem!ToolCall(n, rec, part, i, call, result, st) = (a \o d) \o e
  BY DEF Gem!ToolCall, Gem!When, When
<1>2. /\ TellsOf(a, n, {part}, i, st) /\ a # <<>>
      /\ TellsOf(b, n, {eff}, i, st) /\ TellsOf(c, n, {res}, i, st)
  <2> HIDE DEF says, eff, res
  <2> QED
    BY EvTells DEF Gem!Ev, Ev, eff, res
<1>3. /\ {part} \cap {eff} = {} /\ ({part} \cup {eff}) \cap {res} = {}
      /\ ({part} \cup {eff}) \cup {res} = IF part = "part" THEN PartParts ELSE ToolParts
  BY DEF Gem!EffectOf, Gem!ResultOf, PartParts, ToolParts
<1> HIDE DEF a, b, c, eff, res
<1>4. TellsOf(d, n, {eff}, i, st) /\ TellsOf(e, n, {res}, i, st)
  BY <1>2, TellsWhen
<1> HIDE DEF d, e
<1>5. Tells(a, n, {part}, st) /\ Tells(d, n, {eff}, st) /\ Tells(e, n, {res}, st)
  BY <1>2, <1>4 DEF TellsOf
<1> DEFINE ad == a \o d
           pe == {part} \cup {eff}
<1>6. TellsOf(ad, n, pe, i, st) /\ ad # <<>>
  BY <1>2, <1>3, <1>4, <1>5, TellsJoin
<1>7. pe \cap {res} = {} /\ Tells(ad, n, pe, st)
  BY <1>3, <1>6 DEF TellsOf
<1> HIDE DEF ad, pe
<1>8. TellsOf(ad \o e, n, pe \cup {res}, i, st) /\ ad \o e # <<>>
  BY <1>4, <1>5, <1>6, <1>7, TellsJoin
<1> QED
  BY <1>1, <1>3, <1>8 DEF ad, pe

(* The parts of a message that are of one sort.                            *)
LEMMA GeminiParts ==
    ASSUME NEW content, AList(content), NEW is
    PROVE  IsList(Gem!Parts(content, is))
<1> DEFINE items0 == Gem!Listed(content)
           v == [i \in DOMAIN items0 |-> Gem!When(items0[i].is = is, <<items0[i]>>)]
<1>1. IsList(items0)
  BY ShortLists DEF AList, Members, Range, Given, IsList, Gem!Listed, Gem!Given
<1>2. Gem!Parts(content, is) = FlattenSeq(v)
  BY GeminiFlattens DEF Gem!Parts, Gem!Those
<1> HIDE DEF items0
<1>3. /\ v = [i \in DOMAIN items0 |-> v[i]]
      /\ \A i \in DOMAIN items0 : v[i] \in {<<>>, <<items0[i]>>}
  BY DEF Gem!When
<1> HIDE DEF v
<1> QED
  BY <1>1, <1>2, <1>3, ChosenFacts

(* A turn of the model: its thoughts, what it reasoned and answered, and   *)
(* its calls.                                                              *)
LEMMA GeminiTurn ==
    ASSUME NEW n, NEW rec, NEW st, AList(Get(rec, "content")), AList(Get(rec, "thoughts")),
           AList(Get(rec, "toolCalls"))
    PROVE  Answers(Gem!Turn(n, rec, st), n, st)
<1> DEFINE content == Gem!Get(rec, "content")
           thoughts == Gem!Listed(Gem!Get(rec, "thoughts"))
           tools == Gem!Listed(Gem!Get(rec, "toolCalls"))
           calls == Gem!Parts(content, "call")
           answered == Gem!Says(content, "text")
           reasoned == Gem!Says(content, "thought")
           ut == [i \in DOMAIN thoughts |->
                     <<Gem!Ev(n, "thought", i - 1, "assistant.thinking", thoughts[i], st, Null)>>]
           uc == [i \in DOMAIN calls |-> Gem!ToolCall(n, rec, "part", i - 1, calls[i].call, Null, st)]
           uo == [i \in DOMAIN tools |->
                     Gem!ToolCall(n, rec, "tool", i - 1, tools[i], Gem!Get(tools[i], "result"), st)]
           x == <<Gem!Ev(n, "thinking", 0, "assistant.thinking", rec, st, Null)>>
           y == <<Gem!Ev(n, "self", 0, "assistant.text", rec, st, Null)>>
           a == FlattenSeq(ut)
           b == When(reasoned, x)
           c == When(answered \/ (calls = <<>> /\ thoughts = <<>> /\ ~reasoned), y)
           d == FlattenSeq(uc)
           e == FlattenSeq(uo)
<1>1. Gem!Turn(n, rec, st) = (((a \o b) \o c) \o d) \o e
  <2> HIDE DEF a, d, e
  <2>1. a = Gem!Flattened(ut) /\ d = Gem!Flattened(uc) /\ e = Gem!Flattened(uo)
    BY GeminiFlattens DEF a, d, e
  <2> QED
    BY <2>1 DEF Gem!Turn, Gem!When, When, Gem!Each
<1>2. IsList(thoughts) /\ IsList(tools)
  BY ShortLists DEF AList, Members, Range, Given, IsList, Gem!Listed, Gem!Given, Gem!Get, Get
<1>3. IsList(calls)
  <2>1. AList(content)
    BY DEF Gem!Get, Get
  <2> HIDE DEF content
  <2> QED
    BY <2>1, GeminiParts
<1> HIDE DEF thoughts, tools, calls, answered, reasoned, content
<1>4. Tells(a, n, {"thought"}, st) /\ (thoughts # <<>> => a # <<>>)
  <2>1. /\ ut = [i \in DOMAIN thoughts |-> ut[i]]
        /\ \A i \in 1..Len(thoughts) :
              ut[i] = <<Gem!Ev(n, "thought", i - 1, "assistant.thinking", thoughts[i], st, Null)>>
    BY <1>2, ListFacts
  <2> HIDE DEF ut
  <2>2. \A i \in 1..Len(thoughts) : TellsOf(ut[i], n, {"thought"}, i - 1, st) /\ ut[i] # <<>>
    BY <2>1, EvTells DEF Gem!Ev, Ev
  <2> QED
    BY <1>2, <2>1, <2>2, EachTells
<1>5. Tells(d, n, PartParts, st) /\ (calls # <<>> => d # <<>>)
  <2>1. /\ uc = [i \in DOMAIN calls |-> uc[i]]
        /\ \A i \in 1..Len(calls) : uc[i] = Gem!ToolCall(n, rec, "part", i - 1, calls[i].call, Null, st)
    BY <1>3, ListFacts
  <2> HIDE DEF uc
  <2>2. \A k, call : /\ TellsOf(Gem!ToolCall(n, rec, "part", k, call, Null, st), n, PartParts, k, st)
                     /\ Gem!ToolCall(n, rec, "part", k, call, Null, st) # <<>>
    BY GeminiToolCall
  <2>3. \A i \in 1..Len(calls) : TellsOf(uc[i], n, PartParts, i - 1, st) /\ uc[i] # <<>>
    BY <2>1, <2>2
  <2> QED
    BY <1>3, <2>1, <2>3, EachTells
<1>6. Tells(e, n, ToolParts, st)
  <2>1. /\ uo = [i \in DOMAIN tools |-> uo[i]]
        /\ \A i \in 1..Len(tools) :
              uo[i] = Gem!ToolCall(n, rec, "tool", i - 1, tools[i], Gem!Get(tools[i], "result"), st)
    BY <1>2, ListFacts
  <2> HIDE DEF uo
  <2>2. \A i \in 1..Len(tools) : TellsOf(uo[i], n, ToolParts, i - 1, st)
    BY <2>1, GeminiToolCall, "tool" # "part"
  <2> QED
    BY <1>2, <2>1, <2>2, EachTells
<1>7. Tells(x, n, {"thinking"}, st) /\ x # <<>> /\ Tells(y, n, {"self"}, st) /\ y # <<>>
  BY EvTells DEF Gem!Ev, Ev
<1> HIDE DEF x, y, a, d, e
<1>8. Tells(b, n, {"thinking"}, st) /\ Tells(c, n, {"self"}, st)
  BY <1>7, TellsWhen
<1>9. a # <<>> \/ b # <<>> \/ c # <<>> \/ d # <<>>
  BY <1>4, <1>5, <1>7 DEF When
<1> HIDE DEF b, c
<1> DEFINE abc == (a \o b) \o c
           pqr == ({"thought"} \cup {"thinking"}) \cup {"self"}
<1>10. /\ {"thought"} \cap {"thinking"} = {} /\ ({"thought"} \cup {"thinking"}) \cap {"self"} = {}
       /\ pqr \cap PartParts = {} /\ (pqr \cup PartParts) \cap ToolParts = {}
  BY DEF PartParts, ToolParts
<1>11. Tells(abc, n, pqr, st) /\ (a # <<>> \/ b # <<>> \/ c # <<>> => abc # <<>>)
  BY <1>4, <1>8, <1>10, TellsThree
<1> HIDE DEF abc, pqr
<1>12. Tells((abc \o d) \o e, n, (pqr \cup PartParts) \cup ToolParts, st) /\ (abc \o d) \o e # <<>>
  BY <1>5, <1>6, <1>9, <1>10, <1>11, TellsThree
<1> QED
  BY <1>1, <1>12 DEF abc, Answers

(* Every line of a session of Gemini, attributed to the session that is in *)
(* force once it has been read.                                            *)
LEMMA GeminiTells ==
    ASSUME NEW n, NEW rec, NEW c, rec # Blank,
           rec # Torn => /\ AList(Get(rec, "content")) /\ AList(Get(rec, "thoughts"))
                         /\ AList(Get(rec, "toolCalls"))
    PROVE  Answers(Gem!Take(n, rec, c).events, n, Gem!Stamp(Gem!Take(n, rec, c).carried))
<1>0. \A part, kind, raw, stamp, says, st : stamp = st \/ kind = "unparsed.record" =>
         Answers(<<Gem!Ev(n, part, 0, kind, raw, stamp, says)>>, n, st)
  BY EvAnswers DEF Gem!Ev, Ev
<1>1. CASE rec = Torn
  <2>1. Gem!Take(n, rec, c).events = <<Gem!Unparsed(n, "self", 0, rec, Gem!NoStamp)>>
    BY <1>1 DEF Gem!Take, Gem!ReadLine
  <2> QED
    BY <1>0, <2>1 DEF Gem!Unparsed
<1>2. CASE rec # Torn
  <2>1. Gem!Take(n, rec, c) = Gem!Record(n, rec, c)
    BY <1>2 DEF Gem!Take, Gem!ReadLine
  <2> DEFINE st == Gem!Stamp(c)
  <2>2. Answers(Gem!Turn(n, rec, st), n, st)
    <3> HIDE DEF st
    <3> QED
      BY <1>2, GeminiTurn
  <2>3. Answers(Gem!Message(n, rec, st), n, st)
    <3> HIDE DEF st
    <3> QED
      BY <1>0, <2>2 DEF Gem!Message, Gem!Unparsed
  <2>4. Answers(Gem!Header(n, rec).events, n, Gem!Stamp(Gem!Header(n, rec).carried))
    <3> DEFINE h == [session |-> rec.sessionId]
               hs == Gem!Stamp(h)
    <3>1. Gem!Header(n, rec) =
             [carried |-> h, events |-> <<Gem!Ev(n, "self", 0, "session.start", rec, hs, Null)>>]
      BY DEF Gem!Header
    <3> HIDE DEF h
    <3>2. Answers(<<Gem!Ev(n, "self", 0, "session.start", rec, hs, Null)>>, n, hs)
      <4> HIDE DEF hs
      <4> QED
        BY <1>0
    <3> QED
      BY <3>1, <3>2
  <2>5. \A kind : Answers(<<Gem!Ev(n, "self", 0, kind, rec, st, Null)>>, n, st)
    <3> HIDE DEF st
    <3> QED
      BY <1>0
  <2>6. Answers(Gem!Record(n, rec, c).events, n, Gem!Stamp(Gem!Record(n, rec, c).carried))
    <3> HIDE DEF st
    <3>1. \/ Gem!Record(n, rec, c) = Gem!Header(n, rec)
          \/ /\ Gem!Record(n, rec, c).carried = c
             /\ \/ Gem!Record(n, rec, c).events = Gem!Message(n, rec, st)
                \/ \E kind : Gem!Record(n, rec, c).events = <<Gem!Ev(n, "self", 0, kind, rec, st, Null)>>
      BY DEF Gem!Record, Gem!Unparsed, st
    <3> QED
      BY <2>3, <2>4, <2>5, <3>1 DEF st
  <2> QED
    BY <2>1, <2>6
<1> QED
  BY <1>1, <1>2

(* Every prompt of the log of them.                                        *)
LEMMA GeminiPromptTells ==
    ASSUME NEW n, NEW entry
    PROVE  \E stamp : Answers(Gem!TakePrompt(n, entry), n, stamp)
<1> DEFINE st == [Gem!NoStamp EXCEPT !.session = Gem!Get(entry, "sessionId")]
           a == <<Gem!Unparsed(n, "self", 0, entry, Gem!NoStamp)>>
           b == <<Gem!Ev(n, "self", 0, "prompt.history", entry, st, Null)>>
<1>1. Gem!TakePrompt(n, entry) = IF entry = Odd THEN a ELSE b
  BY DEF Gem!TakePrompt
<1>2. Answers(a, n, st) /\ Answers(b, n, st)
  <2> HIDE DEF st
  <2> QED
    BY EvAnswers DEF Gem!Unparsed, Gem!Ev, Ev
<1> QED
  BY <1>1, <1>2

(* An answer of Qwen's model.                                              *)
LEMMA QwenAssistant ==
    ASSUME NEW n, NEW rec, AList(Gem!QwenParts(rec))
    PROVE  Answers(Gem!Assistant(n, rec), n, Gem!QwenStamp(rec))
<1> DEFINE st == Gem!QwenStamp(rec)
           content == Gem!QwenParts(rec)
           calls == Gem!Parts(content, "call")
           answered == Gem!Says(content, "text")
           reasoned == Gem!Says(content, "thought")
           result == Gem!Get(rec, "toolCallResult")
           u == [i \in DOMAIN calls |-> Gem!ToolCall(n, rec, "tool", i - 1, calls[i].call, result, st)]
           x == <<Gem!Ev(n, "thinking", 0, "assistant.thinking", rec, st, Null)>>
           y == <<Gem!Ev(n, "self", 0, "assistant.text", rec, st, Null)>>
           a == When(reasoned, x)
           b == When(answered \/ calls = <<>>, y)
           c == FlattenSeq(u)
<1>1. Gem!Assistant(n, rec) = (a \o b) \o c
  <2> HIDE DEF c
  <2>1. c = Gem!Flattened(u)
    BY GeminiFlattens DEF c
  <2> QED
    BY <2>1 DEF Gem!Assistant, Gem!When, When, Gem!Each
<1>2. IsList(calls)
  BY GeminiParts
<1> HIDE DEF calls, answered, reasoned, content, st, result
<1>3. Tells(c, n, ToolParts, st) /\ (calls # <<>> => c # <<>>)
  <2>1. /\ u = [i \in DOMAIN calls |-> u[i]]
        /\ \A i \in 1..Len(calls) : u[i] = Gem!ToolCall(n, rec, "tool", i - 1, calls[i].call, result, st)
    BY <1>2, ListFacts
  <2> HIDE DEF u
  <2>2. \A k, call : /\ TellsOf(Gem!ToolCall(n, rec, "tool", k, call, result, st), n, ToolParts, k, st)
                     /\ Gem!ToolCall(n, rec, "tool", k, call, result, st) # <<>>
    BY GeminiToolCall
  <2>3. \A i \in 1..Len(calls) : TellsOf(u[i], n, ToolParts, i - 1, st) /\ u[i] # <<>>
    BY <2>1, <2>2
  <2> QED
    BY <1>2, <2>1, <2>3, EachTells
<1>4. Tells(x, n, {"thinking"}, st) /\ x # <<>> /\ Tells(y, n, {"self"}, st) /\ y # <<>>
  BY EvTells DEF Gem!Ev, Ev
<1> HIDE DEF x, y, c
<1>5. Tells(a, n, {"thinking"}, st) /\ Tells(b, n, {"self"}, st)
  BY <1>4, TellsWhen
<1>6. b # <<>> \/ c # <<>>
  BY <1>3, <1>4 DEF When
<1> HIDE DEF a, b
<1>7. {"thinking"} \cap {"self"} = {} /\ ({"thinking"} \cup {"self"}) \cap ToolParts = {}
  BY DEF ToolParts
<1>8. Tells((a \o b) \o c, n, ({"thinking"} \cup {"self"}) \cup ToolParts, st) /\ (a \o b) \o c # <<>>
  BY <1>3, <1>5, <1>6, <1>7, TellsThree
<1> QED
  BY <1>1, <1>8 DEF Answers, st

(* The results of Qwen's calls.                                            *)
LEMMA QwenResults ==
    ASSUME NEW n, NEW rec, AList(Gem!QwenParts(rec))
    PROVE  Answers(Gem!Results(n, rec), n, Gem!QwenStamp(rec))
<1> DEFINE st == Gem!QwenStamp(rec)
           results == Gem!Parts(Gem!QwenParts(rec), "response")
           u == [i \in DOMAIN results |->
                    <<Gem!Ev(n, "result", i - 1, "tool.result", rec, st,
                             Gem!Call(results[i].response.name, results[i].response.id))>>]
           one == <<Gem!Ev(n, "result", 0, "tool.result", rec, st, Gem!Call(Null, Null))>>
<1>1. Gem!Results(n, rec) = IF results = <<>> THEN one ELSE FlattenSeq(u)
  BY GeminiFlattens DEF Gem!Results, Gem!Each
<1>2. IsList(results)
  BY GeminiParts
<1> HIDE DEF results, st
<1>3. /\ u = [i \in DOMAIN results |-> u[i]]
      /\ \A i \in 1..Len(results) :
            u[i] = <<Gem!Ev(n, "result", i - 1, "tool.result", rec, st,
                            Gem!Call(results[i].response.name, results[i].response.id))>>
  BY <1>2, ListFacts
<1> HIDE DEF u
<1>4. \A i \in 1..Len(results) : TellsOf(u[i], n, {"result"}, i - 1, st) /\ u[i] # <<>>
  <2> TAKE i \in 1..Len(results)
  <2> DEFINE says == Gem!Call(results[i].response.name, results[i].response.id)
  <2>1. u[i] = <<Gem!Ev(n, "result", i - 1, "tool.result", rec, st, says)>>
    BY <1>3
  <2> HIDE DEF says
  <2> QED
    BY <2>1, EvTells DEF Gem!Ev, Ev
<1>5. Tells(FlattenSeq(u), n, {"result"}, st) /\ (results # <<>> => FlattenSeq(u) # <<>>)
  BY <1>2, <1>3, <1>4, EachTells
<1>6. Answers(one, n, st)
  BY EvAnswers DEF Gem!Ev, Ev
<1> QED
  BY <1>1, <1>5, <1>6 DEF Answers, st

(* Every line of a transcript of Qwen Code.                                *)
LEMMA QwenTells ==
    ASSUME NEW n, NEW rec, NEW c, rec # Blank,
           rec # Torn => AList(Get(Get(rec, "message"), "parts"))
    PROVE  \E stamp : Answers(Gem!TakeQwen(n, rec, c).events, n, stamp)
<1> DEFINE st == Gem!QwenStamp(rec)
<1>0. \A kind, stamp : stamp = st \/ kind = "unparsed.record" =>
         Answers(<<Gem!Ev(n, "self", 0, kind, rec, stamp, Null)>>, n, st)
  <2> HIDE DEF st
  <2> QED
    BY EvAnswers DEF Gem!Ev, Ev
<1>1. CASE rec = Torn
  <2>1. Gem!TakeQwen(n, rec, c).events = <<Gem!Unparsed(n, "self", 0, rec, Gem!NoStamp)>>
    BY <1>1 DEF Gem!TakeQwen, Gem!ReadLine
  <2> HIDE DEF st
  <2> QED
    BY <1>0, <2>1 DEF Gem!Unparsed
<1>2. CASE rec # Torn
  <2>1. Gem!TakeQwen(n, rec, c).events = Gem!QwenRecord(n, rec, c).events
    BY <1>2 DEF Gem!TakeQwen, Gem!ReadLine
  <2>2. AList(Gem!QwenParts(rec))
    BY <1>2 DEF Gem!QwenParts, Gem!Get, Get
  <2>3. Answers(Gem!Assistant(n, rec), n, st) /\ Answers(Gem!Results(n, rec), n, st)
    BY <2>2, QwenAssistant, QwenResults
  <2>4. \/ Gem!QwenRecord(n, rec, c).events = Gem!Assistant(n, rec)
        \/ Gem!QwenRecord(n, rec, c).events = Gem!Results(n, rec)
        \/ \E kind, stamp : /\ stamp = st \/ kind = "unparsed.record"
                            /\ Gem!QwenRecord(n, rec, c).events = <<Gem!Ev(n, "self", 0, kind, rec, stamp, Null)>>
    <3> DEFINE E(kind, stamp) == <<Gem!Ev(n, "self", 0, kind, rec, stamp, Null)>>
    <3>1. \/ Gem!QwenRecord(n, rec, c).events = Gem!Assistant(n, rec)
          \/ Gem!QwenRecord(n, rec, c).events = Gem!Results(n, rec)
          \/ \E kind \in {"session.end", "user.prompt", "config.snapshot"} :
                Gem!QwenRecord(n, rec, c).events = E(kind, Gem!QwenStamp(rec))
          \/ Gem!QwenRecord(n, rec, c).events =
                E("unparsed.record", [Gem!NoStamp EXCEPT !.session = Gem!Get(rec, "sessionId")])
      BY DEF Gem!QwenRecord, Gem!Unparsed
    <3> HIDE DEF E
    <3> QED
      BY <3>1 DEF E
  <2> HIDE DEF st
  <2> QED
    BY <1>0, <2>1, <2>3, <2>4
<1> QED
  BY <1>1, <1>2

(* ------------------------------------------------ Codex, Copilot and Pi -- *)

(* What a record of the conversation of Codex tells.                       *)
LEMMA CodexResponse ==
    ASSUME NEW n, NEW rec, NEW item, NEW c
    PROVE  Answers(Cdx!ResponseItem(n, rec, item, c), n, Cdx!Stamp(c))
<1> DEFINE st == Cdx!Stamp(c)
<1>0. \A part, kind, stamp, says : stamp = st \/ kind = "unparsed.record" =>
         /\ Answers(<<Cdx!Ev(n, part, 0, kind, rec, stamp, says)>>, n, st)
         /\ Tells(<<Cdx!Ev(n, part, 0, kind, rec, stamp, says)>>, n, {part}, st)
         /\ <<Cdx!Ev(n, part, 0, kind, rec, stamp, says)>> # <<>>
  <2> HIDE DEF st
  <2> QED
    BY EvTells, EvAnswers DEF Cdx!Ev, Ev
<1>1. \A says, name, command :
         Answers(<<Cdx!Ev(n, "self", 0, "tool.call", rec, st, says)>>
                    \o When(command, <<Cdx!Ev(n, "exec", 0, "command.exec", rec, st, name)>>), n, st)
  <2> TAKE says, name, command
  <2> DEFINE a == <<Cdx!Ev(n, "self", 0, "tool.call", rec, st, says)>>
             b == <<Cdx!Ev(n, "exec", 0, "command.exec", rec, st, name)>>
             d == When(command, b)
  <2> HIDE DEF st
  <2>1. Tells(a, n, {"self"}, st) /\ a # <<>> /\ Tells(b, n, {"exec"}, st)
    BY <1>0
  <2> HIDE DEF a, b
  <2>2. Tells(d, n, {"exec"}, st) /\ {"self"} \cap {"exec"} = {}
    BY <2>1, TellsWhen
  <2> HIDE DEF d
  <2>3. Tells(a \o d, n, {"self"} \cup {"exec"}, st) /\ a \o d # <<>>
    BY <2>1, <2>2, TellsJoin
  <2> QED
    BY <2>3 DEF Answers, a, b, d
<1>2. \/ \E kind, stamp, says : /\ stamp = st \/ kind = "unparsed.record"
                                /\ Cdx!ResponseItem(n, rec, item, c) =
                                      <<Cdx!Ev(n, "self", 0, kind, rec, stamp, says)>>
      \/ \E says, name, command :
            Cdx!ResponseItem(n, rec, item, c) =
               <<Cdx!Ev(n, "self", 0, "tool.call", rec, st, says)>>
                  \o When(command, <<Cdx!Ev(n, "exec", 0, "command.exec", rec, st, name)>>)
  <2> DEFINE E(kind, stamp, says) == <<Cdx!Ev(n, "self", 0, kind, rec, stamp, says)>>
             X(says) == <<Cdx!Ev(n, "exec", 0, "command.exec", rec, st, says)>>
             type == Cdx!Get(item, "type")
             id == Cdx!Or(Cdx!Get(item, "call_id"), Cdx!Get(item, "id"))
             name == Cdx!Or(Cdx!Get(item, "name"), type)
             says1 == Cdx!Call(name, id)
             says2 == Cdx!Call(name, Null)
             odd == [Cdx!Stamp(c) EXCEPT !.branch = Null]
  <2>1. \/ Cdx!ResponseItem(n, rec, item, c) =
              E(IF Cdx!Get(item, "role") = "user" THEN "user.prompt" ELSE "assistant.text", st, c.model)
        \/ Cdx!ResponseItem(n, rec, item, c) = E("assistant.thinking", st, c.model)
        \/ Cdx!ResponseItem(n, rec, item, c) = E("tool.call", st, says1) \o When(Cdx!HasCommand(item), X(says2))
        \/ Cdx!ResponseItem(n, rec, item, c) = E("tool.result", st, Cdx!Call(Null, Cdx!Get(item, "call_id")))
        \/ Cdx!ResponseItem(n, rec, item, c) = E("unparsed.record", odd, Null)
    BY DEF Cdx!ResponseItem, Cdx!Unparsed, Cdx!When, When
  <2> HIDE DEF st, says1, says2, odd
  <2> QED
    BY <2>1
<1> HIDE DEF st
<1>3. Answers(Cdx!ResponseItem(n, rec, item, c), n, st)
  BY <1>0, <1>1, <1>2
<1> QED
  BY <1>3 DEF st

(* Every line of a rollout but the turn that sets what its records run     *)
(* with, attributed to what is in force once it has been read.             *)
LEMMA CodexTells ==
    ASSUME NEW n, NEW rec, NEW c, rec # Blank
    PROVE  \/ Answers(Cdx!Take(n, rec, c).events, n, Cdx!Stamp(Cdx!Take(n, rec, c).carried))
           \/ /\ Cdx!Take(n, rec, c).events = <<>>
              /\ rec # Torn /\ Get(rec, "type") = "turn_context"
<1>0. \A kind, stamp, says, st : stamp = st \/ kind = "unparsed.record" =>
         Answers(<<Cdx!Ev(n, "self", 0, kind, rec, stamp, says)>>, n, st)
  BY EvAnswers DEF Cdx!Ev, Ev
<1>1. CASE rec = Torn
  <2>1. Cdx!Take(n, rec, c).events = <<Cdx!Unparsed(n, "self", 0, rec, Cdx!NoStamp)>>
    BY <1>1 DEF Cdx!Take, Cdx!ReadLine
  <2> QED
    BY <1>0, <2>1 DEF Cdx!Unparsed
<1>2. CASE rec # Torn
  <2> DEFINE payload == Cdx!Get(rec, "payload")
             odd == [Cdx!Stamp(c) EXCEPT !.branch = Null]
             E(kind, stamp) == <<Cdx!Ev(n, "self", 0, kind, rec, stamp, Null)>>
             R == Cdx!Record(n, rec, c)
             S == Cdx!SessionMeta(n, rec, payload, c)
  <2>1. Cdx!Take(n, rec, c) = R
    BY <1>2 DEF Cdx!Take, Cdx!ReadLine
  <2>2. Answers(S.events, n, Cdx!Stamp(S.carried))
    <3> DEFINE t == [session |-> Cdx!Or(Cdx!Get(payload, "id"), Cdx!Or(Cdx!Get(payload, "session_id"), c.session)),
                     cwd |-> Cdx!Or(Cdx!Get(payload, "cwd"), c.cwd),
                     branch |-> Cdx!Or(Cdx!Get(Cdx!Get(payload, "git"), "branch"), c.branch),
                     model |-> Cdx!Or(Cdx!Get(payload, "model"),
                                      Cdx!Or(Cdx!Get(payload, "model_provider"), c.model))]
    <3>1. S = [carried |-> t, events |-> <<Cdx!Ev(n, "self", 0, "session.start", rec, Cdx!Stamp(t), t.model)>>]
      BY DEF Cdx!SessionMeta
    <3> HIDE DEF t, S
    <3>2. Answers(<<Cdx!Ev(n, "self", 0, "session.start", rec, Cdx!Stamp(t), t.model)>>, n, Cdx!Stamp(t))
      BY <1>0
    <3> QED
      BY <3>1, <3>2
  <2>3. \/ R = S
        \/ R.events = <<>> /\ Get(rec, "type") = "turn_context"
        \/ /\ R.carried = c
           /\ \/ \E kind \in {"session.end", "config.snapshot"} : R.events = E(kind, Cdx!Stamp(c))
              \/ R.events = Cdx!ResponseItem(n, rec, payload, c)
              \/ R.events = E("unparsed.record", odd)
    <3> HIDE DEF S
    <3> QED
      BY DEF Cdx!Record, Cdx!Unparsed, Cdx!Get, Get, S
  <2>4. Answers(Cdx!ResponseItem(n, rec, payload, c), n, Cdx!Stamp(c))
    BY CodexResponse
  <2>5. /\ \A kind : Answers(E(kind, Cdx!Stamp(c)), n, Cdx!Stamp(c))
        /\ Answers(E("unparsed.record", odd), n, Cdx!Stamp(c))
    <3> HIDE DEF odd
    <3> QED
      BY <1>0
  <2> HIDE DEF E, R, S, odd, payload
  <2> QED
    BY <1>2, <2>1, <2>2, <2>3, <2>4, <2>5
<1> QED
  BY <1>1, <1>2

(* Every line of the prompts that were typed.                              *)
LEMMA CodexHistoryTells ==
    ASSUME NEW n, NEW rec, NEW c, rec # Blank
    PROVE  \E stamp : Answers(Cdx!TakeHistory(n, rec, c).events, n, stamp)
<1> DEFINE st == [Cdx!NoStamp EXCEPT !.session = Cdx!Get(rec, "session_id")]
           a == <<Cdx!Unparsed(n, "self", 0, rec, Cdx!NoStamp)>>
           b == <<Cdx!Ev(n, "self", 0, "prompt.history", rec, st, Null)>>
<1>1. Cdx!TakeHistory(n, rec, c).events = IF rec = Torn THEN a ELSE b
  BY DEF Cdx!TakeHistory, Cdx!ReadLine, Cdx!History
<1>2. Answers(a, n, st) /\ Answers(b, n, st)
  <2> HIDE DEF st
  <2> QED
    BY EvAnswers DEF Cdx!Unparsed, Cdx!Ev, Ev
<1> QED
  BY <1>1, <1>2

(* Every line of an event log of Copilot, attributed to what is in force   *)
(* once it has been read.                                                  *)
LEMMA CopilotTells ==
    ASSUME NEW n, NEW rec, NEW c, rec # Blank
    PROVE  Answers(Cop!Take(n, rec, c).events, n, Cop!Stamp(Cop!Take(n, rec, c).carried))
<1>0. \A part, kind, stamp, says, st : stamp = st \/ kind = "unparsed.record" =>
         /\ Answers(<<Cop!Ev(n, part, 0, kind, rec, stamp, says)>>, n, st)
         /\ Tells(<<Cop!Ev(n, part, 0, kind, rec, stamp, says)>>, n, {part}, st)
         /\ <<Cop!Ev(n, part, 0, kind, rec, stamp, says)>> # <<>>
  BY EvTells, EvAnswers DEF Cop!Ev, Ev
<1>1. CASE rec = Torn
  <2>1. Cop!Take(n, rec, c).events = <<Cop!Unparsed(n, "self", 0, rec, Cop!NoStamp)>>
    BY <1>1 DEF Cop!Take, Cop!ReadLine
  <2> QED
    BY <1>0, <2>1 DEF Cop!Unparsed
<1>2. CASE rec # Torn
  <2> DEFINE data == IF Cop!Given(Cop!Get(rec, "data")) THEN rec.data ELSE Null
             t == Cop!Update(data, c)
             st == Cop!Stamp(t)
             E(kind, says) == <<Cop!Ev(n, "self", 0, kind, rec, st, says)>>
             X(says) == <<Cop!Ev(n, "exec", 0, "command.exec", rec, st, says)>>
  <2>1. Cop!Take(n, rec, c) = [carried |-> t, events |-> Cop!Map(n, rec, data, t)]
    BY <1>2 DEF Cop!Take, Cop!ReadLine, Cop!Record
  <2> HIDE DEF data, t
  <2>2. \/ \E kind, says : Cop!Map(n, rec, data, t) = E(kind, says)
        \/ \E kind, says, name, command : Cop!Map(n, rec, data, t) = E(kind, says) \o When(command, X(name))
    <3> DEFINE says1 == Cop!Call(Cop!Get(data, "toolName"), Cop!Get(data, "toolCallId"))
               says2 == Cop!Call(says1.tool, Null)
               arguments == Cop!Get(data, "arguments")
               command == Cop!Said(IF Cop!Given(arguments) THEN Cop!Get(arguments, "command")
                                   ELSE Cop!Get(data, "command"))
               call == IF Cop!Said(Cop!Get(data, "mcpServerName")) THEN "mcp.call" ELSE "tool.call"
               kind1 == Cop!KindOf[Cop!Get(rec, "type")]
    <3>1. \/ Cop!Map(n, rec, data, t) = E(call, says1) \o When(command, X(says2))
          \/ Cop!Map(n, rec, data, t) = E("tool.result", says1)
          \/ Cop!Map(n, rec, data, t) = E(kind1, t.model)
          \/ Cop!Map(n, rec, data, t) = E("unparsed.record", Null)
      <4> HIDE DEF kind1
      <4> QED
        BY DEF Cop!Map, Cop!ToolStart, Cop!Unparsed, Cop!When, When, kind1
    <3> HIDE DEF says1, says2, command, call, kind1, E, X
    <3> QED
      BY <3>1
  <2> HIDE DEF st
  <2>3. ASSUME NEW kind, NEW says, NEW name, NEW command
        PROVE  Answers(E(kind, says) \o When(command, X(name)), n, st)
    <3> DEFINE a == E(kind, says)
               b == X(name)
               d == When(command, b)
    <3>1. Tells(a, n, {"self"}, st) /\ a # <<>> /\ Tells(b, n, {"exec"}, st)
      BY <1>0
    <3> HIDE DEF a, b
    <3>2. Tells(d, n, {"exec"}, st) /\ {"self"} \cap {"exec"} = {}
      BY <3>1, TellsWhen
    <3> HIDE DEF d
    <3>3. Tells(a \o d, n, {"self"} \cup {"exec"}, st) /\ a \o d # <<>>
      BY <3>1, <3>2, TellsJoin
    <3> QED
      BY <3>3 DEF Answers, a, b, d
  <2>4. \A kind, says : Answers(E(kind, says), n, st)
    BY <1>0
  <2> HIDE DEF E, X
  <2>5. Answers(Cop!Map(n, rec, data, t), n, st)
    BY <2>2, <2>3, <2>4
  <2> QED
    BY <2>1, <2>5 DEF st
<1> QED
  BY <1>1, <1>2

(* Pi's reader flattens lists as any does.                                 *)
LEMMA PiFlattens == \A u : PiA!Flattened(u) = FlattenSeq(u)
BY DEF PiA!Flattened, FlattenSeq

(* A call of Pi's, and what it did.                                        *)
LEMMA PiToolCall ==
    ASSUME NEW n, NEW i, NEW call, NEW rec, NEW st
    PROVE  /\ TellsOf(PiA!ToolCall(n, i, call, rec, st), n, {"tool"} \cup {"effect"}, i, st)
           /\ PiA!ToolCall(n, i, call, rec, st) # <<>>
<1> DEFINE says == PiA!Call(call.name, call.id)
           a == <<PiA!Ev(n, "tool", i, IF PiA!Said(PiA!Get(call, "namespace")) THEN "mcp.call" ELSE "tool.call",
                         rec, st, says)>>
           b == <<PiA!Ev(n, "effect", i, PiA!Effect(call), rec, st, says)>>
           c == PiA!Effect(call) # Null
           d == When(c, b)
<1>1. TellsOf(a, n, {"tool"}, i, st) /\ a # <<>> /\ TellsOf(b, n, {"effect"}, i, st)
  <2> HIDE DEF says
  <2> QED
    BY EvTells DEF PiA!Ev, Ev
<1>2. PiA!ToolCall(n, i, call, rec, st) = a \o d
  BY DEF PiA!ToolCall, PiA!When, When
<1> HIDE DEF a, b, c
<1>3. TellsOf(d, n, {"effect"}, i, st)
  BY <1>1, TellsWhen
<1>4. {"tool"} \cap {"effect"} = {}
  OBVIOUS
<1> HIDE DEF d
<1>5. Tells(a, n, {"tool"}, st) /\ Tells(d, n, {"effect"}, st)
  BY <1>1, <1>3 DEF TellsOf
<1>6. TellsOf(a \o d, n, {"tool"} \cup {"effect"}, i, st) /\ a \o d # <<>>
  BY <1>1, <1>3, <1>4, <1>5, TellsJoin
<1> QED
  BY <1>2, <1>6

(* An answer of the model.                                                 *)
LEMMA PiAssistant ==
    ASSUME NEW n, NEW rec, NEW message, NEW c, AList(Get(message, "content"))
    PROVE  Answers(PiA!Assistant(n, rec, message, c), n, PiA!Stamp(c))
<1> DEFINE st == PiA!Stamp(c)
           only == PiA!SessionOnly(c)
           blocks == PiA!Blocks(PiA!Get(message, "content"))
           v == [i \in DOMAIN blocks |-> PiA!When(PiA!Get(blocks[i], "type") = "toolCall", <<blocks[i]>>)]
           w == [i \in DOMAIN blocks |->
                    PiA!When(PiA!Get(blocks[i], "type") \notin {"text", "thinking", "toolCall"}, <<blocks[i]>>)]
           calls == FlattenSeq(v)
           unknown == FlattenSeq(w)
           thought == PiA!Has(blocks, "thinking", "thinking")
           answered == PiA!Has(blocks, "text", "text")
           model == PiA!Or(PiA!Get(message, "model"), c.model)
           uc == [i \in DOMAIN calls |-> PiA!ToolCall(n, i - 1, calls[i], rec, st)]
           uo == [i \in DOMAIN unknown |-> <<PiA!Unparsed(n, "block", i - 1, unknown[i], only)>>]
           x == <<PiA!Ev(n, "thinking", 0, "assistant.thinking", rec, st, Null)>>
           y == <<PiA!Ev(n, "self", 0, "assistant.text", rec, st, model)>>
           a == When(thought, x)
           b == When(answered \/ calls = <<>>, y)
           d == FlattenSeq(uc)
           e == FlattenSeq(uo)
<1>1. PiA!Assistant(n, rec, message, c) = ((a \o b) \o d) \o e
  <2> HIDE DEF blocks
  <2>1. calls = PiA!Flattened(v) /\ unknown = PiA!Flattened(w)
    BY PiFlattens
  <2> HIDE DEF calls, unknown
  <2>2. d = PiA!Flattened(uc) /\ e = PiA!Flattened(uo)
    BY PiFlattens
  <2> HIDE DEF d, e
  <2> QED
    BY <2>1, <2>2 DEF PiA!Assistant, PiA!When, When, PiA!Each, PiA!Those, blocks
<1>2. IsList(blocks)
  <2> DEFINE content == PiA!Get(message, "content")
  <2>1. AList(content)
    BY DEF PiA!Get, Get
  <2> HIDE DEF content
  <2>2. \/ \E z : PiA!Blocks(content) = <<z>>
        \/ PiA!Blocks(content) = <<>> \/ IsList(PiA!Blocks(content))
    BY <2>1 DEF AList, Members, Range, Given, IsList, PiA!Blocks, PiA!Listed, PiA!Given
  <2> QED
    BY <2>2, ShortLists DEF content
<1> HIDE DEF blocks
<1>3. IsList(calls) /\ IsList(unknown)
  <2>1. /\ v = [i \in DOMAIN blocks |-> v[i]] /\ w = [i \in DOMAIN blocks |-> w[i]]
        /\ \A i \in DOMAIN blocks : v[i] \in {<<>>, <<blocks[i]>>}
        /\ \A i \in DOMAIN blocks : w[i] \in {<<>>, <<blocks[i]>>}
    BY DEF PiA!When
  <2> HIDE DEF v, w
  <2> QED
    BY <1>2, <2>1, ChosenFacts
<1> HIDE DEF calls, unknown, thought, answered, st, only, model
<1>4. Tells(d, n, {"tool"} \cup {"effect"}, st) /\ (calls # <<>> => d # <<>>)
  <2>1. /\ uc = [i \in DOMAIN calls |-> uc[i]]
        /\ \A i \in 1..Len(calls) : uc[i] = PiA!ToolCall(n, i - 1, calls[i], rec, st)
    BY <1>3, ListFacts
  <2> HIDE DEF uc
  <2>2. \A i \in 1..Len(calls) : TellsOf(uc[i], n, {"tool"} \cup {"effect"}, i - 1, st) /\ uc[i] # <<>>
    BY <2>1, PiToolCall
  <2> QED
    BY <1>3, <2>1, <2>2, EachTells
<1>5. Tells(e, n, {"block"}, st)
  <2>1. /\ uo = [i \in DOMAIN unknown |-> uo[i]]
        /\ \A i \in 1..Len(unknown) : uo[i] = <<PiA!Unparsed(n, "block", i - 1, unknown[i], only)>>
    BY <1>3, ListFacts
  <2> HIDE DEF uo
  <2>2. \A i \in 1..Len(unknown) : TellsOf(uo[i], n, {"block"}, i - 1, st)
    BY <2>1, EvTells DEF PiA!Unparsed, PiA!Ev, Ev
  <2> QED
    BY <1>3, <2>1, <2>2, EachTells
<1>6. Tells(x, n, {"thinking"}, st) /\ x # <<>> /\ Tells(y, n, {"self"}, st) /\ y # <<>>
  BY EvTells DEF PiA!Ev, Ev
<1> HIDE DEF x, y, d, e
<1>7. Tells(a, n, {"thinking"}, st) /\ Tells(b, n, {"self"}, st)
  BY <1>6, TellsWhen
<1>8. b # <<>> \/ d # <<>>
  BY <1>4, <1>6 DEF When
<1> HIDE DEF a, b
<1> DEFINE abd == (a \o b) \o d
           pqr == ({"thinking"} \cup {"self"}) \cup ({"tool"} \cup {"effect"})
<1>9. /\ {"thinking"} \cap {"self"} = {} /\ ({"thinking"} \cup {"self"}) \cap ({"tool"} \cup {"effect"}) = {}
      /\ pqr \cap {"block"} = {}
  OBVIOUS
<1>10. Tells(abd, n, pqr, st) /\ abd # <<>>
  BY <1>4, <1>7, <1>8, <1>9, TellsThree
<1> HIDE DEF abd, pqr
<1>11. Tells(abd \o e, n, pqr \cup {"block"}, st) /\ abd \o e # <<>>
  BY <1>5, <1>9, <1>10, TellsJoin
<1> QED
  BY <1>1, <1>11 DEF abd, Answers, st

(* Every line of a session of Pi, attributed to what is in force once it   *)
(* has been read.                                                          *)
LEMMA PiTells ==
    ASSUME NEW n, NEW rec, NEW c, rec # Blank,
           rec # Torn => AList(Get(Get(rec, "message"), "content"))
    PROVE  Answers(PiA!Take(n, rec, c).events, n, PiA!Stamp(PiA!Take(n, rec, c).carried))
<1>0. \A kind, stamp, says, st : stamp = st \/ kind = "unparsed.record" =>
         Answers(<<PiA!Ev(n, "self", 0, kind, rec, stamp, says)>>, n, st)
  BY EvAnswers DEF PiA!Ev, Ev
<1>1. CASE rec = Torn
  <2> DEFINE only == PiA!SessionOnly(c)
  <2>1. PiA!Take(n, rec, c).events = <<PiA!Unparsed(n, "self", 0, rec, only)>>
    BY <1>1 DEF PiA!Take, PiA!ReadLine
  <2> HIDE DEF only
  <2> QED
    BY <1>0, <2>1 DEF PiA!Unparsed
<1>2. CASE rec # Torn
  <2> DEFINE message == PiA!Get(rec, "message")
             only == PiA!SessionOnly(c)
             R == PiA!Record(n, rec, c)
             M == PiA!Message(n, rec, c)
             E(kind, stamp, says) == <<PiA!Ev(n, "self", 0, kind, rec, stamp, says)>>
  <2>1. PiA!Take(n, rec, c) = R
    BY <1>2 DEF PiA!Take, PiA!ReadLine
  <2>2. Answers(PiA!Assistant(n, rec, message, c), n, PiA!Stamp(c))
    <3>1. AList(Get(message, "content"))
      BY <1>2 DEF PiA!Get, Get
    <3> HIDE DEF message
    <3> QED
      BY <3>1, PiAssistant
  <2>3. Answers(M, n, PiA!Stamp(c))
    <3> DEFINE says1 == PiA!Call(PiA!Get(message, "toolName"), PiA!Get(message, "toolCallId"))
    <3>1. \/ M = PiA!Assistant(n, rec, message, c)
          \/ M = E("user.prompt", PiA!Stamp(c), Null) \/ M = E("tool.result", PiA!Stamp(c), says1)
          \/ M = E("config.snapshot", PiA!Stamp(c), Null) \/ M = E("unparsed.record", only, Null)
      BY DEF PiA!Message, PiA!Unparsed
    <3> HIDE DEF M, says1, only, message
    <3> QED
      BY <1>0, <2>2, <3>1
  <2>4. \/ R.carried = c /\ R.events = M
        \/ \E kind : R.events = E(kind, PiA!Stamp(R.carried), Null)
        \/ R.events = E("unparsed.record", only, Null)
    <3> DEFINE began == PiA!Began(rec, c)
               changed == [c EXCEPT !.model = PiA!Get(rec, "modelId")]
    <3>1. \/ R.carried = c /\ R.events = M
          \/ R.carried = began /\ R.events = E("session.start", PiA!Stamp(began), Null)
          \/ R.carried = changed /\ R.events = E("config.snapshot", PiA!Stamp(changed), Null)
          \/ R.carried = c /\ R.events = E("session.end", PiA!Stamp(c), Null)
          \/ R.carried = c /\ R.events = E("config.snapshot", PiA!Stamp(c), Null)
          \/ R.events = E("unparsed.record", only, Null)
      <4> HIDE DEF M
      <4> QED
        BY DEF PiA!Record, PiA!Unparsed, M
    <3> HIDE DEF began, changed, M, R, only
    <3> QED
      BY <3>1
  <2> HIDE DEF M, R, only
  <2> QED
    BY <1>0, <2>1, <2>3, <2>4
<1> QED
  BY <1>1, <1>2

(* -------------------------------------------------------- Goose, Cline -- *)

(* Goose's reader flattens lists as any does.                              *)
LEMMA GooseFlattens == \A u : Goo!Flattened(u) = FlattenSeq(u)
BY DEF Goo!Flattened, FlattenSeq

(* A request of Goose's is at one place with its claim and its effect,     *)
(* which are of other kinds.                                               *)
LEMMA GooseToolRequest ==
    ASSUME NEW n, NEW i, NEW block, NEW header
    PROVE  /\ TellsOf(Goo!ToolRequest(n, i, block, header), n, {"content"}, i, Goo!Stamp(header))
           /\ Goo!ToolRequest(n, i, block, header) # <<>>
<1> DEFINE st == Goo!Stamp(header)
           says == Goo!Call(block.tool, block.id)
           facet == Goo!Facet(block)
           E(kind) == Goo!Ev(n, "content", i, kind, block, st, says)
           a == <<E("tool.call")>>
           b == <<E("mcp.call")>>
           c == <<E(facet)>>
           d == When(Goo!Said(block.extension) /\ block.extension \in header.servers, b)
           e == When(facet # Null, c)
<1>1. Goo!ToolRequest(n, i, block, header) = (a \o d) \o e
  BY DEF Goo!ToolRequest, Goo!When, When
<1>2. facet # Null => facet \in {"command.exec", "file.write", "file.read", "network.request"}
  BY DEF Goo!Facet
<1> HIDE DEF st, says, facet
<1>3. \A kind : E(kind).kind = kind /\ TellsOf(<<E(kind)>>, n, {"content"}, i, st) /\ <<E(kind)>> # <<>>
  BY EvTells DEF Goo!Ev, Ev
<1> HIDE DEF E
<1>4. /\ TellsOf(a, n, {"content"}, i, st) /\ a # <<>>
      /\ TellsOf(d, n, {"content"}, i, st) /\ TellsOf(e, n, {"content"}, i, st)
  BY <1>3, TellsNone DEF When
<1>5. /\ Range(a) = {E("tool.call")} /\ Range(d) \subseteq {E("mcp.call")}
      /\ facet = Null => Range(e) = {}
      /\ facet # Null => Range(e) = {E(facet)}
  BY ShortLists DEF When
<1> DEFINE ad == a \o d
<1>6. /\ \A x \in Range(a), y \in Range(d) : Identity(x) # Identity(y)
      /\ \A x \in Range(a) \cup Range(d), y \in Range(e) : Identity(x) # Identity(y)
  <2>1. /\ \A x \in Range(a) : x.kind = "tool.call"
        /\ \A x \in Range(d) : x.kind = "mcp.call"
        /\ \A x \in Range(e) : x.kind = facet /\ facet # Null
    BY <1>3, <1>5
  <2> HIDE DEF a, d, e
  <2> QED
    BY <1>2, <2>1 DEF Identity
<1> HIDE DEF a, d, e
<1>7. Tells(a, n, {"content"}, st) /\ Tells(d, n, {"content"}, st) /\ Tells(e, n, {"content"}, st)
  BY <1>4 DEF TellsOf
<1>8. /\ TellsOf(ad, n, {"content"} \cup {"content"}, i, st) /\ ad # <<>>
      /\ Range(ad) = Range(a) \cup Range(d)
  BY <1>4, <1>6, <1>7, TellsApart
<1>9. {"content"} \cup {"content"} = {"content"}
  OBVIOUS
<1>10. TellsOf(ad, n, {"content"}, i, st) /\ Tells(ad, n, {"content"}, st)
  BY <1>8, <1>9 DEF TellsOf
<1>11. \A x \in Range(ad), y \in Range(e) : Identity(x) # Identity(y)
  BY <1>6, <1>8
<1> HIDE DEF ad
<1>12. TellsOf(ad \o e, n, {"content"} \cup {"content"}, i, st) /\ ad \o e # <<>>
  BY <1>4, <1>7, <1>8, <1>10, <1>11, TellsApart
<1> QED
  BY <1>1, <1>9, <1>12 DEF ad, st

(* What a message of Goose's tells.                                        *)
LEMMA GooseMessage ==
    ASSUME NEW n, NEW message, NEW header, AList(Get(message, "content"))
    PROVE  Answers(Goo!MessageEvents(n, message, header), n, Goo!Stamp(header))
<1> DEFINE st == Goo!Stamp(header)
           content == Goo!Get(message, "content")
           u == [i \in DOMAIN content |-> Goo!Block(n, i - 1, content[i], message, header)]
           one == <<Goo!Unparsed(n, "self", 0, message, st)>>
<1>1. \/ Goo!MessageEvents(n, message, header) = one
      \/ Goo!MessageEvents(n, message, header) = FlattenSeq(u) /\ Goo!Filled(content)
  BY GooseFlattens DEF Goo!MessageEvents, Goo!Each
<1>2. \A kind : /\ TellsOf(<<Goo!Ev(n, "self", 0, kind, message, st, Null)>>, n, {"self"}, 0, st)
                /\ <<Goo!Ev(n, "self", 0, kind, message, st, Null)>> # <<>>
  <2> HIDE DEF st
  <2> QED
    BY EvTells DEF Goo!Ev, Ev
<1>3. Answers(one, n, st)
  BY <1>2 DEF Goo!Unparsed, Answers, TellsOf
<1>4. ASSUME Goo!Filled(content)
      PROVE  Answers(FlattenSeq(u), n, st)
  <2>1. IsList(content) /\ content # <<>>
    BY <1>4 DEF AList, Members, Range, Given, IsList, Goo!Filled, Goo!Given, Goo!Get, Get
  <2>2. \A block, i : /\ TellsOf(Goo!Block(n, i, block, message, header), n, {"content"}, i, st)
                      /\ Goo!Block(n, i, block, message, header) # <<>>
    <3> TAKE block, i
    <3>1. \A kind, says : /\ TellsOf(<<Goo!Ev(n, "content", i, kind, block, Goo!Stamp(header), says)>>,
                                     n, {"content"}, i, st)
                          /\ <<Goo!Ev(n, "content", i, kind, block, Goo!Stamp(header), says)>> # <<>>
      <4> DEFINE sh == Goo!Stamp(header)
      <4> HIDE DEF sh
      <4>1. \A kind, says : /\ TellsOf(<<Goo!Ev(n, "content", i, kind, block, sh, says)>>,
                                       n, {"content"}, i, sh)
                            /\ <<Goo!Ev(n, "content", i, kind, block, sh, says)>> # <<>>
        BY EvTells DEF Goo!Ev, Ev
      <4> QED
        BY <4>1 DEF sh
    <3>2. \/ Goo!Block(n, i, block, message, header) = Goo!ToolRequest(n, i, block, header)
          \/ \E kind, says : Goo!Block(n, i, block, message, header) =
                                <<Goo!Ev(n, "content", i, kind, block, Goo!Stamp(header), says)>>
      <4> DEFINE E(kind, says) == <<Goo!Ev(n, "content", i, kind, block, Goo!Stamp(header), says)>>
                 text == Goo!TextBlock(message.role, message)
                 shown == IF message.role = "assistant" THEN "assistant.text" ELSE "user.prompt"
                 acted == Goo!ActionRequired(block)
                 says1 == Goo!Call(Null, block.id)
                 B == Goo!Block(n, i, block, message, header)
      <4>1. \/ B = Goo!ToolRequest(n, i, block, header)
            \/ B = E(text, Null) \/ B = E("assistant.thinking", Null) \/ B = E(shown, Null)
            \/ B = E("tool.result", says1) \/ B = E("permission.decision", Null)
            \/ B = E(acted, Null) \/ B = E("unparsed.record", Null)
        <5> HIDE DEF text, acted
        <5> QED
          BY DEF Goo!Block, Goo!ToolResponse, text, acted
      <4> HIDE DEF B, text, shown, acted, says1
      <4> QED
        BY <4>1 DEF B
    <3> HIDE DEF st
    <3>3. /\ TellsOf(Goo!ToolRequest(n, i, block, header), n, {"content"}, i, st)
          /\ Goo!ToolRequest(n, i, block, header) # <<>>
      BY GooseToolRequest DEF st
    <3> QED
      BY <3>1, <3>2, <3>3
  <2> HIDE DEF content
  <2>3. /\ u = [i \in DOMAIN content |-> u[i]]
        /\ \A i \in 1..Len(content) : u[i] = Goo!Block(n, i - 1, content[i], message, header)
    BY <2>1, ListFacts
  <2> HIDE DEF u, st
  <2>4. \A i \in 1..Len(content) : TellsOf(u[i], n, {"content"}, i - 1, st) /\ u[i] # <<>>
    BY <2>2, <2>3
  <2> QED
    BY <2>1, <2>3, <2>4, EachTells DEF Answers
<1> QED
  BY <1>1, <1>3, <1>4

(* Every line of a file of Goose's.                                        *)
LEMMA GooseTells ==
    ASSUME NEW n, NEW rec, NEW c, rec # Blank, rec # Torn => AList(Get(rec, "content"))
    PROVE  \E stamp : Answers(Goo!TakeLegacy(n, rec, c).events, n, stamp)
<1> DEFINE st == Goo!Stamp(c.header)
           h == Goo!Conversation(c.header.session, Goo!Get(rec, "working_dir"),
                                 IF Goo!Given(Goo!Get(rec, "servers")) THEN rec.servers ELSE {})
           sh == Goo!Stamp(h)
           a == <<Goo!Unparsed(n, "self", 0, rec, st)>>
           b == <<Goo!Ev(n, "self", 0, "session.start", rec, sh, Null)>>
           d == Goo!MessageEvents(n, rec, c.header)
<1>1. \/ Goo!TakeLegacy(n, rec, c).events = a
      \/ Goo!TakeLegacy(n, rec, c).events = b
      \/ rec # Torn /\ Goo!TakeLegacy(n, rec, c).events = d
  <2> HIDE DEF a, b, d
  <2> QED
    BY DEF Goo!TakeLegacy, Goo!LegacyHeader, a, b, d
<1>2. Answers(a, n, st) /\ Answers(b, n, sh)
  <2> HIDE DEF st, sh
  <2> QED
    BY EvAnswers DEF Goo!Unparsed, Goo!Ev, Ev
<1>3. rec # Torn => Answers(d, n, st)
  BY GooseMessage
<1> QED
  BY <1>1, <1>2, <1>3

(* Cline's reader flattens lists as any does.                              *)
LEMMA ClineFlattens == \A u : Cli!Flattened(u) = FlattenSeq(u)
BY DEF Cli!Flattened, FlattenSeq

(* The blocks of a message, and those of them that are of some types.      *)
LEMMA ClineBlocks ==
    ASSUME NEW message, AList(Get(message, "content")), NEW types
    PROVE  IsList(Cli!Blocks(message)) /\ IsList(Cli!OfType(Cli!Blocks(message), types))
<1> DEFINE blocks == Cli!Blocks(message)
           v == [i \in DOMAIN blocks |-> Cli!When(Cli!Get(blocks[i], "type") \in types, <<blocks[i]>>)]
<1>1. IsList(blocks)
  <2>1. \/ \E z : blocks = <<z>>
        \/ blocks = <<>> \/ IsList(blocks)
    BY DEF AList, Members, Range, Given, IsList, Cli!Blocks, Cli!Listed, Cli!Given, Cli!Get, Get
  <2> HIDE DEF blocks
  <2> QED
    BY <2>1, ShortLists
<1> HIDE DEF blocks
<1>2. Cli!OfType(blocks, types) = FlattenSeq(v)
  BY ClineFlattens DEF Cli!OfType, Cli!Those
<1>3. /\ v = [i \in DOMAIN blocks |-> v[i]]
      /\ \A i \in DOMAIN blocks : v[i] \in {<<>>, <<blocks[i]>>}
  BY DEF Cli!When
<1> HIDE DEF v
<1>4. IsList(FlattenSeq(v))
  BY <1>1, <1>3, ChosenFacts
<1> QED
  BY <1>1, <1>2, <1>4 DEF blocks

(* What a user's entry tells: results, a prompt, or both.                  *)
LEMMA ClineUser ==
    ASSUME NEW n, NEW message, NEW st, AList(Get(message, "content"))
    PROVE  Answers(Cli!User(n, message, st), n, st)
<1> DEFINE results == Cli!OfType(Cli!Blocks(message), {"tool_result"})
           text == Cli!HasText(Cli!Blocks(message))
           u == [i \in DOMAIN results |->
                    <<Cli!Ev(n, "result", i - 1, "tool.result", message, st, Cli!Call(Null, results[i].tool_use_id))>>]
           y == <<Cli!Ev(n, "self", 0, "user.prompt", message, st, Null)>>
           a == FlattenSeq(u)
           b == When(text \/ results = <<>>, y)
<1>1. Cli!User(n, message, st) = a \o b
  <2> HIDE DEF a
  <2>1. a = Cli!Flattened(u)
    BY ClineFlattens DEF a
  <2> QED
    BY <2>1 DEF Cli!User, Cli!Each, Cli!When, When
<1>2. IsList(results)
  BY ClineBlocks
<1> HIDE DEF results, text
<1>3. Tells(a, n, {"result"}, st) /\ (results # <<>> => a # <<>>)
  <2>1. /\ u = [i \in DOMAIN results |-> u[i]]
        /\ \A i \in 1..Len(results) :
              u[i] = <<Cli!Ev(n, "result", i - 1, "tool.result", message, st, Cli!Call(Null, results[i].tool_use_id))>>
    BY <1>2, ListFacts
  <2> HIDE DEF u
  <2>2. \A i \in 1..Len(results) : TellsOf(u[i], n, {"result"}, i - 1, st) /\ u[i] # <<>>
    <3> TAKE i \in 1..Len(results)
    <3> DEFINE says == Cli!Call(Null, results[i].tool_use_id)
    <3>1. u[i] = <<Cli!Ev(n, "result", i - 1, "tool.result", message, st, says)>>
      BY <2>1
    <3> HIDE DEF says
    <3> QED
      BY <3>1, EvTells DEF Cli!Ev, Ev
  <2> QED
    BY <1>2, <2>1, <2>2, EachTells
<1>4. Tells(y, n, {"self"}, st) /\ y # <<>>
  BY EvTells DEF Cli!Ev, Ev
<1> HIDE DEF y, a
<1>5. Tells(b, n, {"self"}, st) /\ (a # <<>> \/ b # <<>>) /\ {"result"} \cap {"self"} = {}
  BY <1>3, <1>4, TellsWhen DEF When
<1> HIDE DEF b
<1>6. Tells(a \o b, n, {"result"} \cup {"self"}, st) /\ a \o b # <<>>
  BY <1>3, <1>5, TellsJoin
<1> QED
  BY <1>1, <1>6 DEF Answers

(* What an answer of the model tells.                                      *)
LEMMA ClineAssistant ==
    ASSUME NEW n, NEW message, NEW st, AList(Get(message, "content"))
    PROVE  Answers(Cli!Assistant(n, message, st), n, st)
<1> DEFINE thoughts == Cli!OfType(Cli!Blocks(message), {"thinking", "redacted_thinking"})
           calls == Cli!OfType(Cli!Blocks(message), {"tool_use"})
           text == Cli!HasText(Cli!Blocks(message))
           thought == \E i \in DOMAIN thoughts : Cli!Said(Cli!Get(thoughts[i], "thinking"))
           u == [i \in DOMAIN calls |-> Cli!ToolUse(n, i - 1, calls[i], message, st)]
           x == <<Cli!Ev(n, "thinking", 0, "assistant.thinking", message, st, Null)>>
           y == <<Cli!Ev(n, "self", 0, "assistant.text", message, st, Null)>>
           a == When(thought, x)
           b == When(text \/ calls = <<>>, y)
           d == FlattenSeq(u)
<1>1. Cli!Assistant(n, message, st) = (a \o b) \o d
  <2> HIDE DEF d
  <2>1. d = Cli!Flattened(u)
    BY ClineFlattens DEF d
  <2> QED
    BY <2>1 DEF Cli!Assistant, Cli!Each, Cli!When, When
<1>2. IsList(calls)
  BY ClineBlocks
<1> HIDE DEF calls, text, thought
<1>3. ASSUME NEW call, NEW i
      PROVE  /\ TellsOf(Cli!ToolUse(n, i, call, message, st), n, {"tool", "effect"}, i, st)
             /\ Cli!ToolUse(n, i, call, message, st) # <<>>
  <2> DEFINE says == Cli!Call(call.name, call.id)
             f == <<Cli!Ev(n, "tool", i, IF call.name \in Cli!Mcp THEN "mcp.call" ELSE "tool.call",
                           message, st, says)>>
             g == <<Cli!Ev(n, "effect", i, Cli!Effect(call), message, st, says)>>
             h == When(Cli!Effect(call) # Null, g)
  <2>1. Cli!ToolUse(n, i, call, message, st) = f \o h
    BY DEF Cli!ToolUse, Cli!When, When
  <2>2. TellsOf(f, n, {"tool"}, i, st) /\ f # <<>> /\ TellsOf(g, n, {"effect"}, i, st)
    <3> HIDE DEF says
    <3> QED
      BY EvTells DEF Cli!Ev, Ev
  <2> HIDE DEF f, g
  <2>3. TellsOf(h, n, {"effect"}, i, st) /\ {"tool"} \cap {"effect"} = {}
        /\ {"tool"} \cup {"effect"} = {"tool", "effect"}
    BY <2>2, TellsWhen
  <2> HIDE DEF h
  <2>4. Tells(f, n, {"tool"}, st) /\ Tells(h, n, {"effect"}, st)
    BY <2>2, <2>3 DEF TellsOf
  <2>5. TellsOf(f \o h, n, {"tool"} \cup {"effect"}, i, st) /\ f \o h # <<>>
    BY <2>2, <2>3, <2>4, TellsJoin
  <2> QED
    BY <2>1, <2>3, <2>5
<1>4. Tells(d, n, {"tool", "effect"}, st) /\ (calls # <<>> => d # <<>>)
  <2>1. /\ u = [i \in DOMAIN calls |-> u[i]]
        /\ \A i \in 1..Len(calls) : u[i] = Cli!ToolUse(n, i - 1, calls[i], message, st)
    BY <1>2, ListFacts
  <2> HIDE DEF u
  <2>2. \A i \in 1..Len(calls) : TellsOf(u[i], n, {"tool", "effect"}, i - 1, st) /\ u[i] # <<>>
    BY <1>3, <2>1
  <2> QED
    BY <1>2, <2>1, <2>2, EachTells
<1>5. Tells(x, n, {"thinking"}, st) /\ Tells(y, n, {"self"}, st) /\ y # <<>>
  BY EvTells DEF Cli!Ev, Ev
<1> HIDE DEF x, y, d
<1>6. Tells(a, n, {"thinking"}, st) /\ Tells(b, n, {"self"}, st) /\ (b # <<>> \/ d # <<>>)
  BY <1>4, <1>5, TellsWhen DEF When
<1> HIDE DEF a, b
<1>7. {"thinking"} \cap {"self"} = {} /\ ({"thinking"} \cup {"self"}) \cap {"tool", "effect"} = {}
  OBVIOUS
<1>8. Tells((a \o b) \o d, n, ({"thinking"} \cup {"self"}) \cup {"tool", "effect"}, st) /\ (a \o b) \o d # <<>>
  BY <1>4, <1>6, <1>7, TellsThree
<1> QED
  BY <1>1, <1>8 DEF Answers

(* Every entry of a document of Cline's.                                   *)
LEMMA ClineTells ==
    ASSUME NEW n, NEW entry, NEW doc, AList(Get(entry, "content"))
    PROVE  \E stamp : Answers(Cli!Take(doc, n, entry), n, stamp)
<1> DEFINE st == Cli!Of(doc)
<1>1. Answers(Cli!User(n, entry, st), n, st) /\ Answers(Cli!Assistant(n, entry, st), n, st)
  <2> HIDE DEF st
  <2> QED
    BY ClineUser, ClineAssistant
<1> HIDE DEF st
<1>2. \A kind, says : Answers(<<Cli!Ev(n, "self", 0, kind, entry, st, says)>>, n, st)
  BY EvAnswers DEF Cli!Ev, Ev
<1>3. Answers(Cli!Message(n, entry, st), n, st)
  BY <1>1, <1>2 DEF Cli!Message, Cli!Unparsed
<1>4. Answers(Cli!Notice(n, entry, st), n, st)
  <2> DEFINE say == Cli!Get(entry, "say")
             told == IF say \in DOMAIN Cli!Said0 THEN Cli!Said0[say] ELSE "assistant.text"
  <2>1. \/ Cli!Notice(n, entry, st) = <<Cli!Ev(n, "self", 0, "permission.decision", entry, st, "asked")>>
        \/ Cli!Notice(n, entry, st) = <<Cli!Ev(n, "self", 0, told, entry, st, Null)>>
        \/ Cli!Notice(n, entry, st) = <<Cli!Ev(n, "self", 0, "unparsed.record", entry, st, Null)>>
    BY DEF Cli!Notice
  <2> HIDE DEF told
  <2> QED
    BY <1>2, <2>1
<1>5. Answers(Cli!Take(doc, n, entry), n, st)
  BY <1>3, <1>4 DEF Cli!Take, st
<1> QED
  BY <1>5

(* ------------------------------- Cline's command line, and Continue -- *)

(* One event, and more than that.                                          *)
LEMMA EvAt ==
    ASSUME NEW n, NEW part, NEW k, NEW kind, NEW raw, NEW stamp, NEW says
    PROVE  AllAt(<<Ev(n, part, k, kind, raw, stamp, says)>>, n)
BY EvAnswers, AnswersAt

(* The effects of a call are at its place.                                 *)
LEMMA EffectsAt ==
    ASSUME NEW n, NEW k, NEW raw, NEW call, NEW st, Cli!Aims(call)
    PROVE  /\ IsList(Cli!EffectEvents(n, k, raw, call, st))
           /\ \A e \in Range(Cli!EffectEvents(n, k, raw, call, st)) : e.loc[1] = n
<1> DEFINE kinds == Cli!Effects(call)
           u == Cli!EffectEvents(n, k, raw, call, st)
<1>1. IsList(kinds)
  <2>1. \/ \E x : kinds = <<x>>
        \/ kinds = <<>>
        \/ \E x : kinds = [i \in DOMAIN call.targets |-> x] /\ IsList(call.targets)
    BY DEF Cli!Effects, Cli!Aims, Cli!Members, Range, IsList
  <2>2. ASSUME NEW x, kinds = [i \in DOMAIN call.targets |-> x], IsList(call.targets)
        PROVE  IsList(kinds)
    <3>1. Len(call.targets) \in Nat /\ DOMAIN call.targets = 1..Len(call.targets)
      BY <2>2, ListFacts
    <3>2. kinds = [i \in 1..Len(call.targets) |-> kinds[i]]
      BY <2>2, <3>1
    <3> HIDE DEF kinds
    <3> QED
      BY <3>1, <3>2, MadeIsList
  <2> HIDE DEF kinds
  <2> QED
    BY <2>1, <2>2, ShortLists
<1>2. u = [i \in DOMAIN kinds |->
              Cli!Ev(n, "#" \o kinds[i], k, kinds[i], raw, st, Cli!Call(call.name, Null))]
  BY DEF Cli!EffectEvents
<1> HIDE DEF kinds
<1>3. /\ DOMAIN kinds = 1..Len(kinds) /\ Len(kinds) \in Nat
  BY <1>1, ListFacts
<1> HIDE DEF u
<1>4. /\ u = [i \in 1..Len(kinds) |-> u[i]]
      /\ \A i \in 1..Len(kinds) : u[i] = Cli!Ev(n, "#" \o kinds[i], k, kinds[i], raw, st, Cli!Call(call.name, Null))
  BY <1>2, <1>3
<1>5. IsList(u) /\ Len(u) = Len(kinds)
  BY <1>3, <1>4, MadeIsList
<1>6. \A i \in 1..Len(kinds) : u[i].loc[1] = n
  BY <1>4 DEF Cli!Ev
<1>7. Range(u) = {u[i] : i \in 1..Len(u)}
  BY <1>5, ListFacts
<1> QED
  BY <1>5, <1>6, <1>7 DEF u

(* Every message of the command line's.                                    *)
LEMMA MessageTells ==
    ASSUME NEW n, NEW message, NEW c, AList(Get(message, "content")),
           \A block \in Range(Listed(Get(message, "content"))) :
               Get(block, "type") = "tool_use" => Cli!Aims(block)
    PROVE  AllAt(Cli!TakeMessage(n, message, c).events, n)
<1> DEFINE st == Cli!OfSession(c.session)
           content == Cli!Get(message, "content")
           u == [i \in DOMAIN content |-> Cli!Block(n, i - 1, content[i], message, st)]
           one == <<Cli!Unparsed(n, "self", 0, message, st)>>
<1>1. \/ Cli!TakeMessage(n, message, c).events = one
      \/ Cli!TakeMessage(n, message, c).events = FlattenSeq(u) /\ Cli!Filled(content)
  BY ClineFlattens DEF Cli!TakeMessage, Cli!Each
<1>2. AllAt(one, n)
  <2> HIDE DEF st
  <2> QED
    BY EvAt DEF Cli!Unparsed, Cli!Ev, Ev
<1>3. ASSUME Cli!Filled(content)
      PROVE  AllAt(FlattenSeq(u), n)
  <2>1. IsList(content) /\ content # <<>> /\ Listed(Get(message, "content")) = content
    BY <1>3 DEF AList, Members, Range, Given, IsList, Cli!Filled, Cli!Given, Cli!Get, Get, Listed
  <2> HIDE DEF content, st
  <2>2. ASSUME NEW block \in Range(content), NEW i
        PROVE  AllAt(Cli!Block(n, i, block, message, st), n)
    <3> DEFINE says1 == Cli!Call(block.name, block.id)
               a == <<Cli!Ev(n, "content", i, "tool.call", block, st, says1)>>
               b == Cli!EffectEvents(n, i, block, block, st)
               B == Cli!Block(n, i, block, message, st)
               E(kind, says) == <<Cli!Ev(n, "content", i, kind, block, st, says)>>
               said == IF Cli!Get(message, "role") = "assistant" THEN "assistant.text" ELSE "user.prompt"
               says2 == Cli!Call(Null, block.tool_use_id)
    <3>1. \/ B = a \o b /\ Get(block, "type") = "tool_use"
          \/ B = E(said, Null) \/ B = E("assistant.thinking", Null)
          \/ B = E("tool.result", says2) \/ B = E("unparsed.record", Null)
      <4> HIDE DEF b
      <4> QED
        BY DEF Cli!Block, Cli!SessionToolUse, Cli!Get, Get, b
    <3> HIDE DEF B, said, says1, says2
    <3>2. \A kind, says : AllAt(E(kind, says), n)
      BY EvAt DEF Cli!Ev, Ev
    <3>3. AllAt(a, n)
      BY <3>2
    <3>4. Get(block, "type") = "tool_use" => IsList(b) /\ \A e \in Range(b) : e.loc[1] = n
      <4>1. Get(block, "type") = "tool_use" => Cli!Aims(block)
        BY <2>1
      <4> QED
        BY <4>1, EffectsAt
    <3> HIDE DEF a, b, E
    <3>5. Get(block, "type") = "tool_use" => AllAt(a \o b, n)
      BY <3>3, <3>4, AtJoin
    <3> QED
      BY <3>1, <3>2, <3>5 DEF B
  <2>3. /\ u = [i \in DOMAIN content |-> u[i]]
        /\ \A i \in 1..Len(content) : /\ u[i] = Cli!Block(n, i - 1, content[i], message, st)
                                      /\ content[i] \in Range(content)
    BY <2>1, ListFacts
  <2> HIDE DEF u
  <2>4. \A i \in 1..Len(content) : AllAt(u[i], n)
    BY <2>2, <2>3
  <2> QED
    BY <2>1, <2>3, <2>4, EachAt
<1> QED
  BY <1>1, <1>2, <1>3

(* Every line of the log of the hooks.                                     *)
LEMMA HookTells ==
    ASSUME NEW n, NEW rec, NEW c, rec # Blank,
           rec # Torn /\ Get(rec, "hookName") = "tool_call" => Cli!Aims(rec.call)
    PROVE  AllAt(Cli!TakeHook(n, rec, c).events, n)
<1> DEFINE st == Cli!HookStamp(rec)
           name == Cli!Get(rec, "hookName")
           E(kind, stamp, says) == <<Cli!Ev(n, "self", 0, kind, rec, stamp, says)>>
           says1 == Cli!Call(rec.call.name, rec.call.id)
           b == Cli!EffectEvents(n, 0, rec, rec.call, st)
           hooked == Cli!Hooks[name]
           T == Cli!TakeHook(n, rec, c).events
<1>1. \/ T = E("unparsed.record", Cli!NoStamp, Null) \/ T = E("unparsed.record", st, Null)
      \/ T = E("tool.call", st, says1) \o b /\ rec # Torn /\ Get(rec, "hookName") = "tool_call"
      \/ T = E(hooked, st, Null)
  <2> HIDE DEF st, b, hooked
  <2> QED
    BY DEF Cli!TakeHook, Cli!ReadLine, Cli!Hook, Cli!Unparsed, Cli!Get, Get, st, b, hooked
<1> HIDE DEF T, st, says1, hooked
<1>2. \A kind, stamp, says : AllAt(E(kind, stamp, says), n)
  BY EvAt DEF Cli!Ev, Ev
<1>3. rec # Torn /\ Get(rec, "hookName") = "tool_call" => IsList(b) /\ \A e \in Range(b) : e.loc[1] = n
  BY EffectsAt
<1> HIDE DEF E, b
<1>4. rec # Torn /\ Get(rec, "hookName") = "tool_call" => AllAt(E("tool.call", st, says1) \o b, n)
  BY <1>2, <1>3, AtJoin
<1> QED
  BY <1>1, <1>2, <1>4 DEF T

(* Continue's reader flattens lists as any does.                           *)
LEMMA ContinueFlattens == \A u : Con!Flattened(u) = FlattenSeq(u)
BY DEF Con!Flattened, FlattenSeq

(* What an item of a history tells: its message and what is beside it.     *)
LEMMA ContinueItem ==
    ASSUME NEW n, NEW item, NEW st, AList(Get(item, "toolCallStates")), AList(Get(item, "appliedRules"))
    PROVE  Answers(Con!Item(n, item, st), n, st)
<1> DEFINE states == Con!Listed(Con!Get(item, "toolCallStates"))
           rules == Con!Listed(Con!Get(item, "appliedRules"))
           entries == Con!Listed(Con!Get(item, "contextItems"))
           us == [i \in DOMAIN states |->
                     When(Con!Given(states[i]),
                          <<Con!Ev(n, "toolCallStates", i - 1, "tool.call", states[i], st,
                                   Con!Call(states[i].name, states[i].id))>>)]
           ur == [i \in DOMAIN rules |->
                     When(Con!Given(rules[i]),
                          <<Con!Ev(n, "appliedRules", i - 1, "instruction.source", rules[i], st, Null)>>)]
           someFile == \E i \in DOMAIN entries : Con!Get(entries[i], "type") = "file"
           someUrl == \E i \in DOMAIN entries : Con!Get(entries[i], "type") = "url"
           x == <<Con!Ev(n, "contextItems", 0, "file.read", entries, st, Null)>>
           y == <<Con!Ev(n, "contextItems", 0, "network.request", entries, st, Null)>>
           fx == When(someFile, x)
           fy == When(someUrl, y)
           a == Con!Message(n, item, st)
           b == FlattenSeq(us)
           c == fx \o fy
           d == FlattenSeq(ur)
           odd == <<Con!Unparsed(n, "self", 0, item, [st EXCEPT !.cwd = Null])>>
<1>1. Con!Item(n, item, st) = IF ~Con!Given(item) THEN odd ELSE ((a \o b) \o c) \o d
  <2> HIDE DEF a, b, d
  <2>1. b = Con!Flattened(us) /\ d = Con!Flattened(ur)
    BY ContinueFlattens DEF b, d
  <2> QED
    BY <2>1 DEF Con!Item, Con!Tools, Con!ContextItems, Con!Rules, Con!Each, Con!When, When, a
<1>2. IsList(states) /\ IsList(rules)
  BY ShortLists DEF AList, Members, Range, Given, IsList, Con!Listed, Con!Given, Con!Get, Get
<1> HIDE DEF states, rules, entries, someFile, someUrl
<1>3. \A part, k, kind, raw, says : /\ TellsOf(<<Con!Ev(n, part, k, kind, raw, st, says)>>, n, {part}, k, st)
                                    /\ Tells(<<Con!Ev(n, part, k, kind, raw, st, says)>>, n, {part}, st)
                                    /\ <<Con!Ev(n, part, k, kind, raw, st, says)>> # <<>>
  BY EvTells DEF Con!Ev, Ev
<1>4. Tells(b, n, {"toolCallStates"}, st)
  <2>1. /\ us = [i \in DOMAIN states |-> us[i]]
        /\ \A i \in 1..Len(states) :
              us[i] = When(Con!Given(states[i]),
                           <<Con!Ev(n, "toolCallStates", i - 1, "tool.call", states[i], st,
                                    Con!Call(states[i].name, states[i].id))>>)
    BY <1>2, ListFacts
  <2> HIDE DEF us
  <2>2. \A i \in 1..Len(states) : TellsOf(us[i], n, {"toolCallStates"}, i - 1, st)
    <3> TAKE i \in 1..Len(states)
    <3> DEFINE g == <<Con!Ev(n, "toolCallStates", i - 1, "tool.call", states[i], st,
                             Con!Call(states[i].name, states[i].id))>>
               w == Con!Given(states[i])
    <3>1. TellsOf(g, n, {"toolCallStates"}, i - 1, st) /\ us[i] = When(w, g)
      BY <1>3, <2>1
    <3> HIDE DEF g, w
    <3> QED
      BY <3>1, TellsWhen
  <2> QED
    BY <1>2, <2>1, <2>2, EachTells
<1>5. Tells(d, n, {"appliedRules"}, st)
  <2>1. /\ ur = [i \in DOMAIN rules |-> ur[i]]
        /\ \A i \in 1..Len(rules) :
              ur[i] = When(Con!Given(rules[i]),
                           <<Con!Ev(n, "appliedRules", i - 1, "instruction.source", rules[i], st, Null)>>)
    BY <1>2, ListFacts
  <2> HIDE DEF ur
  <2>2. \A i \in 1..Len(rules) : TellsOf(ur[i], n, {"appliedRules"}, i - 1, st)
    <3> TAKE i \in 1..Len(rules)
    <3> DEFINE g == <<Con!Ev(n, "appliedRules", i - 1, "instruction.source", rules[i], st, Null)>>
               w == Con!Given(rules[i])
    <3>1. TellsOf(g, n, {"appliedRules"}, i - 1, st) /\ ur[i] = When(w, g)
      BY <1>3, <2>1
    <3> HIDE DEF g, w
    <3> QED
      BY <3>1, TellsWhen
  <2> QED
    BY <1>2, <2>1, <2>2, EachTells
<1>6. Tells(c, n, {"contextItems"}, st)
  <2>1. Tells(x, n, {"contextItems"}, st) /\ Tells(y, n, {"contextItems"}, st)
    BY <1>3
  <2>2. /\ \A e \in Range(fx) : e.kind = "file.read"
        /\ \A e \in Range(fy) : e.kind = "network.request"
    BY ShortLists DEF When, Con!Ev
  <2> HIDE DEF x, y
  <2>3. Tells(fx, n, {"contextItems"}, st) /\ Tells(fy, n, {"contextItems"}, st)
    BY <2>1, TellsWhen
  <2> HIDE DEF fx, fy
  <2>4. \A e \in Range(fx), f \in Range(fy) : Identity(e) # Identity(f)
    BY <2>2 DEF Identity
  <2>5. Tells(fx \o fy, n, {"contextItems"} \cup {"contextItems"}, st)
    BY <2>3, <2>4, TellsApart
  <2>6. {"contextItems"} \cup {"contextItems"} = {"contextItems"}
    OBVIOUS
  <2> QED
    BY <2>5, <2>6
<1>7. Tells(a, n, {"self", "message"}, st) /\ a # <<>>
  <2> DEFINE message == Con!Get(item, "message")
             kind == Con!Roles[Con!Get(message, "role")]
             says == Con!Call(Null, Con!Get(message, "toolCallId"))
  <2>1. \/ a = <<Con!Ev(n, "self", 0, "unparsed.record", item, st, Null)>>
        \/ a = <<Con!Ev(n, "message", 0, kind, message, st, says)>>
    BY DEF Con!Message, Con!Unparsed
  <2> HIDE DEF a, message, kind, says
  <2>2. (Tells(a, n, {"self"}, st) \/ Tells(a, n, {"message"}, st)) /\ a # <<>>
    BY <1>3, <2>1
  <2> QED
    BY <2>2, TellsMore
<1>8. Answers(odd, n, st)
  <2> DEFINE less == [st EXCEPT !.cwd = Null]
  <2> HIDE DEF less
  <2>1. Answers(<<Con!Unparsed(n, "self", 0, item, less)>>, n, st)
    BY EvAnswers DEF Con!Unparsed, Con!Ev, Ev
  <2> QED
    BY <2>1 DEF less
<1> HIDE DEF a, b, c, d, odd
<1> DEFINE abc == (a \o b) \o c
           pqr == ({"self", "message"} \cup {"toolCallStates"}) \cup {"contextItems"}
<1>9. /\ {"self", "message"} \cap {"toolCallStates"} = {}
      /\ ({"self", "message"} \cup {"toolCallStates"}) \cap {"contextItems"} = {}
      /\ pqr \cap {"appliedRules"} = {}
  OBVIOUS
<1>10. Tells(abc, n, pqr, st) /\ abc # <<>>
  BY <1>4, <1>6, <1>7, <1>9, TellsThree
<1> HIDE DEF abc, pqr
<1>11. Tells(abc \o d, n, pqr \cup {"appliedRules"}, st) /\ abc \o d # <<>>
  BY <1>5, <1>9, <1>10, TellsJoin
<1>12. Answers(abc \o d, n, st)
  BY <1>11 DEF Answers
<1> QED
  BY <1>1, <1>8, <1>12 DEF abc

(* Every entry of a document of Continue's.                                *)
LEMMA ContinueTells ==
    ASSUME NEW n, NEW entry, NEW doc, AList(Get(entry, "toolCallStates")), AList(Get(entry, "appliedRules"))
    PROVE  \E stamp : Answers(Con!Take(doc, n, entry), n, stamp)
<1> DEFINE st == [session |-> Con!Or(Con!Get(entry, "sessionId"), Con!Get(entry, "session_id")),
                  cwd |-> Con!Get(entry, "workspaceDirectory"), branch |-> Null]
           hidden == [hidden |-> Con!Said(Con!Get(entry, "session_id")) /\ ~Con!Said(Con!Get(entry, "sessionId"))]
           of == Con!Of(doc)
           a == <<Con!Ev(n, "self", 0, "unparsed.record", entry, Con!NoStamp, Null)>>
           b == <<Con!Ev(n, "self", 0, "session.start", entry, st, hidden)>>
           c == Con!Item(n, entry, of)
<1>1. Con!Take(doc, n, entry) \in {a, b, c}
  <2> HIDE DEF of, c
  <2> QED
    BY DEF Con!Take, Con!Entry, Con!Unparsed, c, of
<1>2. Answers(c, n, of)
  BY ContinueItem
<1>3. Answers(a, n, st) /\ Answers(b, n, st)
  <2> HIDE DEF st, hidden
  <2> QED
    BY EvAnswers DEF Con!Ev, Ev
<1> HIDE DEF a, b, c
<1> QED
  BY <1>1, <1>2, <1>3

(* ------------------------------------------ the readings of last resort -- *)

(* One event that a helper makes.                                          *)
LEMMA EvTells1 ==
    ASSUME NEW n, NEW part, NEW k, NEW kind, NEW raw, NEW stamp, NEW says
    PROVE  Tells1(<<Ev(n, part, k, kind, raw, stamp, says)>>, n)
BY EvAnswers, AnswersTells1

(* The reader of documents flattens lists as any does.                     *)
LEMMA FloorsFlatten == \A u : Flo!Flattened(u) = FlattenSeq(u)
BY DEF Flo!Flattened, FlattenSeq

(* Every line of a format that nobody has mapped.                          *)
LEMMA JsonlTells ==
    ASSUME NEW n, NEW rec, NEW c, rec # Blank
    PROVE  Tells1(Flo!TakeJsonl(n, rec, c).events, n)
<1> DEFINE st == Flo!LiteralStamp(rec)
           a == <<Flo!Unparsed(n, "self", 0, rec, Flo!NoStamp)>>
           b == <<Flo!Unparsed(n, "self", 0, rec, st)>>
<1>1. Flo!TakeJsonl(n, rec, c).events = a \/ Flo!TakeJsonl(n, rec, c).events = b
  <2> HIDE DEF st
  <2> QED
    BY DEF Flo!TakeJsonl, Flo!ReadLine, Flo!JsonlRecord, st
<1>2. Tells1(a, n) /\ Tells1(b, n)
  <2> HIDE DEF st
  <2> QED
    BY EvTells1 DEF Flo!Unparsed, Flo!Ev, Ev
<1> QED
  BY <1>1, <1>2

(* A record of a document is found at its path.                            *)
LEMMA OneAt ==
    ASSUME NEW n, NEW path, NEW value, NEW kind
    PROVE  /\ Tells1(<<Flo!One(n, path, value, kind)>>, n)
           /\ \A e \in Range(<<Flo!One(n, path, value, kind)>>) : e.loc = <<n, "path", path>>
<1> DEFINE st == IF value.is = "mapping" THEN Flo!LiteralStamp(value) ELSE Flo!NoStamp
<1>1. Flo!One(n, path, value, kind) = Flo!Ev(n, "path", path, kind, value, st, Null)
  BY DEF Flo!One
<1> HIDE DEF st
<1>2. Flo!Ev(n, "path", path, kind, value, st, Null) = Ev(n, "path", path, kind, value, st, Null)
  BY DEF Flo!Ev, Ev
<1>3. Tells1(<<Ev(n, "path", path, kind, value, st, Null)>>, n)
  BY EvTells1
<1>4. Ev(n, "path", path, kind, value, st, Null).loc = <<n, "path", path>>
  BY DEF Ev
<1> QED
  BY <1>1, <1>2, <1>3, <1>4, ShortLists

(* What is told of the elements of a list, each of its own.                *)
ToldOf(u, n, path, list, kind) ==
    /\ IsList(u) /\ Len(u) = Len(list)
    /\ \A i \in 1..Len(list) : u[i] = <<Flo!One(n, Append(path, i - 1), list[i], kind)>>

(* The elements of a list, each at a path of its own under that of the     *)
(* list.                                                                   *)
LEMMA ElementsAt ==
    ASSUME NEW n, NEW path, NEW list, NEW kind, NEW u, IsList(path), IsList(list),
           ToldOf(u, n, path, list, kind)
    PROVE  /\ Own(FlattenSeq(u), n) /\ (list # <<>> => FlattenSeq(u) # <<>>)
           /\ \A e \in Range(FlattenSeq(u)) : \E i \in 1..Len(list) : e.loc = <<n, "path", Append(path, i - 1)>>
<1>1. /\ DOMAIN list = 1..Len(list) /\ Len(list) \in Nat /\ (list # <<>> => 1 \in 1..Len(list))
  BY ListFacts
<1>2. IsList(u) /\ Len(u) = Len(list)
  BY DEF ToldOf
<1>3. \A i \in 1..Len(list) :
         /\ Own(u[i], n) /\ u[i] # <<>>
         /\ \A e \in Range(u[i]) : e.loc = <<n, "path", Append(path, i - 1)>>
  <2> TAKE i \in 1..Len(list)
  <2> DEFINE here == Append(path, i - 1)
             one == <<Flo!One(n, here, list[i], kind)>>
  <2> HIDE DEF here
  <2>1. Tells1(one, n) /\ \A e \in Range(one) : e.loc = <<n, "path", here>>
    BY OneAt
  <2> HIDE DEF one
  <2> QED
    BY <2>1 DEF Tells1, one, here, ToldOf
<1>4. \A i, j \in 1..Len(list) : Append(path, i - 1) = Append(path, j - 1) => i = j
  <2> TAKE i, j \in 1..Len(list)
  <2>1. Append(path, i - 1)[Len(path) + 1] = i - 1 /\ Append(path, j - 1)[Len(path) + 1] = j - 1
    BY ListAppends
  <2> QED
    BY <1>1, <2>1
<1>5. \A i, j \in 1..Len(u) : i < j => Apart(u[i], u[j])
  <2> SUFFICES ASSUME NEW i \in 1..Len(u), NEW j \in 1..Len(u), i < j,
                      NEW x \in Range(u[i]), NEW y \in Range(u[j])
               PROVE  Identity(x) # Identity(y)
    BY DEF Apart
  <2> DEFINE a == Append(path, i - 1)
             b == Append(path, j - 1)
  <2>1. x.loc = <<n, "path", a>> /\ y.loc = <<n, "path", b>> /\ a # b
    BY <1>1, <1>2, <1>3, <1>4
  <2> HIDE DEF a, b
  <2>2. x.loc # y.loc
    BY <2>1
  <2> QED
    BY <2>2 DEF Identity
<1>6. /\ Own(FlattenSeq(u), n)
      /\ Range(FlattenSeq(u)) = UNION {Range(u[i]) : i \in 1..Len(u)}
      /\ (\E i \in 1..Len(u) : u[i] # <<>>) => FlattenSeq(u) # <<>>
  BY <1>2, <1>3, <1>5, OwnEach
<1> QED
  BY <1>1, <1>2, <1>3, <1>6

(* A list under a path: as a whole, or its elements.                       *)
LEMMA ListUnder ==
    ASSUME NEW n, NEW path, NEW list, NEW kind, IsList(path), IsList(list)
    PROVE  /\ Own(Flo!ElementsOf(n, path, list, kind), n)
           /\ list # <<>> => Flo!ElementsOf(n, path, list, kind) # <<>>
           /\ \A e \in Range(Flo!ElementsOf(n, path, list, kind)) :
                 \/ e.loc = <<n, "path", path>>
                 \/ \E i \in 1..Len(list) : e.loc = <<n, "path", Append(path, i - 1)>>
<1> DEFINE u == [i \in DOMAIN list |-> <<Flo!One(n, Append(path, i - 1), list[i], kind)>>]
           whole == [is |-> "list", of |-> list]
           a == <<Flo!One(n, path, whole, kind)>>
<1>1. Flo!ElementsOf(n, path, list, kind) = IF Len(list) > SplitLimit THEN a ELSE FlattenSeq(u)
  BY FloorsFlatten DEF Flo!ElementsOf, Flo!Each
<1>2. Tells1(a, n) /\ \A e \in Range(a) : e.loc = <<n, "path", path>>
  <2> HIDE DEF whole
  <2> QED
    BY OneAt
<1>3. ToldOf(u, n, path, list, kind)
  <2>1. DOMAIN list = 1..Len(list) /\ Len(list) \in Nat
    BY ListFacts
  <2>2. IsList(u) /\ Len(u) = Len(list)
    BY <2>1, MadeIsList
  <2> QED
    BY <2>1, <2>2 DEF ToldOf
<1> HIDE DEF u
<1>4. /\ Own(FlattenSeq(u), n) /\ (list # <<>> => FlattenSeq(u) # <<>>)
      /\ \A e \in Range(FlattenSeq(u)) : \E i \in 1..Len(list) : e.loc = <<n, "path", Append(path, i - 1)>>
  BY <1>3, ElementsAt
<1> HIDE DEF a
<1>5. CASE Len(list) > SplitLimit
  BY <1>1, <1>2, <1>5 DEF Tells1
<1>6. CASE ~(Len(list) > SplitLimit)
  BY <1>1, <1>4, <1>6
<1> QED
  BY <1>5, <1>6

(* The entries of a mapping: keys that are each there once.                *)
Entries1(entries) ==
    /\ IsList(entries)
    /\ \A i, j \in 1..Len(entries) : i < j => entries[i].key # entries[j].key
    /\ \A i \in 1..Len(entries) : entries[i].things => IsList(entries[i].of)

(* What is told of a list under a key is found under that key.             *)
UnderKey(evs, n, key) ==
    /\ Own(evs, n)
    /\ \A e \in Range(evs) :
          \E path : /\ e.loc = <<n, "path", path>>
                    /\ path = <<key>> \/ \E j : path = <<key, j>>

UnderKeys(u, n, entries) ==
    /\ IsList(u) /\ Len(u) = Len(entries)
    /\ \A i \in 1..Len(entries) : UnderKey(u[i], n, entries[i].key)

(* A mapping and what is under its keys.                                   *)
LEMMA MappingTells ==
    ASSUME NEW n, NEW value, NEW kind, NEW entries, Entries1(entries), NEW u, UnderKeys(u, n, entries)
    PROVE  Tells1(<<Flo!One(n, <<>>, value, kind)>> \o FlattenSeq(u), n)
<1> DEFINE a == <<Flo!One(n, <<>>, value, kind)>>
           b == FlattenSeq(u)
<1>1. DOMAIN entries = 1..Len(entries) /\ Len(entries) \in Nat
  BY ListFacts DEF Entries1
<1>2. IsList(u) /\ Len(u) = Len(entries)
  BY DEF UnderKeys
<1>3. \A i \in 1..Len(entries) : \A e \in Range(u[i]) :
         \E path : e.loc = <<n, "path", path>> /\ path[1] = entries[i].key /\ path # <<>>
  <2> TAKE i \in 1..Len(entries)
  <2> TAKE e \in Range(u[i])
  <2>1. PICK path : /\ e.loc = <<n, "path", path>>
                    /\ path = <<entries[i].key>> \/ \E j : path = <<entries[i].key, j>>
    BY DEF UnderKeys, UnderKey
  <2>2. path[1] = entries[i].key /\ path # <<>>
    BY <2>1
  <2> QED
    BY <2>1, <2>2
<1>4. \A i, j \in 1..Len(u) : i < j => Apart(u[i], u[j])
  <2> SUFFICES ASSUME NEW i \in 1..Len(u), NEW j \in 1..Len(u), i < j,
                      NEW x \in Range(u[i]), NEW y \in Range(u[j])
               PROVE  Identity(x) # Identity(y)
    BY DEF Apart
  <2>1. PICK p : x.loc = <<n, "path", p>> /\ p[1] = entries[i].key
    BY <1>2, <1>3
  <2>2. PICK q : y.loc = <<n, "path", q>> /\ q[1] = entries[j].key
    BY <1>2, <1>3
  <2>3. entries[i].key # entries[j].key
    BY <1>2 DEF Entries1
  <2>4. x.loc # y.loc
    BY <2>1, <2>2, <2>3
  <2> QED
    BY <2>4 DEF Identity
<1>5. Own(b, n) /\ Range(b) = UNION {Range(u[i]) : i \in 1..Len(u)}
  <2>1. \A i \in 1..Len(u) : Own(u[i], n)
    BY <1>2 DEF UnderKeys, UnderKey
  <2> QED
    BY <1>2, <1>4, <2>1, OwnEach
<1>6. Tells1(a, n) /\ \A e \in Range(a) : e.loc = <<n, "path", <<>>>>
  BY OneAt
<1>7. Apart(a, b)
  <2> SUFFICES ASSUME NEW x \in Range(a), NEW y \in Range(b) PROVE Identity(x) # Identity(y)
    BY DEF Apart
  <2>1. PICK i \in 1..Len(u) : y \in Range(u[i])
    BY <1>5
  <2>2. PICK q : y.loc = <<n, "path", q>> /\ q # <<>>
    BY <1>2, <1>3, <2>1
  <2>3. x.loc = <<n, "path", <<>>>>
    BY <1>6
  <2> DEFINE none == <<>>
  <2>4. x.loc = <<n, "path", none>> /\ q # none
    BY <2>2, <2>3
  <2> HIDE DEF none
  <2>5. x.loc # y.loc
    BY <2>2, <2>4
  <2> QED
    BY <2>5 DEF Identity
<1> HIDE DEF a, b
<1>8. Own(a \o b, n) /\ a \o b # <<>>
  BY <1>5, <1>6, <1>7, OwnJoin DEF Tells1
<1> QED
  BY <1>8 DEF Tells1, a, b

(* A document is as these say. *)
ADocument(value) ==
    /\ value.is = "list" => IsList(value.of)
    /\ value.is = "mapping" => Entries1(value.entries)

(* What a document's reader takes for granted of its mappings.             *)
LEMMA EntriesAre ==
    /\ \A entries : Flo!Entries(entries) => Entries1(entries)
    /\ \A list : list \in Seq(Range(list)) => IsList(list)
<1>1. ASSUME NEW entries, Flo!Entries(entries)
      PROVE  Entries1(entries)
  <2>1. IsList(entries)
    BY <1>1 DEF Flo!Entries, Flo!Members, Range, IsList
  <2>2. DOMAIN entries = 1..Len(entries)
    BY <2>1, ListFacts
  <2> QED
    BY <1>1, <2>1, <2>2 DEF Entries1, Flo!Entries, Flo!Members, Range, IsList
<1> QED
  BY <1>1 DEF IsList

(* Every document of a file.                                               *)
LEMMA DocumentTells ==
    ASSUME NEW n, NEW value, NEW c, value # Torn => ADocument(value)
    PROVE  Tells1(Flo!TakeDocument(n, value, c).events, n)
<1> DEFINE kind == Flo!KindOf(c)
           entries == value.entries
           u == [i \in DOMAIN entries |->
                    When(entries[i].things, Flo!ElementsOf(n, <<entries[i].key>>, entries[i].of, kind))]
           a == <<Flo!Unparsed(n, "path", <<>>, Torn, Flo!NoStamp)>>
           b == Flo!ElementsOf(n, <<>>, value.of, kind)
           d == <<Flo!One(n, <<>>, value, kind)>> \o FlattenSeq(u)
           e == <<Flo!One(n, <<>>, value, kind)>>
<1>1. \/ value = Torn /\ Flo!TakeDocument(n, value, c).events = a
      \/ value # Torn /\ value.is = "list" /\ value.of # <<>> /\ Flo!TakeDocument(n, value, c).events = b
      \/ value # Torn /\ value.is = "mapping" /\ Flo!TakeDocument(n, value, c).events = d
      \/ Flo!TakeDocument(n, value, c).events = e
  <2> HIDE DEF kind
  <2> QED
    BY FloorsFlatten DEF Flo!TakeDocument, Flo!Document, Flo!Each, Flo!When, When, kind
<1> HIDE DEF kind
<1>2. Tells1(a, n)
  BY EvTells1 DEF Flo!Unparsed, Flo!Ev, Ev
<1>3. Tells1(e, n)
  BY OneAt
<1>4. ASSUME value # Torn, value.is = "list", value.of # <<>>
      PROVE  Tells1(b, n)
  <2>1. IsList(value.of) /\ IsList(<<>>)
    BY <1>4, ShortLists DEF ADocument
  <2> QED
    BY <1>4, <2>1, ListUnder DEF Tells1
<1>5. ASSUME value # Torn, value.is = "mapping"
      PROVE  Tells1(d, n)
  <2>1. Entries1(entries)
    BY <1>5 DEF ADocument
  <2> HIDE DEF entries
  <2>2. DOMAIN entries = 1..Len(entries)
    BY <2>1, ListFacts DEF Entries1
  <2>3. \A i \in 1..Len(entries) :
           u[i] = When(entries[i].things, Flo!ElementsOf(n, <<entries[i].key>>, entries[i].of, kind))
    BY <2>2
  <2>4. IsList(u) /\ Len(u) = Len(entries)
    <3>1. Len(entries) \in Nat
      BY <2>1, ListFacts DEF Entries1
    <3> QED
      BY <2>2, <3>1, MadeIsList
  <2> HIDE DEF u
  <2>5. ASSUME NEW i \in 1..Len(entries)
        PROVE  UnderKey(u[i], n, entries[i].key)
    <3>1. CASE entries[i].things
      <4> DEFINE key == entries[i].key
                 list == entries[i].of
                 path == <<key>>
      <4>1. IsList(list) /\ u[i] = Flo!ElementsOf(n, path, list, kind)
        BY <2>1, <2>3, <3>1 DEF Entries1, When
      <4> HIDE DEF list, key
      <4>2. IsList(path) /\ \A j : Append(path, j) = <<key, j>>
        BY Appended, ShortLists
      <4> HIDE DEF path
      <4>3. /\ Own(u[i], n)
            /\ \A x \in Range(u[i]) :
                  \/ x.loc = <<n, "path", path>>
                  \/ \E j \in 1..Len(list) : x.loc = <<n, "path", Append(path, j - 1)>>
        BY <4>1, <4>2, ListUnder
      <4>4. UnderKey(u[i], n, key)
        BY <4>2, <4>3 DEF UnderKey, path
      <4> QED
        BY <4>4 DEF key
    <3>2. CASE ~entries[i].things
      BY <2>3, <3>2, OwnShort, ShortLists DEF When, UnderKey
    <3> QED
      BY <3>1, <3>2
  <2> QED
    BY <2>1, <2>4, <2>5, MappingTells DEF UnderKeys
<1> QED
  BY <1>1, <1>2, <1>3, <1>4, <1>5

(* Every container of the product that keeps them closed.                  *)
LEMMA CascadeTells ==
    ASSUME NEW n, NEW value, NEW c, value # Torn => Entries1(value.entries)
    PROVE  Tells1(Flo!TakeCascade(n, value, c).events, n)
<1> DEFINE entries == value.entries
           v(i) == [j \in DOMAIN entries[i].of |->
                       <<Flo!One(n, <<entries[i].key, j - 1>>, entries[i].of[j], "unparsed.record")>>]
           u == [i \in DOMAIN entries |->
                    When(entries[i].things /\ Len(entries[i].of) <= SplitLimit, FlattenSeq(v(i)))]
           a == <<Flo!Unparsed(n, "path", <<>>, Torn, Flo!NoStamp)>>
           d == <<Flo!One(n, <<>>, value, "unparsed.record")>> \o FlattenSeq(u)
<1>1. Flo!TakeCascade(n, value, c).events = IF value = Torn THEN a ELSE d
  BY FloorsFlatten DEF Flo!TakeCascade, Flo!Each, Flo!When, When
<1>2. Tells1(a, n)
  BY EvTells1 DEF Flo!Unparsed, Flo!Ev, Ev
<1>3. ASSUME value # Torn
      PROVE  Tells1(d, n)
  <2>1. Entries1(entries)
    BY <1>3
  <2> HIDE DEF entries
  <2>2. DOMAIN entries = 1..Len(entries)
    BY <2>1, ListFacts DEF Entries1
  <2>3. \A i \in 1..Len(entries) :
           u[i] = When(entries[i].things /\ Len(entries[i].of) <= SplitLimit, FlattenSeq(v(i)))
    BY <2>2
  <2>4. IsList(u) /\ Len(u) = Len(entries)
    <3>1. Len(entries) \in Nat
      BY <2>1, ListFacts DEF Entries1
    <3> QED
      BY <2>2, <3>1, MadeIsList
  <2> HIDE DEF u
  <2>5. ASSUME NEW i \in 1..Len(entries)
        PROVE  UnderKey(u[i], n, entries[i].key)
    <3> DEFINE w == v(i)
    <3>1. CASE entries[i].things /\ Len(entries[i].of) <= SplitLimit
      <4> DEFINE key == entries[i].key
                 list == entries[i].of
                 path == <<key>>
      <4>1. IsList(list) /\ u[i] = FlattenSeq(w)
        BY <2>1, <2>3, <3>1 DEF Entries1, When
      <4>2. /\ IsList(w) /\ Len(w) = Len(list)
            /\ \A j \in 1..Len(list) : w[j] = <<Flo!One(n, <<key, j - 1>>, list[j], "unparsed.record")>>
        <5>1. DOMAIN list = 1..Len(list) /\ Len(list) \in Nat
          BY <4>1, ListFacts
        <5> QED
          BY <5>1, MadeIsList
      <4> HIDE DEF w, list, key
      <4>3. IsList(path)
        BY ShortLists
      <4>4. \A j : Append(path, j) = <<key, j>>
        BY Appended
      <4> HIDE DEF path
      <4>5. ToldOf(w, n, path, list, "unparsed.record")
        BY <4>2, <4>4 DEF ToldOf
      <4>6. /\ Own(FlattenSeq(w), n)
            /\ \A x \in Range(FlattenSeq(w)) :
                  \E j \in 1..Len(list) : x.loc = <<n, "path", Append(path, j - 1)>>
        BY <4>1, <4>3, <4>5, ElementsAt
      <4>7. UnderKey(u[i], n, key)
        BY <4>1, <4>4, <4>6 DEF UnderKey
      <4> QED
        BY <4>7 DEF key
    <3>2. CASE ~(entries[i].things /\ Len(entries[i].of) <= SplitLimit)
      BY <2>3, <3>2, OwnShort, ShortLists DEF When, UnderKey
    <3> QED
      BY <3>1, <3>2
  <2> QED
    BY <2>1, <2>4, <2>5, MappingTells DEF UnderKeys
<1> QED
  BY <1>1, <1>2, <1>3

(* ------------------------------------------------ one event or nothing -- *)

(* A line of a history of prompts is an event, but for one that is blank   *)
(* and the first when that names its writer.                               *)
LEMMA LineTells ==
    ASSUME NEW n, NEW line, NEW c
    PROVE  \/ /\ His!TakeLine(n, line, c).events = <<>>
              /\ line = Blank \/ (n = 1 /\ line.is = "version")
           \/ Tells1(His!TakeLine(n, line, c).events, n)
<1> DEFINE a == <<His!Ev(n, "self", 0, "prompt.history", <<line>>, His!NoStamp, Null)>>
<1>1. IF line = Blank \/ (n = 1 /\ line.is = "version")
      THEN His!TakeLine(n, line, c).events = <<>> ELSE His!TakeLine(n, line, c).events = a
  BY DEF His!TakeLine, His!Answer
<1>2. Tells1(a, n)
  BY EvTells1 DEF His!Ev, Ev
<1> QED
  BY <1>1, <1>2

(* So is a write of a reference of git, a reference of the agents' and a   *)
(* path that a checkpoint names.                                           *)
LEMMA GitTells ==
    ASSUME NEW n, NEW path, NEW line
    PROVE  /\ line # Blank => Tells1(Git!TakeLogLine(path, n, line), n)
           /\ line = Blank => Git!TakeLogLine(path, n, line) = <<>>
           /\ Git!TakePackedRef(n, line) = <<>> \/ Tells1(Git!TakePackedRef(n, line), n)
           /\ line # Blank => Tells1(Git!TakePathspec(n, line), n)
           /\ line = Blank => Git!TakePathspec(n, line) = <<>>
<1>1. \A stamp : Tells1(<<Git!Snapshot(n, line, stamp)>>, n)
  BY EvTells1 DEF Git!Snapshot, Git!Ev, Ev
<1>2. Tells1(<<Git!Unparsed(n, "self", 0, line, Git!NoStamp)>>, n)
  BY EvTells1 DEF Git!Unparsed, Git!Ev, Ev
<1>3. /\ line = Blank => Git!TakeLogLine(path, n, line) = <<>>
      /\ line # Blank => Tells1(Git!TakeLogLine(path, n, line), n)
  <2>1. CASE line = Blank
    BY <2>1, Marks DEF Git!TakeLogLine
  <2>2. CASE line # Blank /\ line = Torn
    BY <1>2, <2>2 DEF Git!TakeLogLine
  <2>3. CASE line # Blank /\ line # Torn
    <3>1. Git!TakeLogLine(path, n, line) = <<Git!Snapshot(n, line, Git!StampOf(path))>>
      BY <2>3 DEF Git!TakeLogLine
    <3> QED
      BY <1>1, <2>3, <3>1
  <2> QED
    BY <2>1, <2>2, <2>3
<1>4. Git!TakePackedRef(n, line) = <<>> \/ Tells1(Git!TakePackedRef(n, line), n)
  BY <1>1 DEF Git!TakePackedRef
<1>5. /\ line # Blank => Tells1(Git!TakePathspec(n, line), n)
      /\ line = Blank => Git!TakePathspec(n, line) = <<>>
  BY <1>1 DEF Git!TakePathspec
<1> QED
  BY <1>3, <1>4, <1>5

(* So is a line of the log that a store keeps of itself.                   *)
LEMMA OwnLogTells ==
    ASSUME NEW n, NEW line, NEW c
    PROVE  /\ line # Blank => Tells1(Lev!TakeOwnLog(n, line, c).events, n)
           /\ line = Blank => Lev!TakeOwnLog(n, line, c).events = <<>>
<1>1. Tells1(<<Lev!Unparsed(n, "self", 0, line, Lev!NoStamp)>>, n)
  BY EvTells1 DEF Lev!Unparsed, Lev!Ev, Ev
<1> QED
  BY <1>1 DEF Lev!TakeOwnLog

(* So is a line of a text file, as far as it is read.                      *)
LEMMA TextTells ==
    ASSUME NEW n, NEW line, NEW c, NEW kind
    PROVE  \/ Flo!TakeText(n, line, c, kind).events = <<>>
           \/ Tells1(Flo!TakeText(n, line, c, kind).events, n)
<1>1. Tells1(<<Flo!Unparsed(n, "self", 0, Null, Flo!NoStamp)>>, n)
  BY EvTells1 DEF Flo!Unparsed, Flo!Ev, Ev
<1>2. Tells1(<<Flo!Ev(n, "self", 0, kind, <<line>>, Flo!NoStamp, Null)>>, n)
  BY EvTells1 DEF Flo!Ev, Ev
<1> QED
  BY <1>1, <1>2 DEF Flo!TakeText

(* ------------------------------------------------------- a file is open -- *)

(* What there is to take of a file is a list, of what is in the file, or   *)
(* of what is torn where a rollout that is compressed breaks.              *)
From(list, known) ==
    IsList(list) /\ Range(list) \subseteq Range(known) \cup (IF format = "codex" THEN {Torn} ELSE {})

(* A file as it is on the disk, and what is open of it.                    *)
OnDisk ==
    /\ format \in DOMAIN Elements
    /\ \E i \in DOMAIN Files[format] : file = Files[format][i]
    /\ IsList(lines) /\ Range(lines) \subseteq Range(Elements[format])

Opened ==
    /\ OnDisk
    /\ at \in Nat
    /\ at = 0 => items = <<>> /\ events = <<>>
    /\ at > 0 => items = Items

(* Two lists of which this is plain.                                       *)
LEMMA FromPlain ==
    ASSUME NEW known, IsList(known)
    PROVE  From(known, known) /\ From(<<>>, known)
BY ShortLists DEF From

(* A rollout that is expanded.                                             *)
LEMMA ExpandedFrom ==
    ASSUME IsList(lines), format = "codex"
    PROVE  From(Cdx!Expand(RolloutFile).lines, lines)
<1> DEFINE kept == SubSeq(lines, 1, MaxExpanded)
<1>1. RolloutFile.lines = lines
  BY DEF RolloutFile, With
<1>2. \/ Cdx!Expand(RolloutFile).lines = lines
      \/ Cdx!Expand(RolloutFile).lines = Append(kept, Torn) /\ Len(lines) > MaxExpanded
  BY <1>1 DEF Cdx!Expand
<1>3. ASSUME Len(lines) > MaxExpanded
      PROVE  From(Append(kept, Torn), lines)
  <2>1. IsList(kept) /\ Range(kept) \subseteq Range(lines)
    <3>1. lines \in Seq(Range(lines)) /\ MaxExpanded \in Nat
      BY Bounds DEF IsList
    <3>2. kept \in Seq(Range(lines))
      BY <1>3, <3>1
    <3> QED
      BY <3>2, SeqIsList
  <2> HIDE DEF kept
  <2> DEFINE cut == Append(kept, Torn)
  <2>2. IsList(cut) /\ Range(cut) = Range(kept) \cup {Torn}
    BY <2>1, ListAppends
  <2> HIDE DEF cut
  <2>3. From(cut, lines)
    BY <2>1, <2>2 DEF From
  <2> QED
    BY <2>3 DEF cut
<1> QED
  BY <1>2, <1>3, FromPlain

(* The entries of a task's list, of a history and of a log of prompts.     *)
LEMMA EntriesFrom ==
    ASSUME IsList(lines)
    PROVE  /\ From(Cli!Entries(ClineFile), lines)
           /\ From(Con!Entries(SessionFile), lines)
           /\ From(Gem!Prompts(PromptFile), lines)
<1>1. Cli!Entries(ClineFile) \in {lines, <<>>}
  <2>1. CASE file.name \in Cli!Lists
    <3>1. ClineFile.value = lines
      BY <2>1 DEF ClineFile, With
    <3> QED
      BY <3>1 DEF Cli!Entries, Cli!Listed
  <2>2. CASE file.name \notin Cli!Lists
    BY <2>2 DEF Cli!Entries, ClineFile
  <2> QED
    BY <2>1, <2>2
<1>2. Con!Entries(SessionFile) \in {lines, <<>>}
  <2>1. CASE file.index
    <3>1. SessionFile.value = lines /\ SessionFile.index
      BY <2>1 DEF SessionFile
    <3> QED
      BY <3>1 DEF Con!Entries
  <2>2. CASE ~file.index
    <3> DEFINE held == With(file.value, "history", lines)
    <3>1. SessionFile.value = held /\ ~SessionFile.index
      BY <2>2 DEF SessionFile
    <3>2. held["history"] = lines
      BY DEF With
    <3> HIDE DEF held
    <3>3. Con!Get(held, "history") \in {lines, Null}
      BY <3>2 DEF Con!Get
    <3>4. Con!Entries(SessionFile) \in {<<>>, Con!Listed(Con!Get(held, "history"))}
      BY <3>1 DEF Con!Entries
    <3> QED
      BY <3>3, <3>4 DEF Con!Listed, Con!Given
  <2> QED
    BY <2>1, <2>2
<1>3. Gem!Prompts(PromptFile) \in {lines, <<>>}
  BY DEF Gem!Prompts, PromptFile
<1> QED
  BY <1>1, <1>2, <1>3, FromPlain

(* The elements of any file but a pack.                                    *)
LEMMA ItemsFrom ==
    ASSUME IsList(lines), format # "git_pack"
    PROVE  From(Items, lines)
<1>1. \/ format = "codex" /\ Items = Cdx!Expand(RolloutFile).lines
      \/ Items = Cli!Entries(ClineFile)
      \/ Items = Con!Entries(SessionFile) \/ Items = Gem!Prompts(PromptFile)
      \/ Items = <<>> \/ Items = lines
  BY DEF Items
<1> QED
  BY <1>1, ExpandedFrom, EntriesFrom, FromPlain

(* A file is opened, is closed, or an element of it is read.               *)
LEMMA StepsAre == Next => Open \/ Close \/ \E result : Read(result)
BY DEF Next, ReadClaude, ReadClaudeHistory, ReadGemini, ReadQwen, ReadCodex,
   ReadCodexHistory, ReadGeminiPrompts, ReadCopilot, ReadPi, ReadGoose, ReadCline, ReadClineMessages,
   ReadHooks, ReadContinue, ReadShell, ReadRecall, ReadBash, ReadFish, ReadPrompts, ReadPromptLines,
   ReadAider, ReadJsonl, ReadDocument, ReadCascade, ReadLog, ReadPatterns, ReadScript, ReadRegistry,
   ReadRepository, ReadIndex, ReadPack, ReadLevelLog, ReadTable, ReadOwnLog

(* Of the files that are read by their format alone, which reader reads.    *)
LEMMA ReaderIs ==
    ASSUME Next, ~Open, ~Close
    PROVE  /\ format \in {"log", "patterns"} => ReadLog \/ ReadPatterns
           /\ format = "leveldb_log" => ReadLevelLog
           /\ format = "leveldb_table" => ReadTable
           /\ format = "git_pack" => ReadPack
           /\ format \in {"bash", "prompts"} => ReadBash \/ ReadPrompts
           /\ format \in {"codex", "copilot", "pi", "gemini"} => ReadCodex \/ ReadCopilot \/ ReadPi \/ ReadGemini
BY DEF Next, ReadClaude, ReadClaudeHistory, ReadGemini, ReadQwen, ReadCodex,
   ReadCodexHistory, ReadGeminiPrompts, ReadCopilot, ReadPi, ReadGoose, ReadCline, ReadClineMessages,
   ReadHooks, ReadContinue, ReadShell, ReadRecall, ReadBash, ReadFish, ReadPrompts, ReadPromptLines,
   ReadAider, ReadJsonl, ReadDocument, ReadCascade, ReadScript, ReadRegistry,
   ReadRepository, ReadIndex, ReadOwnLog,
   ReadLog, ReadPatterns, ReadLevelLog, ReadTable, ReadPack

(* A file stays what it is, and what there is to take of it what it was    *)
(* when it was opened.                                                     *)
LEMMA FileOpened == Spec => []Opened
<1>1. Init => Opened
  <2> SUFFICES ASSUME Init PROVE Opened
    OBVIOUS
  <2>0. PICK n \in 0..Lengths[format] :
            \E d \in [1..n -> DOMAIN Elements[format]] : lines = [i \in 1..n |-> Elements[format][d[i]]]
    BY DEF Init
  <2>1. PICK d \in [1..n -> DOMAIN Elements[format]] : lines = [i \in 1..n |-> Elements[format][d[i]]]
    BY <2>0
  <2>2. n \in Nat
    BY Bounds DEF Init
  <2>3. \A i \in 1..n : lines[i] = Elements[format][d[i]] /\ d[i] \in DOMAIN Elements[format]
    BY <2>1
  <2>4. \A i \in 1..n : lines[i] \in Range(Elements[format])
    BY <2>3 DEF Range
  <2>5. lines \in Seq(Range(Elements[format]))
    <3>1. lines = [i \in 1..n |-> lines[i]]
      BY <2>1
    <3> QED
      BY <2>2, <2>4, <3>1
  <2>6. IsList(lines) /\ Range(lines) \subseteq Range(Elements[format])
    BY <2>5, SeqIsList
  <2> QED
    BY <2>6 DEF Init, Opened, OnDisk
<1>2. Opened /\ [Next]_vars => Opened'
  <2> SUFFICES ASSUME Opened, [Next]_vars PROVE Opened'
    OBVIOUS
  <2>1. CASE UNCHANGED vars
    BY <2>1 DEF Opened, OnDisk, vars, Items, RolloutFile, ClineFile, SessionFile, PromptFile, Pack, Packed
  <2> DEFINE Same == UNCHANGED <<format, file, lines>>
  <2>2. Same => OnDisk' /\ Items' = Items
    BY DEF Opened, OnDisk, Items, RolloutFile, ClineFile, SessionFile, PromptFile, Pack, Packed
  <2>3. CASE Open
    BY <2>2, <2>3 DEF Opened, Open
  <2>4. CASE Close
    <3>1. Same /\ items' = items /\ at = Len(items) + 1 /\ at' = Len(items) + 2
      BY <2>4 DEF Close
    <3>2. at # 0 /\ at' = at + 1
      BY <2>4, <3>1, ShortLists DEF Opened, Close
    <3> QED
      BY <2>2, <3>1, <3>2 DEF Opened
  <2>5. CASE \E result : Read(result)
    <3>1. Same /\ items' = items /\ at \in DOMAIN items /\ at' = at + 1
      BY <2>5 DEF Read
    <3>2. at # 0
      BY <3>1 DEF Opened
    <3> QED
      BY <2>2, <3>1, <3>2 DEF Opened
  <2> QED
    BY <2>1, <2>3, <2>4, <2>5, StepsAre
<1> QED
  BY <1>1, <1>2, PTL DEF Spec

(* --------------------------------- what is read element by element -- *)

(* What an element may be.                                                 *)
LEMMA ElementIs ==
    ASSUME Opened, at \in DOMAIN items, format # "git_pack"
    PROVE  /\ items = Items /\ Element = items[at]
           /\ \/ Element = Blank /\ format \notin Documents
              \/ Element = Torn /\ format \notin Documents \ {"document", "cascade", "git_index", "git_pack"}
              \/ Element \notin {Blank, Torn} /\ Fits(format, Element)
<1>1. at # 0 /\ items = Items
  BY DEF Opened
<1>2. Element \in Range(items)
  BY DEF Element, Range
<1>3. From(items, lines)
  BY <1>1, ItemsFrom DEF Opened, OnDisk
<1>4. Element \in Range(Elements[format]) \/ (format = "codex" /\ Element = Torn)
  BY <1>2, <1>3 DEF From, Opened, OnDisk
<1>5. format \in DOMAIN Elements
  BY DEF Opened, OnDisk
<1>6. CASE Element \in Range(Elements[format])
  <2>1. PICK i \in DOMAIN Elements[format] : Element = Elements[format][i]
    BY <1>6 DEF Range
  <2> QED
    BY <1>1, <1>5, <2>1, ElementsFit DEF Element
<1>7. CASE format = "codex" /\ Element = Torn
  BY <1>1, <1>7 DEF Documents, Element
<1> QED
  BY <1>4, <1>6, <1>7

(* What is told of the element that is next: events at its place, with     *)
(* identities of their own where the format has such, and none only where  *)
(* the element is silent.                                                  *)
TellsNext(evs) ==
    /\ IsList(evs) /\ \A e \in Range(evs) : e.loc[1] = at
    /\ evs = <<>> => Silent(at)
    /\ format \notin SharesPlaces => Own(evs, at)

(* Nothing is told of a silent element.                                    *)
LEMMA TellsNextSilent == Silent(at) => TellsNext(<<>>)
BY OwnShort, ShortLists DEF TellsNext

(* A record whose events have identities of their own.                     *)
LEMMA TellsNextOwn ==
    ASSUME NEW evs, Tells1(evs, at) \/ \E stamp : Answers(evs, at, stamp)
    PROVE  TellsNext(evs)
<1>1. Tells1(evs, at)
  BY AnswersTells1
<1> QED
  BY <1>1 DEF Tells1, Own, TellsNext

(* A record of a format whose events may share a place.                    *)
LEMMA TellsNextAt ==
    ASSUME NEW evs, AllAt(evs, at), format \in SharesPlaces
    PROVE  TellsNext(evs)
BY DEF AllAt, TellsNext

(* The readers of transcripts, line by line.                               *)
LEMMA LinesTell ==
    ASSUME Opened, ReadClaude \/ ReadClaudeHistory \/ ReadGemini \/ ReadQwen
           \/ ReadCodexHistory \/ ReadCopilot \/ ReadPi \/ ReadGoose \/ ReadHooks \/ ReadJsonl
    PROVE  \E evs : events' = events \o evs /\ TellsNext(evs)
<1>1. CASE ReadClaude
  <2> DEFINE evs == Cla!Take(at, Element, carried).events
  <2>1. format = "claude" /\ at \in DOMAIN items /\ events' = events \o evs
    BY <1>1 DEF ReadClaude, Read
  <2>2. CASE Element = Blank
    <3>1. evs = <<>> /\ Silent(at)
      BY <2>2, Marks DEF Cla!Take, Cla!ReadLine, Silent, Element
    <3> QED
      BY <2>1, <3>1, TellsNextSilent
  <2>3. CASE Element # Blank
    <3>1. Element # Torn => Fits("claude", Element)
      BY <2>1, <2>3, ElementIs
    <3>2. \E stamp : Answers(evs, at, stamp)
      BY <2>3, <3>1, ClaudeTells DEF Fits
    <3> HIDE DEF evs
    <3> QED
      BY <2>1, <3>2, TellsNextOwn
  <2> QED
    BY <2>2, <2>3
<1>2. CASE ReadClaudeHistory
  <2> DEFINE evs == Cla!TakeHistory(at, Element, carried).events
  <2>1. format = "claude_history" /\ at \in DOMAIN items /\ events' = events \o evs
    BY <1>2 DEF ReadClaudeHistory, Read
  <2>2. CASE Element = Blank
    <3>1. evs = <<>> /\ Silent(at)
      BY <2>2, Marks DEF Cla!TakeHistory, Cla!ReadLine, Silent, Element
    <3> QED
      BY <2>1, <3>1, TellsNextSilent
  <2>3. CASE Element # Blank
    <3>2. \E stamp : Answers(evs, at, stamp)
      BY <2>3, ClaudeHistoryTells
    <3> HIDE DEF evs
    <3> QED
      BY <2>1, <3>2, TellsNextOwn
  <2> QED
    BY <2>2, <2>3
<1>3. CASE ReadGemini
  <2> DEFINE evs == Gem!Take(at, Element, carried).events
  <2>1. format = "gemini" /\ at \in DOMAIN items /\ events' = events \o evs
    BY <1>3 DEF ReadGemini, Read
  <2>2. CASE Element = Blank
    <3>1. evs = <<>> /\ Silent(at)
      BY <2>2, Marks DEF Gem!Take, Gem!ReadLine, Silent, Element
    <3> QED
      BY <2>1, <3>1, TellsNextSilent
  <2>3. CASE Element # Blank
    <3>1. Element # Torn => Fits("gemini", Element)
      BY <2>1, <2>3, ElementIs
    <3>2. \E stamp : Answers(evs, at, stamp)
      BY <2>3, <3>1, GeminiTells DEF Fits
    <3> HIDE DEF evs
    <3> QED
      BY <2>1, <3>2, TellsNextOwn
  <2> QED
    BY <2>2, <2>3
<1>4. CASE ReadQwen
  <2> DEFINE evs == Gem!TakeQwen(at, Element, carried).events
  <2>1. format = "qwen" /\ at \in DOMAIN items /\ events' = events \o evs
    BY <1>4 DEF ReadQwen, Read
  <2>2. CASE Element = Blank
    <3>1. evs = <<>> /\ Silent(at)
      BY <2>2, Marks DEF Gem!TakeQwen, Gem!ReadLine, Silent, Element
    <3> QED
      BY <2>1, <3>1, TellsNextSilent
  <2>3. CASE Element # Blank
    <3>1. Element # Torn => Fits("qwen", Element)
      BY <2>1, <2>3, ElementIs
    <3>2. \E stamp : Answers(evs, at, stamp)
      BY <2>3, <3>1, QwenTells DEF Fits
    <3> HIDE DEF evs
    <3> QED
      BY <2>1, <3>2, TellsNextOwn
  <2> QED
    BY <2>2, <2>3
<1>5. CASE ReadCodexHistory
  <2> DEFINE evs == Cdx!TakeHistory(at, Element, carried).events
  <2>1. format = "codex_history" /\ at \in DOMAIN items /\ events' = events \o evs
    BY <1>5 DEF ReadCodexHistory, Read
  <2>2. CASE Element = Blank
    <3>1. evs = <<>> /\ Silent(at)
      BY <2>2, Marks DEF Cdx!TakeHistory, Cdx!ReadLine, Silent, Element
    <3> QED
      BY <2>1, <3>1, TellsNextSilent
  <2>3. CASE Element # Blank
    <3>2. \E stamp : Answers(evs, at, stamp)
      BY <2>3, CodexHistoryTells
    <3> HIDE DEF evs
    <3> QED
      BY <2>1, <3>2, TellsNextOwn
  <2> QED
    BY <2>2, <2>3
<1>6. CASE ReadCopilot
  <2> DEFINE evs == Cop!Take(at, Element, carried).events
  <2>1. format = "copilot" /\ at \in DOMAIN items /\ events' = events \o evs
    BY <1>6 DEF ReadCopilot, Read
  <2>2. CASE Element = Blank
    <3>1. evs = <<>> /\ Silent(at)
      BY <2>2, Marks DEF Cop!Take, Cop!ReadLine, Silent, Element
    <3> QED
      BY <2>1, <3>1, TellsNextSilent
  <2>3. CASE Element # Blank
    <3>2. \E stamp : Answers(evs, at, stamp)
      BY <2>3, CopilotTells
    <3> HIDE DEF evs
    <3> QED
      BY <2>1, <3>2, TellsNextOwn
  <2> QED
    BY <2>2, <2>3
<1>7. CASE ReadPi
  <2> DEFINE evs == PiA!Take(at, Element, carried).events
  <2>1. format = "pi" /\ at \in DOMAIN items /\ events' = events \o evs
    BY <1>7 DEF ReadPi, Read
  <2>2. CASE Element = Blank
    <3>1. evs = <<>> /\ Silent(at)
      BY <2>2, Marks DEF PiA!Take, PiA!ReadLine, Silent, Element
    <3> QED
      BY <2>1, <3>1, TellsNextSilent
  <2>3. CASE Element # Blank
    <3>1. Element # Torn => Fits("pi", Element)
      BY <2>1, <2>3, ElementIs
    <3>2. \E stamp : Answers(evs, at, stamp)
      BY <2>3, <3>1, PiTells DEF Fits
    <3> HIDE DEF evs
    <3> QED
      BY <2>1, <3>2, TellsNextOwn
  <2> QED
    BY <2>2, <2>3
<1>8. CASE ReadGoose
  <2> DEFINE evs == Goo!TakeLegacy(at, Element, carried).events
  <2>1. format = "goose" /\ at \in DOMAIN items /\ events' = events \o evs
    BY <1>8 DEF ReadGoose, Read
  <2>2. CASE Element = Blank
    <3>1. evs = <<>> /\ Silent(at)
      BY <2>2, Marks DEF Goo!TakeLegacy, Goo!ReadLine, Silent, Element
    <3> QED
      BY <2>1, <3>1, TellsNextSilent
  <2>3. CASE Element # Blank
    <3>1. Element # Torn => Fits("goose", Element)
      BY <2>1, <2>3, ElementIs
    <3>2. \E stamp : Answers(evs, at, stamp)
      BY <2>3, <3>1, GooseTells DEF Fits
    <3> HIDE DEF evs
    <3> QED
      BY <2>1, <3>2, TellsNextOwn
  <2> QED
    BY <2>2, <2>3
<1>9. CASE ReadHooks
  <2> DEFINE evs == Cli!TakeHook(at, Element, carried).events
  <2>1. format = "cline_hooks" /\ at \in DOMAIN items /\ events' = events \o evs
    BY <1>9 DEF ReadHooks, Read
  <2>2. CASE Element = Blank
    <3>1. evs = <<>> /\ Silent(at)
      BY <2>2, Marks DEF Cli!TakeHook, Cli!ReadLine, Silent, Element
    <3> QED
      BY <2>1, <3>1, TellsNextSilent
  <2>3. CASE Element # Blank
    <3>1. Element # Torn => Fits("cline_hooks", Element)
      BY <2>1, <2>3, ElementIs
    <3>2. AllAt(evs, at)
      BY <2>3, <3>1, HookTells DEF Fits
    <3> HIDE DEF evs
    <3> QED
      BY <2>1, <3>2, TellsNextAt DEF SharesPlaces
  <2> QED
    BY <2>2, <2>3
<1>10. CASE ReadJsonl
  <2> DEFINE evs == Flo!TakeJsonl(at, Element, carried).events
  <2>1. format = "jsonl" /\ at \in DOMAIN items /\ events' = events \o evs
    BY <1>10 DEF ReadJsonl, Read
  <2>2. CASE Element = Blank
    <3>1. evs = <<>> /\ Silent(at)
      BY <2>2, Marks DEF Flo!TakeJsonl, Flo!ReadLine, Silent, Element
    <3> QED
      BY <2>1, <3>1, TellsNextSilent
  <2>3. CASE Element # Blank
    <3>2. Tells1(evs, at)
      BY <2>3, JsonlTells
    <3> HIDE DEF evs
    <3> QED
      BY <2>1, <3>2, TellsNextOwn
  <2> QED
    BY <2>2, <2>3
<1> QED
  BY <1>1, <1>2, <1>3, <1>4, <1>5, <1>6, <1>7, <1>8, <1>9, <1>10

(* The reader of rollouts: a turn's settings leave no event.               *)
LEMMA RolloutTells ==
    ASSUME Opened, ReadCodex
    PROVE  \E evs : events' = events \o evs /\ TellsNext(evs)
<1> DEFINE next == Cdx!Take(at, Element, carried)
           evs == next.events
<1>1. format = "codex" /\ at \in DOMAIN items /\ events' = events \o evs
  BY DEF ReadCodex, Read
<1>2. CASE Element = Blank
  <2>1. evs = <<>> /\ Silent(at)
    BY <1>2, Marks DEF Cdx!Take, Cdx!ReadLine, Silent, Element
  <2> QED
    BY <1>1, <2>1, TellsNextSilent
<1>3. CASE Element # Blank
  <2>1. \/ \E stamp : Answers(evs, at, stamp)
        \/ evs = <<>> /\ Element # Torn /\ Get(Element, "type") = "turn_context"
    BY <1>3, CodexTells
  <2> HIDE DEF evs
  <2>2. evs = <<>> /\ Element # Torn /\ Get(Element, "type") = "turn_context" => Silent(at)
    BY <1>1 DEF Silent, Element
  <2> QED
    BY <1>1, <2>1, <2>2, TellsNextSilent, TellsNextOwn
<1> QED
  BY <1>2, <1>3

(* The readers of documents, entry by entry.                               *)
LEMMA DocumentsTell ==
    ASSUME Opened,
           ReadGeminiPrompts \/ ReadCline \/ ReadClineMessages \/ ReadContinue \/ ReadDocument \/ ReadCascade
    PROVE  \E evs : events' = events \o evs /\ TellsNext(evs)
<1>1. CASE ReadGeminiPrompts
  <2> DEFINE evs == Gem!TakePrompt(at, Element)
  <2>1. events' = events \o evs
    BY <1>1 DEF ReadGeminiPrompts, Read, Kept
  <2>2. \E stamp : Answers(evs, at, stamp)
    BY GeminiPromptTells
  <2> HIDE DEF evs
  <2> QED
    BY <2>1, <2>2, TellsNextOwn
<1>2. CASE ReadCline
  <2> DEFINE evs == Cli!Take(ClineFile, at, Element)
  <2>1. format = "cline" /\ at \in DOMAIN items /\ events' = events \o evs
    BY <1>2 DEF ReadCline, Read, Kept
  <2>2. AList(Get(Element, "content"))
    <3>1. Fits("cline", Element)
      BY <2>1, ElementIs DEF Documents
    <3> QED
      BY <3>1 DEF Fits
  <2>3. \E stamp : Answers(evs, at, stamp)
    BY <2>2, ClineTells
  <2> HIDE DEF evs
  <2> QED
    BY <2>1, <2>3, TellsNextOwn
<1>3. CASE ReadClineMessages
  <2> DEFINE evs == Cli!TakeMessage(at, Element, carried).events
             content == Get(Element, "content")
  <2>1. format = "cline_messages" /\ at \in DOMAIN items /\ events' = events \o evs
    BY <1>3 DEF ReadClineMessages, Read
  <2>2. /\ AList(content)
        /\ \A i \in DOMAIN Listed(content) : Get(content[i], "type") = "tool_use" => Cli!Aims(content[i])
    <3>1. Fits("cline_messages", Element)
      BY <2>1, ElementIs DEF Documents
    <3> QED
      BY <3>1 DEF Fits
  <2>3. \A block \in Range(Listed(content)) : Get(block, "type") = "tool_use" => Cli!Aims(block)
    <3>1. Listed(content) = content \/ Range(Listed(content)) = {}
      BY ShortLists DEF Listed
    <3> HIDE DEF content
    <3> QED
      BY <2>2, <3>1 DEF Range
  <2>4. AllAt(evs, at)
    BY <2>2, <2>3, MessageTells
  <2> HIDE DEF evs
  <2> QED
    BY <2>1, <2>4, TellsNextAt DEF SharesPlaces
<1>4. CASE ReadContinue
  <2> DEFINE evs == Con!Take(SessionFile, at, Element)
  <2>1. format = "continue" /\ at \in DOMAIN items /\ events' = events \o evs
    BY <1>4 DEF ReadContinue, Read, Kept
  <2>2. AList(Get(Element, "toolCallStates")) /\ AList(Get(Element, "appliedRules"))
    <3>1. Fits("continue", Element)
      BY <2>1, ElementIs DEF Documents
    <3> QED
      BY <3>1 DEF Fits
  <2>3. \E stamp : Answers(evs, at, stamp)
    BY <2>2, ContinueTells
  <2> HIDE DEF evs
  <2> QED
    BY <2>1, <2>3, TellsNextOwn
<1>5. CASE ReadDocument
  <2> DEFINE evs == Flo!TakeDocument(at, Element, carried).events
  <2>1. format = "document" /\ at \in DOMAIN items /\ events' = events \o evs
    BY <1>5 DEF ReadDocument, Read
  <2>2. Element # Torn => ADocument(Element)
    <3>1. Element # Torn => Fits("document", Element)
      BY <2>1, ElementIs DEF Documents
    <3>2. Fits("document", Element) => /\ Element.is = "list" => Element.of \in Seq(Range(Element.of))
                                       /\ Element.is = "mapping" => Flo!Entries(Element.entries)
      BY DEF Fits
    <3> QED
      BY <3>1, <3>2, EntriesAre DEF ADocument
  <2>3. Tells1(evs, at)
    BY <2>2, DocumentTells
  <2> HIDE DEF evs
  <2> QED
    BY <2>1, <2>3, TellsNextOwn
<1>6. CASE ReadCascade
  <2> DEFINE evs == Flo!TakeCascade(at, Element, carried).events
  <2>1. format = "cascade" /\ at \in DOMAIN items /\ events' = events \o evs
    BY <1>6 DEF ReadCascade, Read
  <2>2. Element # Torn => Entries1(Element.entries)
    <3>1. Element # Torn => Fits("cascade", Element)
      BY <2>1, ElementIs DEF Documents
    <3>2. Fits("cascade", Element) => Flo!Entries(Element.entries)
      BY DEF Fits
    <3> QED
      BY <3>1, <3>2, EntriesAre
  <2>3. Tells1(evs, at)
    BY <2>2, CascadeTells
  <2> HIDE DEF evs
  <2> QED
    BY <2>1, <2>3, TellsNextOwn
<1> QED
  BY <1>1, <1>2, <1>3, <1>4, <1>5, <1>6

(* The readers whose elements are one event or nothing.                    *)
LEMMA SinglesTell ==
    ASSUME Opened, ReadPromptLines \/ ReadRepository \/ ReadOwnLog
    PROVE  \E evs : events' = events \o evs /\ TellsNext(evs)
<1>1. CASE ReadPromptLines
  <2> DEFINE evs == His!TakeLine(at, Element, carried).events
  <2>1. format = "prompt_lines" /\ events' = events \o evs
    BY <1>1 DEF ReadPromptLines, Read
  <2>2. \/ evs = <<>> /\ (Element = Blank \/ (at = 1 /\ Element.is = "version"))
        \/ Tells1(evs, at)
    BY LineTells
  <2> HIDE DEF evs
  <2>3. Element = Blank \/ (at = 1 /\ Element.is = "version") => Silent(at)
    BY <2>1 DEF Silent, Element
  <2> QED
    BY <2>1, <2>2, <2>3, TellsNextSilent, TellsNextOwn
<1>2. CASE ReadRepository
  <2> DEFINE place == Git!Place(file.path)
             a == Git!TakeLogLine(file.path, at, Element)
             b == Git!TakePackedRef(at, Element)
             c == Git!TakePathspec(at, Element)
             evs == CASE place = "log" -> a [] place = "packed" -> b [] OTHER -> c
  <2>1. format = "git_log" /\ place \in {"log", "packed", "pathspec"} /\ events' = events \o evs
    BY <1>2 DEF ReadRepository, Read, Kept
  <2>2. /\ place = "log" => evs = a
        /\ place = "packed" => evs = b
        /\ place = "pathspec" => evs = c
    <3> HIDE DEF place, a, b, c
    <3>1. CASE place = "log"
      BY <3>1
    <3>2. CASE place = "packed"
      BY <3>2
    <3>3. CASE place = "pathspec"
      BY <3>3
    <3> QED
      BY <2>1, <3>1, <3>2, <3>3
  <2>3. /\ IF Element = Blank THEN a = <<>> /\ c = <<>> ELSE Tells1(a, at) /\ Tells1(c, at)
        /\ b = <<>> \/ Tells1(b, at)
    BY GitTells
  <2>4. Element = Blank \/ place = "packed" => Silent(at)
    BY <2>1 DEF Silent, Element
  <2> HIDE DEF a, b, c, evs, place
  <2> QED
    BY <2>1, <2>2, <2>3, <2>4, TellsNextSilent, TellsNextOwn
<1>3. CASE ReadOwnLog
  <2> DEFINE evs == Lev!TakeOwnLog(at, Element, carried).events
  <2>1. events' = events \o evs
    BY <1>3 DEF ReadOwnLog, Read
  <2>2. IF Element = Blank THEN evs = <<>> ELSE Tells1(evs, at)
    BY OwnLogTells
  <2> HIDE DEF evs
  <2>3. Element = Blank => Silent(at)
    BY DEF Silent, Element
  <2> QED
    BY <2>1, <2>2, <2>3, TellsNextSilent, TellsNextOwn
<1> QED
  BY <1>1, <1>2, <1>3

(* The file goes on as it is when something is read of it. *)
Onward ==
    /\ at \in DOMAIN items /\ at' = at + 1
    /\ UNCHANGED <<format, file, lines, items>>

(* What happens to a file that is read element by element.                 *)
LEMMA StepsByElement ==
    ASSUME Opened, Next, format \in ByElement
    PROVE  \/ Open \/ Close
           \/ Onward /\ \E evs : events' = events \o evs /\ TellsNext(evs)
<1>1. \A result : Read(result) => Onward
  BY DEF Read, Onward
<1>2. CASE ReadClaude \/ ReadClaudeHistory \/ ReadGemini \/ ReadQwen
           \/ ReadCodexHistory \/ ReadCopilot \/ ReadPi \/ ReadGoose \/ ReadHooks \/ ReadJsonl
  <2>1. Onward
    BY <1>1, <1>2 DEF ReadClaude, ReadClaudeHistory, ReadGemini, ReadQwen, ReadCodexHistory, ReadCopilot,
       ReadPi, ReadGoose, ReadHooks, ReadJsonl
  <2> QED
    BY <1>2, <2>1, LinesTell
<1>3. CASE ReadCodex
  BY <1>1, <1>3, RolloutTells DEF ReadCodex
<1>4. CASE ReadGeminiPrompts \/ ReadCline \/ ReadClineMessages \/ ReadContinue \/ ReadDocument \/ ReadCascade
  <2>1. Onward
    BY <1>1, <1>4 DEF ReadGeminiPrompts, ReadCline, ReadClineMessages, ReadContinue, ReadDocument, ReadCascade
  <2> QED
    BY <1>4, <2>1, DocumentsTell
<1>5. CASE ReadPromptLines \/ ReadRepository \/ ReadOwnLog
  <2>1. Onward
    BY <1>1, <1>5 DEF ReadPromptLines, ReadRepository, ReadOwnLog
  <2> QED
    BY <1>5, <2>1, SinglesTell
<1>6. ~(\/ ReadShell \/ ReadRecall \/ ReadBash \/ ReadFish \/ ReadPrompts \/ ReadAider
        \/ ReadLog \/ ReadPatterns \/ ReadScript \/ ReadRegistry
        \/ ReadIndex \/ ReadPack \/ ReadLevelLog \/ ReadTable)
  BY DEF ByElement, Gathered, ReadShell, ReadRecall, ReadBash, ReadFish, ReadPrompts, ReadAider, ReadLog,
     ReadPatterns, ReadScript, ReadRegistry, ReadIndex, ReadPack, ReadLevelLog, ReadTable
<1> QED
  BY <1>2, <1>3, <1>4, <1>5, <1>6 DEF Next

(* What is told of a whole file, before its elements and after them, is at *)
(* no place of theirs.                                                     *)
LEMMA OutsideElements ==
    ASSUME format \in ByElement
    PROVE  /\ format # "cline_messages" => Own(Preface, 0)
           /\ IsList(Preface) /\ \A e \in Range(Preface) : e.loc[1] = 0
           /\ format = "codex" => Preface = <<>>
           /\ Own(Finish, 0) /\ (format # "codex" => Finish = <<>>)
<1>1. /\ Own(<<>>, 0)
      /\ \A part, k, kind, raw, stamp, says : Own(<<Ev(0, part, k, kind, raw, stamp, says)>>, 0)
  BY OwnShort DEF Ev
<1>2. Own(Finish, 0) /\ (format # "codex" => Finish = <<>>)
  <2>1. CASE format = "codex"
    <3>1. Finish = Cdx!Finish(RolloutFile)
      BY <2>1 DEF Finish
    <3> QED
      BY <1>1, <2>1, <3>1 DEF Cdx!Finish, Cdx!Unparsed, Cdx!Ev, Ev
  <2>2. CASE format # "codex"
    BY <1>1, <2>2 DEF Finish, ByElement, Gathered
  <2> QED
    BY <2>1, <2>2
<1>3. CASE format = "cline_messages"
  <2>1. Preface = Cli!Preface(MessagesFile)
    BY <1>3 DEF Preface
  <2> DEFINE a(raw, stamp) == <<Cli!Ev(0, "header", 0, "config.snapshot", raw, stamp, Null)>>
             b(raw, stamp) == <<Cli!Ev(0, "system_prompt", 0, "instruction.source", raw, stamp, Null)>>
             c(raw, stamp) == <<Cli!Unparsed(0, "document", 0, raw, stamp)>>
  <2>2. \E x, y, z : Cli!Preface(MessagesFile) \in {a(x, y) \o <<>>, a(x, y) \o b(z, y), c(x, y)}
    BY DEF Cli!Preface, Cli!When, Cli!Unread
  <2>3. \A x, y, z : Own(a(x, y), 0) /\ Own(b(z, y), 0) /\ Own(c(x, y), 0)
    BY <1>1 DEF Cli!Ev, Cli!Unparsed, Ev
  <2> HIDE DEF a, b, c
  <2>4. \A s, t : Own(s, 0) /\ Own(t, 0) => IsList(s \o t) /\ \A e \in Range(s \o t) : e.loc[1] = 0
    BY ListsJoin DEF Own
  <2>5. IsList(Cli!Preface(MessagesFile)) /\ \A e \in Range(Cli!Preface(MessagesFile)) : e.loc[1] = 0
    <3>1. PICK x, y, z : Cli!Preface(MessagesFile) \in {a(x, y) \o <<>>, a(x, y) \o b(z, y), c(x, y)}
      BY <2>2
    <3>2. Own(a(x, y), 0) /\ Own(b(z, y), 0) /\ Own(c(x, y), 0) /\ Own(<<>>, 0)
      BY <1>1, <2>3
    <3>3. IsList(c(x, y)) /\ \A e \in Range(c(x, y)) : e.loc[1] = 0
      BY <3>2 DEF Own
    <3> QED
      BY <2>4, <3>1, <3>2, <3>3
  <2> QED
    BY <1>2, <1>3, <2>1, <2>5
<1>4. CASE format = "cline"
  <2>1. Preface = Cli!Document(ClineFile)
    BY <1>4 DEF Preface
  <2>2. Own(Cli!Document(ClineFile), 0)
    BY <1>1 DEF Cli!Document, Cli!Ev, Cli!Unparsed, Ev
  <2> QED
    BY <1>2, <1>4, <2>1, <2>2 DEF Own
<1>5. CASE format = "continue"
  <2>1. Preface = Con!Preface(SessionFile)
    BY <1>5 DEF Preface
  <2>2. Own(Con!Preface(SessionFile), 0)
    BY <1>1 DEF Con!Preface, Con!Ev, Con!Unparsed, Ev
  <2> QED
    BY <1>2, <1>5, <2>1, <2>2 DEF Own
<1>6. CASE format = "gemini_prompts"
  <2>1. Preface = Gem!PromptPreface(PromptFile)
    BY <1>6 DEF Preface
  <2>2. Own(Gem!PromptPreface(PromptFile), 0)
    BY <1>1 DEF Gem!PromptPreface, Gem!When, Gem!Ev, Gem!Unparsed, Ev
  <2> QED
    BY <1>2, <1>6, <2>1, <2>2 DEF Own
<1>7. CASE format \notin {"cline_messages", "cline", "continue", "gemini_prompts"}
  <2>1. Preface = <<>>
    BY <1>7 DEF Preface, ByElement, Gathered, Whole
  <2> QED
    BY <1>1, <1>2, <2>1 DEF Own
<1> QED
  BY <1>3, <1>4, <1>5, <1>6, <1>7

(* What is told of the elements that were read: events at their places, and *)
(* of each one at least, unless it is silent.                              *)
ReadByElement ==
    format \in ByElement =>
        /\ IsList(events) /\ \A e \in Range(events) : e.loc[1] \in 0..(at - 1)
        /\ format = "codex" /\ at \in 0..(Len(items) + 1) => \A e \in Range(events) : e.loc[1] # 0
        /\ format \notin SharesPlaces => Distinct(events)
        /\ \A i \in 1..(at - 1) : i \in DOMAIN items /\ ~Silent(i) => \E e \in Range(events) : e.loc[1] = i

(* The elements of a file that is open are a list.                         *)
LEMMA ItemsList ==
    ASSUME Opened, format # "git_pack"
    PROVE  IsList(items) /\ Len(items) \in Nat /\ DOMAIN items = 1..Len(items)
<1>1. IsList(items)
  BY ItemsFrom, ShortLists DEF Opened, OnDisk, From
<1> QED
  BY <1>1, ListFacts

(* Reading a file element by element keeps to that.                        *)
LEMMA KeepsByElement ==
    ASSUME Opened, ReadByElement, Next, format \in ByElement
    PROVE  ReadByElement'
<1>1. format' = format /\ ByElement' = ByElement /\ SharesPlaces' = SharesPlaces
  <2>1. Open \/ Close \/ Onward
    BY StepsByElement
  <2> QED
    BY <2>1 DEF Open, Close, Onward, ByElement, SharesPlaces, Gathered, Whole
<1>2. /\ IsList(items) /\ Len(items) \in Nat /\ DOMAIN items = 1..Len(items) /\ at \in Nat
  BY ItemsList DEF Opened, ByElement
<1>3. /\ IsList(events) /\ \A e \in Range(events) : e.loc[1] \in 0..(at - 1)
      /\ format = "codex" /\ at \in 0..(Len(items) + 1) => \A e \in Range(events) : e.loc[1] # 0
      /\ format \notin SharesPlaces => Distinct(events)
      /\ \A i \in 1..(at - 1) : i \in DOMAIN items /\ ~Silent(i) => \E e \in Range(events) : e.loc[1] = i
  BY DEF ReadByElement
<1>4. /\ format # "cline_messages" => Own(Preface, 0)
      /\ IsList(Preface) /\ \A e \in Range(Preface) : e.loc[1] = 0
      /\ format = "codex" => Preface = <<>>
      /\ Own(Finish, 0) /\ (format # "codex" => Finish = <<>>)
  BY OutsideElements
<1>5. CASE Open
  <2>1. at' = 1 /\ events' = Preface
    BY <1>5 DEF Open
  <2>2. Own(Preface, 0) => Distinct(Preface)
    BY DEF Own, Distinct
  <2>3. \A e \in Range(events') : e.loc[1] \in 0..(at' - 1)
    BY <1>4, <2>1
  <2>4. format = "codex" => \A e \in Range(events') : e.loc[1] # 0
    BY <1>4, <2>1, ShortLists
  <2>5. format \notin SharesPlaces => Distinct(events')
    BY <1>4, <2>1, <2>2 DEF SharesPlaces
  <2> QED
    BY <1>1, <1>4, <2>1, <2>3, <2>4, <2>5 DEF ReadByElement
<1>6. CASE Close
  <2>1. at = Len(items) + 1 /\ at' = Len(items) + 2 /\ events' = events \o Finish /\ items' = items
    BY <1>6 DEF Close
  <2>2. IsList(Finish) /\ Distinct(Finish) /\ \A e \in Range(Finish) : e.loc[1] = 0
    BY <1>4 DEF Own, Distinct
  <2>3. IsList(events') /\ Range(events') = Range(events) \cup Range(Finish)
    BY <1>3, <2>1, <2>2, ListsJoin
  <2>4. format \notin SharesPlaces => Distinct(events')
    <3>1. Apart(events, Finish)
      <4>1. CASE format = "codex"
        <5>1. \A e \in Range(events) : e.loc[1] # 0
          BY <1>2, <1>3, <2>1, <4>1
        <5> QED
          BY <2>2, <5>1 DEF Apart, Identity
      <4>2. CASE format # "codex"
        BY <1>4, <4>2, ShortLists DEF Apart
      <4> QED
        BY <4>1, <4>2
    <3> QED
      BY <1>3, <2>1, <2>2, <3>1, DistinctJoin
  <2>5. \A e \in Range(events') : e.loc[1] \in 0..(at' - 1)
    BY <1>2, <1>3, <2>1, <2>2, <2>3
  <2>6. ASSUME NEW i \in 1..(at' - 1), i \in DOMAIN items', ~Silent(i)'
        PROVE  \E e \in Range(events') : e.loc[1] = i
    <3>1. i \in 1..(at - 1) /\ i \in DOMAIN items
      BY <1>2, <2>1, <2>6
    <3>2. ~Silent(i)
      BY <1>6, <2>6 DEF Silent, Close
    <3> QED
      BY <1>3, <2>3, <3>1, <3>2
  <2>7. ~(at' \in 0..(Len(items') + 1))
    BY <1>2, <2>1
  <2> QED
    BY <1>1, <2>3, <2>4, <2>5, <2>6, <2>7 DEF ReadByElement
<1>7. CASE Onward /\ \E evs : events' = events \o evs /\ TellsNext(evs)
  <2>1. PICK evs : events' = events \o evs /\ TellsNext(evs)
    BY <1>7
  <2>2. at \in DOMAIN items /\ at' = at + 1 /\ items' = items
    BY <1>7 DEF Onward
  <2>3. /\ IsList(evs) /\ \A e \in Range(evs) : e.loc[1] = at
        /\ evs = <<>> => Silent(at)
        /\ format \notin SharesPlaces => Own(evs, at)
    BY <2>1 DEF TellsNext
  <2>4. IsList(events') /\ Range(events') = Range(events) \cup Range(evs)
    BY <1>3, <2>1, <2>3, ListsJoin
  <2>5. format \notin SharesPlaces => Distinct(events')
    <3>1. \A x \in Range(events), y \in Range(evs) : x.loc[1] # y.loc[1]
      BY <1>2, <1>3, <2>3
    <3>2. Apart(events, evs)
      BY <3>1 DEF Apart, Identity
    <3>3. Own(evs, at) => Distinct(evs)
      BY DEF Own, Distinct
    <3> QED
      BY <1>3, <2>1, <2>3, <3>2, <3>3, DistinctJoin
  <2>6. \A e \in Range(events') : e.loc[1] \in 0..(at' - 1)
    BY <1>2, <1>3, <2>2, <2>3, <2>4
  <2>7. format = "codex" /\ at' \in 0..(Len(items') + 1) => \A e \in Range(events') : e.loc[1] # 0
    BY <1>2, <1>3, <2>2, <2>3, <2>4
  <2>8. ASSUME NEW i \in 1..(at' - 1), i \in DOMAIN items', ~Silent(i)'
        PROVE  \E e \in Range(events') : e.loc[1] = i
    <3>1. ~Silent(i)
      BY <1>7, <2>8 DEF Silent, Onward
    <3>2. CASE i = at
      <4>1. evs # <<>>
        BY <2>3, <3>1, <3>2
      <4>2. Range(evs) # {}
        BY <2>3, <4>1, ListFacts
      <4> QED
        BY <2>3, <2>4, <3>2, <4>2
    <3>3. CASE i # at
      <4>1. i \in 1..(at - 1) /\ i \in DOMAIN items
        BY <1>2, <2>2, <2>8, <3>3
      <4> QED
        BY <1>3, <2>4, <3>1, <4>1
    <3> QED
      BY <3>2, <3>3
  <2> QED
    BY <1>1, <2>4, <2>5, <2>6, <2>7, <2>8 DEF ReadByElement
<1> QED
  BY <1>5, <1>6, <1>7, StepsByElement

(* A file of one format stays one of it.                                   *)
LEMMA FormatStays == [Next]_vars => format' = format
<1>1. Open \/ Close \/ (\E result : Read(result)) => format' = format
  BY DEF Open, Close, Read
<1> QED
  BY <1>1, StepsAre DEF vars

(* So what is told of such a file is always that.                          *)
LEMMA AlwaysByElement == Spec => []ReadByElement
<1>1. Init => ReadByElement
  BY ShortLists DEF Init, ReadByElement, Distinct
<1>2. Opened /\ ReadByElement /\ [Next]_vars => ReadByElement'
  <2> SUFFICES ASSUME Opened, ReadByElement, [Next]_vars PROVE ReadByElement'
    OBVIOUS
  <2>1. CASE UNCHANGED vars
    BY <2>1 DEF ReadByElement, vars, Silent
  <2>2. CASE Next /\ format \in ByElement
    BY <2>2, KeepsByElement
  <2>3. CASE format \notin ByElement
    <3>1. format' = format /\ ByElement' = ByElement
      BY FormatStays DEF ByElement, Gathered, Whole
    <3> QED
      BY <2>3, <3>1 DEF ReadByElement
  <2> QED
    BY <2>1, <2>2, <2>3
<1> QED
  BY <1>1, <1>2, FileOpened, PTL DEF Spec

(* A file that is read element by element has an event for each of its     *)
(* elements that was read, but for those that are silent: what is torn,    *)
(* odd or empty is in the case too (base.py, iter_lines and the readers).  *)
THEOREM AlwaysElementsTold == Spec => []ElementsTold
<1>1. Opened /\ ReadByElement => ElementsTold
  <2> SUFFICES ASSUME Opened, ReadByElement, format \in ByElement,
                      NEW i \in 1..(at - 1), i \in DOMAIN items, ~Silent(i)
               PROVE  \E j \in DOMAIN events : events[j].loc[1] = i
    BY DEF ElementsTold
  <2>1. \E e \in Range(events) : e.loc[1] = i
    BY DEF ReadByElement
  <2> QED
    BY <2>1 DEF Range
<1> QED
  BY <1>1, FileOpened, AlwaysByElement, PTL

(* ------------------------------------------- entries that span lines -- *)

(* Of lines, how many have to be found: none of none, of one whether it    *)
(* weighs, of two lists what they do together.                             *)
LEMMA Weights ==
    ASSUME NEW f
    PROVE  /\ \A s : IsList(s) => Weight(f, s) \in Nat
           /\ Weight(f, <<>>) = 0
           /\ \A x : Weight(f, <<x>>) = IF Weighs(f, x) THEN 1 ELSE 0
           /\ \A s, t : IsList(s) /\ IsList(t) => Weight(f, s \o t) = Weight(f, s) + Weight(f, t)
<1> DEFINE made(s) == [i \in DOMAIN s |-> When(Weighs(f, s[i]), <<s[i]>>)]
<1>0. \A s : Weight(f, s) = Len(FlattenSeq(made(s)))
  BY ReadersFlatten DEF Weight, Those
<1>1. \A x : IsList(When(Weighs(f, x), <<x>>)) /\ Len(When(Weighs(f, x), <<x>>)) = IF Weighs(f, x) THEN 1 ELSE 0
  <2> TAKE x
  <2>1. CASE Weighs(f, x)
    BY <2>1, ShortLists DEF When
  <2>2. CASE ~Weighs(f, x)
    BY <2>2, ShortLists DEF When
  <2> QED
    BY <2>1, <2>2
<1>2. ASSUME NEW s, NEW t, IsList(s), IsList(t)
      PROVE  AreLists(made(s)) /\ FlattenSeq(made(s \o t)) = FlattenSeq(made(s)) \o FlattenSeq(made(t))
  <2> DEFINE g == [x \in Range(s) \cup Range(t) |-> When(Weighs(f, x), <<x>>)]
             st == s \o t
  <2>1. \A x \in Range(s) \cup Range(t) : g[x] = When(Weighs(f, x), <<x>>)
    OBVIOUS
  <2>2. /\ \A i \in DOMAIN s : s[i] \in Range(s)
        /\ \A i \in DOMAIN t : t[i] \in Range(t)
    BY DEF Range
  <2>3. Range(st) = Range(s) \cup Range(t)
    BY <1>2, ListsJoin
  <2> HIDE DEF g, st
  <2>0. \A i \in DOMAIN st : st[i] \in Range(st)
    BY DEF Range
  <2>4. made(s) = Made(g, s) /\ made(t) = Made(g, t) /\ made(st) = Made(g, st)
    BY <2>1, <2>2, <2>3, <2>0 DEF Made
  <2>5. \A x \in Range(s) \cup Range(t) : IsList(g[x])
    BY <1>1, <2>1
  <2> HIDE DEF made
  <2>6. AreLists(Made(g, s)) /\ FlattenSeq(Made(g, st)) = FlattenSeq(Made(g, s)) \o FlattenSeq(Made(g, t))
    BY <1>2, <2>5, EachOfJoin DEF st
  <2> QED
    BY <2>4, <2>6 DEF st
<1>3. ASSUME NEW s, IsList(s)
      PROVE  IsList(FlattenSeq(made(s))) /\ Len(FlattenSeq(made(s))) \in Nat
  <2>1. AreLists(made(s))
    BY <1>2, <1>3
  <2> HIDE DEF made
  <2> QED
    BY <2>1, FlattenFacts, ListFacts
<1>4. Len(FlattenSeq(made(<<>>))) = 0
  <2>1. made(<<>>) = <<>>
    OBVIOUS
  <2> HIDE DEF made
  <2> QED
    BY <2>1, FlattenShort, ShortLists
<1>5. ASSUME NEW x
      PROVE  Len(FlattenSeq(made(<<x>>))) = IF Weighs(f, x) THEN 1 ELSE 0
  <2> DEFINE w == When(Weighs(f, x), <<x>>)
  <2> HIDE DEF w
  <2>1. made(<<x>>) = <<w>>
    <3>1. DOMAIN <<x>> = 1..1 /\ <<x>>[1] = x
      BY ShortLists
    <3> DEFINE one == <<x>>
    <3> HIDE DEF one
    <3>2. made(one) = [i \in 1..1 |-> w]
      BY <3>1 DEF one, w
    <3>3. [i \in 1..1 |-> w] = <<w>>
      OBVIOUS
    <3> QED
      BY <3>2, <3>3 DEF one
  <2> HIDE DEF made
  <2>2. IsList(w) /\ Len(w) = IF Weighs(f, x) THEN 1 ELSE 0
    BY <1>1 DEF w
  <2> QED
    BY <2>1, <2>2, FlattenShort
<1> HIDE DEF made
<1>6. ASSUME NEW s, NEW t, IsList(s), IsList(t)
      PROVE  Weight(f, s \o t) = Weight(f, s) + Weight(f, t)
  <2> DEFINE a == FlattenSeq(made(s))
             b == FlattenSeq(made(t))
  <2>1. FlattenSeq(made(s \o t)) = a \o b /\ IsList(a) /\ IsList(b)
    BY <1>2, <1>3, <1>6
  <2> HIDE DEF a, b
  <2>2. Len(a \o b) = Len(a) + Len(b)
    BY <2>1, ListsJoin
  <2> QED
    BY <1>0, <2>1, <2>2 DEF a, b
<1> QED
  BY <1>0, <1>3, <1>4, <1>5, <1>6

(* Events that keep a list of lines each, unless they are of the file.     *)
KeepLines(evs) == IsList(evs) /\ \A e \in Range(evs) : e.loc[1] # 0 => IsList(e.raw)

(* What they tell, one after the other.                                    *)
LEMMA ToldLines ==
    /\ Told(<<>>) = <<>>
    /\ \A e : e.loc[1] # 0 /\ IsList(e.raw) => Told(<<e>>) = e.raw
    /\ \A e : e.loc[1] = 0 => Told(<<e>>) = <<>>
    /\ \A s : KeepLines(s) => IsList(Told(s))
    /\ \A s, t : KeepLines(s) /\ KeepLines(t) => Told(s \o t) = Told(s) \o Told(t) /\ KeepLines(s \o t)
<1> DEFINE kept(e) == When(e.loc[1] # 0, e.raw)
           made(s) == [i \in DOMAIN s |-> kept(s[i])]
<1>0. \A s : Told(s) = FlattenSeq(made(s))
  BY DEF Told
<1>1. ASSUME NEW s, NEW t, KeepLines(s), KeepLines(t)
      PROVE  /\ AreLists(made(s)) /\ FlattenSeq(made(s \o t)) = FlattenSeq(made(s)) \o FlattenSeq(made(t))
             /\ KeepLines(s \o t)
  <2> DEFINE g == [x \in Range(s) \cup Range(t) |-> kept(x)]
             st == s \o t
  <2>1. \A x \in Range(s) \cup Range(t) : g[x] = kept(x)
    OBVIOUS
  <2>2. /\ IsList(s) /\ IsList(t)
        /\ \A i \in DOMAIN s : s[i] \in Range(s)
        /\ \A i \in DOMAIN t : t[i] \in Range(t)
    BY <1>1 DEF Range, KeepLines
  <2>3. Range(st) = Range(s) \cup Range(t) /\ IsList(st)
    BY <2>2, ListsJoin
  <2>4. KeepLines(st)
    BY <1>1, <2>3 DEF KeepLines
  <2>5. \A x \in Range(s) \cup Range(t) : IsList(kept(x))
    BY <1>1, ShortLists DEF KeepLines, When
  <2> HIDE DEF g, st, kept
  <2>0. \A i \in DOMAIN st : st[i] \in Range(st)
    BY DEF Range
  <2>6. made(s) = Made(g, s) /\ made(t) = Made(g, t) /\ made(st) = Made(g, st)
    BY <2>1, <2>2, <2>3, <2>0 DEF Made
  <2>7. \A x \in Range(s) \cup Range(t) : IsList(g[x])
    BY <2>1, <2>5
  <2> HIDE DEF made
  <2>8. AreLists(Made(g, s)) /\ FlattenSeq(Made(g, st)) = FlattenSeq(Made(g, s)) \o FlattenSeq(Made(g, t))
    BY <2>2, <2>7, EachOfJoin DEF st
  <2> QED
    BY <2>4, <2>6, <2>8 DEF st
<1>2. ASSUME NEW s, KeepLines(s)
      PROVE  IsList(Told(s))
  <2>1. AreLists(made(s))
    BY <1>1, <1>2
  <2> HIDE DEF made
  <2> QED
    BY <1>0, <2>1, FlattenFacts
<1>3. made(<<>>) = <<>>
  OBVIOUS
<1>4. ASSUME NEW e, IsList(kept(e))
      PROVE  FlattenSeq(made(<<e>>)) = kept(e)
  <2> DEFINE w == kept(e)
             one == <<e>>
  <2>1. DOMAIN one = 1..1 /\ one[1] = e
    BY ShortLists
  <2> HIDE DEF one, w, kept
  <2>2. made(one) = [i \in 1..1 |-> w]
    BY <2>1 DEF w
  <2>3. [i \in 1..1 |-> w] = <<w>>
    OBVIOUS
  <2>4. made(<<e>>) = <<w>>
    BY <2>2, <2>3 DEF one
  <2> HIDE DEF made
  <2> QED
    BY <1>4, <2>4, FlattenShort DEF w
<1> HIDE DEF made
<1>5. /\ \A e : e.loc[1] # 0 /\ IsList(e.raw) => kept(e) = e.raw
      /\ \A e : e.loc[1] = 0 => kept(e) = <<>> /\ IsList(kept(e))
  BY ShortLists DEF When
<1> HIDE DEF kept
<1> QED
  BY <1>0, <1>1, <1>2, <1>3, <1>4, <1>5, FlattenShort

(* Where lines begin that are gathered. *)
Begin(start, gathered) == IF gathered = <<>> THEN {} ELSE {start}

(* Of a file whose entries span lines: where what is gathered begins. *)
Starts(f, c, n) ==
    CASE f \in {"shell", "recall"} -> Begin(c.start, c.lines)
      [] f = "fish" -> IF c.lines = <<>> THEN {1} \cap 1..(n - 1) ELSE {c.start}
      [] f = "prompts" -> Begin(c.start, c.lines) \cup Begin(c.strayAt, c.stray)
      [] f = "aider" -> Begin(c.promptAt, c.prompt) \cup Begin(c.answerAt, c.answer)
      [] f = "script" -> Begin(c.start, c.pending)
      [] OTHER -> {}

(* How many of the lines that are gathered have to be found. *)
Awaiting(f, c) ==
    CASE f \in {"shell", "recall", "fish"} -> Weight(f, c.lines)
      [] f = "prompts" -> Weight(f, c.lines) + Weight(f, c.stray)
      [] f = "aider" -> Weight(f, c.prompt) + Weight(f, c.answer)
      [] f = "script" -> Weight(f, c.pending)
      [] OTHER -> 0

(* What is gathered of the lines before the next one: of fish they are all *)
(* held until there is a command, and a stray line of prompts or an answer *)
(* ends what was gathered before it. *)
Sound(f, c, n) ==
    /\ f \in {"shell", "recall", "bash"} => DOMAIN c = {"lines", "start", "when"} /\ IsList(c.lines)
    /\ f = "fish" =>
          /\ DOMAIN c = {"lines", "start", "when", "held", "inPaths", "paths"}
          /\ IsList(c.lines) /\ IsList(c.held) /\ Weight(f, c.held) = 0
          /\ c.lines = <<>> => Len(c.held) = n - 1
    /\ f = "prompts" =>
          /\ DOMAIN c = {"lines", "start", "when", "stray", "strayAt", "reported"}
          /\ IsList(c.lines) /\ IsList(c.stray) /\ (c.lines = <<>> \/ c.stray = <<>>)
          /\ \A x \in Range(c.stray) : x # Blank
    /\ f = "aider" =>
          /\ DOMAIN c = {"prompt", "promptAt", "answer", "answerAt"}
          /\ IsList(c.prompt) /\ IsList(c.answer) /\ (c.prompt = <<>> \/ c.answer = <<>>)
    /\ f = "script" =>
          DOMAIN c = {"read", "done", "pending", "start"} /\ IsList(c.pending)

(* A file of which some lines are read: what is told of them is at places  *)
(* where nothing more is gathered, and what has to be found of them is     *)
(* told or gathered. *)
ReadInEntries ==
    format \in Gathered /\ at > 0 =>
        /\ Alone(events) /\ \A e \in Range(events) : e.loc[1] \in 0..(at - 1)
        /\ at \in 1..(Len(items) + 1) =>
              /\ Sound(format, carried, at)
              /\ Starts(format, carried, at) \subseteq 1..(at - 1)
              /\ \A e \in Range(events) : e.loc[1] \notin Starts(format, carried, at)
              /\ ~CutScript =>
                    /\ KeepLines(events)
                    /\ Weight(format, Told(events)) + Awaiting(format, carried)
                       = Weight(format, SubSeq(items, 1, at - 1))
              /\ format = "prompts" =>
                    /\ ~carried.reported /\ carried.stray = <<>> =>
                          \A i \in 1..(at - 1) :
                              items[i] = Blank \/ items[i].is \in {"content", "stamp"}
                    /\ ~carried.reported /\ (\A i \in 1..(at - 1) : items[i] = Blank \/ items[i].is # "content") =>
                          events = <<>>
                    /\ (\A i \in 1..(at - 1) : items[i] = Blank \/ items[i].is # "content") => carried.lines = <<>>

(* Some events of lines that were gathered, and how many of these lines    *)
(* have to be found. *)
Flushed(f, evs, S, w) ==
    /\ Alone(evs) /\ \A e \in Range(evs) : e.loc[1] \in S /\ IsList(e.raw)
    /\ Weight(f, Told(evs)) = w

(* What one step makes of what is gathered. *)
Moves(f, c, d, n, line, evs) ==
    /\ Sound(f, d, n + 1)
    /\ Starts(f, d, n + 1) \subseteq Starts(f, c, n) \cup {n}
    /\ Alone(evs) /\ \A e \in Range(evs) : e.loc[1] \in (Starts(f, c, n) \cup {n}) \ Starts(f, d, n + 1)
    /\ ~(f = "script" /\ d.done) =>
          KeepLines(evs) /\ Weight(f, Told(evs)) + Awaiting(f, d) = Awaiting(f, c) + Weight(f, <<line>>)

(* One line after others.                                                  *)
LEMMA WeightAppends ==
    ASSUME NEW f, NEW s, NEW x, IsList(s)
    PROVE  /\ IsList(Append(s, x)) /\ Append(s, x) # <<>> /\ IsList(<<x>>)
           /\ Weight(f, Append(s, x)) = Weight(f, s) + Weight(f, <<x>>)
           /\ Weight(f, s) \in Nat /\ Weight(f, <<x>>) \in Nat
<1> DEFINE one == <<x>>
           app == Append(s, x)
<1>1. app = s \o one /\ IsList(app) /\ Len(app) = Len(s) + 1
  BY ListAppends
<1>2. IsList(one)
  BY ShortLists
<1>3. Len(s) \in Nat /\ Len(<<>>) = 0
  BY ListFacts, ShortLists
<1> HIDE DEF one, app
<1>4. app # <<>>
  BY <1>1, <1>3
<1>5. Weight(f, app) = Weight(f, s) + Weight(f, one) /\ Weight(f, s) \in Nat /\ Weight(f, one) \in Nat
  BY <1>1, <1>2, Weights
<1> QED
  BY <1>1, <1>2, <1>4, <1>5 DEF one, app

(* An event, none, and some events after others.                           *)
LEMMA FlushedOne ==
    ASSUME NEW f, NEW n, NEW part, NEW k, NEW kind, NEW run, NEW stamp, NEW says, n # 0, IsList(run)
    PROVE  Flushed(f, <<Ev(n, part, k, kind, run, stamp, says)>>, {n}, Weight(f, run))
<1> DEFINE e == Ev(n, part, k, kind, run, stamp, says)
<1>1. e.loc[1] = n /\ e.raw = run
  BY DEF Ev
<1> HIDE DEF e
<1>2. Told(<<e>>) = run
  BY <1>1, ToldLines
<1> DEFINE one == <<e>>
<1>3. IsList(one) /\ Range(one) = {e} /\ Len(one) = 1
  BY ShortLists
<1> HIDE DEF one
<1>4. Alone(one)
  BY <1>3 DEF Alone
<1>5. Flushed(f, one, {n}, Weight(f, run))
  BY <1>1, <1>2, <1>3, <1>4 DEF Flushed, one
<1> QED
  BY <1>5 DEF one, e

(* No event.                                                               *)
LEMMA FlushedNone == \A f, S : Flushed(f, <<>>, S, 0)
BY ShortLists, ToldLines, Weights DEF Flushed, Alone

(* What was gathered at some places, and then at others.                   *)
LEMMA FlushedJoin ==
    ASSUME NEW f, NEW s, NEW t, NEW S, NEW T, NEW v, NEW w,
           Flushed(f, s, S, v), Flushed(f, t, T, w), S \cap T = {}
    PROVE  Flushed(f, s \o t, S \cup T, v + w)
<1>1. Alone(s \o t) /\ Range(s \o t) = Range(s) \cup Range(t)
  BY AloneJoin DEF Flushed
<1>2. KeepLines(s) /\ KeepLines(t)
  BY DEF Flushed, Alone, KeepLines
<1>3. IsList(Told(s)) /\ IsList(Told(t)) /\ Told(s \o t) = Told(s) \o Told(t)
  BY <1>2, ToldLines
<1>4. Weight(f, Told(s \o t)) = v + w
  BY <1>3, Weights DEF Flushed
<1> QED
  BY <1>1, <1>4 DEF Flushed

(* A step that leaves such events moves what was gathered into them.       *)
LEMMA MovesBy ==
    ASSUME NEW f, NEW c, NEW d, NEW n, NEW line, NEW evs, NEW S, NEW w,
           Sound(f, d, n + 1), Starts(f, d, n + 1) \subseteq Starts(f, c, n) \cup {n},
           Flushed(f, evs, S, w), S \subseteq (Starts(f, c, n) \cup {n}) \ Starts(f, d, n + 1),
           w + Awaiting(f, d) = Awaiting(f, c) + Weight(f, <<line>>)
    PROVE  Moves(f, c, d, n, line, evs)
BY DEF Flushed, Moves, KeepLines, Alone

(* A command whose lines go on, or end (_zsh, _plain, _agent_recall).      *)
LEMMA GatherMoves ==
    ASSUME NEW f \in {"shell", "recall"}, NEW n \in Nat \ {0}, NEW line, NEW c,
           Sound(f, c, n), Starts(f, c, n) \subseteq 1..(n - 1)
    PROVE  Moves(f, c, His!Gather(n, line, c).carried, n, line, His!Gather(n, line, c).events)
<1> DEFINE open == c.lines # <<>>
           lines1 == Append(c.lines, line)
           start1 == IF open THEN c.start ELSE n
           when1 == IF open THEN c.when ELSE His!Get(line, "when")
           entry == [lines |-> lines1, start |-> start1, when |-> when1]
           evs == <<Ev(start1, "self", 0, "command.exec", lines1, NoStamp, when1)>>
<1>1. /\ IsList(c.lines) /\ IsList(lines1) /\ lines1 # <<>>
      /\ Weight(f, lines1) = Weight(f, c.lines) + Weight(f, <<line>>)
      /\ Weight(f, c.lines) \in Nat /\ Weight(f, <<line>>) \in Nat
  BY WeightAppends DEF Sound
<1> HIDE DEF lines1
<1>2. start1 \in Starts(f, c, n) \cup {n} /\ start1 # 0
  BY SMTT(30) DEF Starts, Begin
<1>3. His!Gather(n, line, c) \in {[carried |-> entry, events |-> <<>>], [carried |-> His!Idle, events |-> evs]}
  BY <1>1 DEF His!Gather, His!Answer, His!Entry, His!When, His!Ev, Ev, His!NoStamp, NoStamp, lines1
<1>4. ASSUME His!Gather(n, line, c) = [carried |-> entry, events |-> <<>>]
      PROVE  Moves(f, c, entry, n, line, <<>>)
  <2>1. Sound(f, entry, n + 1)
    BY <1>1 DEF Sound
  <2>2. Starts(f, entry, n + 1) = {start1}
    BY <1>1 DEF Starts, Begin
  <2>3. Awaiting(f, entry) = Weight(f, lines1) /\ Awaiting(f, c) = Weight(f, c.lines)
    BY DEF Awaiting
  <2> HIDE DEF entry, start1
  <2>4. Flushed(f, <<>>, {}, 0)
    BY FlushedNone
  <2>5. Starts(f, entry, n + 1) \subseteq Starts(f, c, n) \cup {n}
    BY <1>2, <2>2
  <2>6. {} \subseteq (Starts(f, c, n) \cup {n}) \ Starts(f, entry, n + 1)
    OBVIOUS
  <2>7. 0 + Awaiting(f, entry) = Awaiting(f, c) + Weight(f, <<line>>)
    BY <1>1, <2>3
  <2> QED
    BY <2>1, <2>4, <2>5, <2>6, <2>7, MovesBy
<1>5. ASSUME His!Gather(n, line, c) = [carried |-> His!Idle, events |-> evs]
      PROVE  Moves(f, c, His!Idle, n, line, evs)
  <2>1. Sound(f, His!Idle, n + 1)
    BY ShortLists DEF Sound, His!Idle
  <2>2. Starts(f, His!Idle, n + 1) = {}
    BY DEF Starts, Begin, His!Idle
  <2>3. Awaiting(f, His!Idle) = 0 /\ Awaiting(f, c) = Weight(f, c.lines)
    BY Weights DEF Awaiting, His!Idle
  <2>4. Flushed(f, evs, {start1}, Weight(f, lines1))
    <3> HIDE DEF start1, when1
    <3> QED
      BY <1>1, <1>2, FlushedOne
  <2> HIDE DEF start1, evs
  <2>5. {start1} \subseteq (Starts(f, c, n) \cup {n}) \ Starts(f, His!Idle, n + 1)
    BY <1>2, <2>2
  <2>6. Weight(f, lines1) + Awaiting(f, His!Idle) = Awaiting(f, c) + Weight(f, <<line>>)
    BY <1>1, <2>3
  <2>7. Starts(f, His!Idle, n + 1) \subseteq Starts(f, c, n) \cup {n}
    BY <2>2
  <2> QED
    BY <2>1, <2>4, <2>5, <2>6, <2>7, MovesBy
<1> HIDE DEF entry, evs
<1> QED
  BY <1>3, <1>4, <1>5

(* A line that does not weigh is passed over.                              *)
LEMMA PassedOver ==
    ASSUME NEW f, NEW n \in Nat \ {0}, NEW line, NEW c, NEW d,
           Sound(f, d, n + 1), Starts(f, d, n + 1) \subseteq Starts(f, c, n) \cup {n},
           Awaiting(f, d) = Awaiting(f, c), Awaiting(f, c) \in Nat, ~Weighs(f, line)
    PROVE  Moves(f, c, d, n, line, <<>>)
<1>1. Weight(f, <<line>>) = 0
  BY Weights
<1>2. Flushed(f, <<>>, {}, 0)
  BY FlushedNone
<1>3. 0 + Awaiting(f, d) = Awaiting(f, c) + Weight(f, <<line>>)
  BY <1>1
<1> QED
  BY <1>2, <1>3, MovesBy

(* What is gathered weighs so much.                                        *)
LEMMA AwaitingNat == \A f, c, n : Sound(f, c, n) => Awaiting(f, c) \in Nat
<1> TAKE f, c, n
<1> SUFFICES ASSUME Sound(f, c, n) PROVE Awaiting(f, c) \in Nat
  OBVIOUS
<1>1. CASE f \in {"shell", "recall", "fish"}
  BY <1>1, Weights DEF Sound, Awaiting
<1>2. CASE f = "prompts"
  BY <1>2, Weights DEF Sound, Awaiting
<1>3. CASE f = "aider"
  BY <1>3, Weights DEF Sound, Awaiting
<1>4. CASE f = "script"
  BY <1>4, Weights DEF Sound, Awaiting
<1>5. CASE f \notin {"shell", "recall", "fish", "prompts", "aider", "script"}
  BY <1>5 DEF Awaiting
<1> QED
  BY <1>1, <1>2, <1>3, <1>4, <1>5

(* The histories of zsh, of PSReadLine and of what agents recall.          *)
LEMMA ShellMoves ==
    ASSUME NEW n \in Nat \ {0}, NEW line, NEW c, NEW f \in {"shell", "recall"},
           Sound(f, c, n), Starts(f, c, n) \subseteq 1..(n - 1),
           NEW next, next = IF f = "shell" THEN His!TakeShell(n, line, c) ELSE His!TakeRecall(n, line, c)
    PROVE  Moves(f, c, next.carried, n, line, next.events)
<1>1. CASE next = His!Gather(n, line, c)
  BY <1>1, GatherMoves
<1>2. CASE next = His!Answer(c, <<>>) /\ line = Blank
  <2>1. next.carried = c /\ next.events = <<>>
    BY <1>2 DEF His!Answer
  <2>2. Sound(f, c, n + 1)
    BY DEF Sound
  <2>3. Starts(f, c, n + 1) = Starts(f, c, n)
    BY DEF Starts
  <2>4. Awaiting(f, c) \in Nat
    BY AwaitingNat
  <2>5. ~Weighs(f, line)
    BY <1>2 DEF Weighs
  <2>6. Moves(f, c, c, n, line, <<>>)
    BY <2>2, <2>3, <2>4, <2>5, PassedOver
  <2> QED
    BY <2>1, <2>6
<1> QED
  BY <1>1, <1>2 DEF His!TakeShell, His!TakeRecall

(* The history of bash.                                                    *)
LEMMA BashMoves ==
    ASSUME NEW n \in Nat \ {0}, NEW line, NEW c, Sound("bash", c, n)
    PROVE  Moves("bash", c, His!TakeBash(n, line, c).carried, n, line, His!TakeBash(n, line, c).events)
<1> DEFINE next == His!TakeBash(n, line, c)
           timed == [c EXCEPT !.when = line.when]
           run == <<line>>
           evs == <<Ev(n, "self", 0, "command.exec", run, NoStamp, c.when)>>
<1>1. \A d, m : Starts("bash", d, m) = {} /\ Awaiting("bash", d) = 0
  BY DEF Starts, Awaiting
<1>2. CASE line = Blank \/ line.is = "stamp"
  <2>1. next.carried \in {c, timed} /\ next.events = <<>>
    BY <1>2 DEF His!TakeBash, His!Answer
  <2>2. Sound("bash", c, n + 1) /\ Sound("bash", timed, n + 1)
    BY DEF Sound
  <2>3. ~Weighs("bash", line)
    BY <1>2 DEF Weighs
  <2> HIDE DEF timed, next
  <2>4. \A d : Sound("bash", d, n + 1) => Moves("bash", c, d, n, line, <<>>)
    BY <1>1, <2>3, PassedOver
  <2> QED
    BY <2>1, <2>2, <2>4 DEF next
<1>3. CASE ~(line = Blank \/ line.is = "stamp")
  <2>1. next.carried = His!Idle /\ next.events = evs
    BY <1>3 DEF His!TakeBash, His!Answer, His!Ev, Ev, His!NoStamp, NoStamp
  <2>2. Sound("bash", His!Idle, n + 1)
    BY ShortLists DEF Sound, His!Idle
  <2>3. IsList(run) /\ Weight("bash", run) \in Nat
    BY ShortLists, Weights
  <2> HIDE DEF run
  <2>4. Flushed("bash", evs, {n}, Weight("bash", run))
    BY <2>3, FlushedOne
  <2> HIDE DEF evs, next
  <2>5. Weight("bash", run) + Awaiting("bash", His!Idle) = Awaiting("bash", c) + Weight("bash", <<line>>)
    BY <1>1, <2>3 DEF run
  <2>6. Moves("bash", c, His!Idle, n, line, evs)
    BY <1>1, <2>2, <2>4, <2>5, MovesBy
  <2> QED
    BY <2>1, <2>6 DEF next
<1> QED
  BY <1>2, <1>3

(* The history of fish.                                                    *)
LEMMA FishMoves ==
    ASSUME NEW n \in Nat \ {0}, NEW line, NEW c, Sound("fish", c, n), Starts("fish", c, n) \subseteq 1..(n - 1)
    PROVE  Moves("fish", c, His!TakeFish(n, line, c).carried, n, line, His!TakeFish(n, line, c).events)
<1> DEFINE next == His!TakeFish(n, line, c)
           cmd == line # Blank /\ line.is = "cmd"
           first == c.lines = <<>>
           run == <<line>>
           begun == [His!IdleFish EXCEPT !.lines = run, !.start = n]
           kept == Append(c.held, line)
           holds == [c EXCEPT !.held = kept]
<1>0. /\ DOMAIN c = {"lines", "start", "when", "held", "inPaths", "paths"}
      /\ IsList(c.lines) /\ IsList(c.held) /\ Weight("fish", c.held) = 0
      /\ first => Len(c.held) = n - 1
  BY DEF Sound
<1>1. \A d : Awaiting("fish", d) = Weight("fish", d.lines)
  BY DEF Awaiting
<1>2. \A d, m : Starts("fish", d, m) = IF d.lines = <<>> THEN {1} \cap 1..(m - 1) ELSE {d.start}
  BY DEF Starts
<1>3. IsList(run) /\ run # <<>> /\ Weight("fish", run) = (IF cmd THEN 1 ELSE 0)
  BY ShortLists, Weights DEF Weighs
<1> HIDE DEF run
<1>4. CASE cmd
  <2> DEFINE held == His!Unreadable(n - Len(c.held), c.held)
             told == His!Fish(c)
             evs == IF first THEN held ELSE told
  <2>1. next.carried = begun /\ next.events = evs
    BY <1>4 DEF His!TakeFish, His!Answer, run
  <2>2. Sound("fish", begun, n + 1) /\ begun.lines = run /\ begun.start = n
    BY <1>3, ShortLists, Weights DEF Sound, His!IdleFish
  <2> HIDE DEF begun, cmd
  <2>3. CASE first
    <3> DEFINE one == <<Ev(1, "self", 0, "unparsed.record", c.held, NoStamp, Null)>>
    <3>1. n - Len(c.held) = 1
      BY <1>0, <2>3
    <3>2. held = <<>> \/ (held = one /\ \E i \in DOMAIN c.held : c.held[i] # Blank)
      BY <3>1 DEF His!Unreadable, His!When, His!Unparsed, His!Ev, Ev, His!NoStamp, NoStamp
    <3>3. Flushed("fish", one, {1}, 0)
      <4>1. Flushed("fish", one, {1}, Weight("fish", c.held))
        BY <1>0, FlushedOne
      <4> QED
        BY <1>0, <4>1
    <3> HIDE DEF one, held
    <3>4. (\E i \in DOMAIN c.held : c.held[i] # Blank) => 1 \in 1..(n - 1)
      <4>1. DOMAIN c.held = 1..(n - 1)
        BY <1>0, <2>3, ListFacts
      <4> QED
        BY <4>1
    <3>5. \E S : Flushed("fish", held, S, 0) /\ S \subseteq {1} \cap 1..(n - 1)
      BY <3>2, <3>3, <3>4, FlushedNone
    <3>6. Awaiting("fish", c) = 0
      BY <1>1, <2>3, Weights
    <3>7. Moves("fish", c, begun, n, line, held)
      <4>1. PICK S : Flushed("fish", held, S, 0) /\ S \subseteq {1} \cap 1..(n - 1)
        BY <3>5
      <4>2. Starts("fish", c, n) = {1} \cap 1..(n - 1) /\ Starts("fish", begun, n + 1) = {n}
        BY <1>2, <1>3, <2>2, <2>3
      <4>3. S \subseteq (Starts("fish", c, n) \cup {n}) \ Starts("fish", begun, n + 1)
        BY <4>1, <4>2
      <4>4. 0 + Awaiting("fish", begun) = Awaiting("fish", c) + Weight("fish", <<line>>)
        BY <1>1, <1>3, <2>2, <3>6 DEF run
      <4>5. Starts("fish", begun, n + 1) \subseteq Starts("fish", c, n) \cup {n}
        BY <4>2
      <4> QED
        BY <2>2, <4>1, <4>3, <4>4, <4>5, MovesBy
    <3> HIDE DEF next
    <3> QED
      BY <2>1, <2>3, <3>7 DEF next
  <2>4. CASE ~first
    <3> DEFINE says == [when |-> c.when, paths |-> c.paths]
               one == <<Ev(c.start, "self", 0, "command.exec", c.lines, NoStamp, says)>>
    <3>1. told = one
      BY <2>4 DEF His!Fish, His!When, His!Ev, Ev, His!NoStamp, NoStamp
    <3>2. Starts("fish", c, n) = {c.start} /\ Starts("fish", begun, n + 1) = {n} /\ c.start \in 1..(n - 1)
      BY <1>2, <1>3, <2>2, <2>4
    <3> HIDE DEF says, told
    <3>3. Flushed("fish", one, {c.start}, Weight("fish", c.lines))
      BY <1>0, <3>2, FlushedOne
    <3> HIDE DEF one
    <3>4. Weight("fish", c.lines) + Awaiting("fish", begun) = Awaiting("fish", c) + Weight("fish", <<line>>)
      BY <1>1, <2>2 DEF run
    <3>5. {c.start} \subseteq (Starts("fish", c, n) \cup {n}) \ Starts("fish", begun, n + 1)
      BY <3>2
    <3>6. Starts("fish", begun, n + 1) \subseteq Starts("fish", c, n) \cup {n}
      BY <3>2
    <3>7. Moves("fish", c, begun, n, line, one)
      BY <2>2, <3>3, <3>4, <3>5, <3>6, MovesBy
    <3> HIDE DEF next
    <3> QED
      BY <2>1, <2>4, <3>1, <3>7 DEF next
  <2> QED
    BY <2>3, <2>4
<1>5. CASE ~cmd
  <2>1. ~Weighs("fish", line) /\ Awaiting("fish", c) \in Nat
    BY <1>5, AwaitingNat DEF Weighs
  <2>2. CASE first
    <3>1. next.carried = holds /\ next.events = <<>>
      BY <1>5, <2>2 DEF His!TakeFish, His!Answer
    <3>2. IsList(kept) /\ Weight("fish", kept) = 0 /\ Len(kept) = n
      <4>1. IsList(kept) /\ Weight("fish", kept) = Weight("fish", c.held) + Weight("fish", <<line>>)
        BY <1>0, WeightAppends
      <4>2. Len(kept) = Len(c.held) + 1
        BY <1>0, ListAppends
      <4> HIDE DEF kept
      <4> QED
        BY <1>0, <1>3, <1>5, <2>2, <4>1, <4>2 DEF run
    <3> HIDE DEF kept
    <3>3. Sound("fish", holds, n + 1) /\ holds.lines = <<>>
      BY <1>0, <2>2, <3>2 DEF Sound
    <3> HIDE DEF holds
    <3>4. Starts("fish", holds, n + 1) \subseteq Starts("fish", c, n) \cup {n}
      <4>1. /\ Starts("fish", holds, n + 1) = {1} \cap 1..(n + 1 - 1)
            /\ Starts("fish", c, n) = {1} \cap 1..(n - 1)
        BY <1>2, <2>2, <3>3
      <4> QED
        BY <4>1
    <3>5. Awaiting("fish", holds) = Awaiting("fish", c)
      BY <1>1, <2>2, <3>3
    <3> HIDE DEF next, cmd
    <3>6. Moves("fish", c, holds, n, line, <<>>)
      BY <2>1, <3>3, <3>4, <3>5, PassedOver
    <3> QED
      BY <3>1, <3>6 DEF next
  <2>3. CASE ~first
    <3> DEFINE d == His!Detail(line, c)
    <3>1. next.carried = d /\ next.events = <<>>
      BY <1>5, <2>3 DEF His!TakeFish, His!Answer
    <3>2. DOMAIN d = DOMAIN c /\ d.lines = c.lines /\ d.start = c.start /\ d.held = c.held
      BY <1>0 DEF His!Detail
    <3> HIDE DEF d, next, cmd
    <3>3. Sound("fish", d, n + 1)
      BY <1>0, <2>3, <3>2 DEF Sound
    <3>4. Starts("fish", d, n + 1) = Starts("fish", c, n) /\ Awaiting("fish", d) = Awaiting("fish", c)
      BY <1>1, <1>2, <2>3, <3>2
    <3>5. Moves("fish", c, d, n, line, <<>>)
      BY <2>1, <3>3, <3>4, PassedOver
    <3> QED
      BY <3>1, <3>5 DEF next
  <2> QED
    BY <2>2, <2>3
<1> QED
  BY <1>4, <1>5

(* Lines of which none weighs.                                             *)
LEMMA NothingWeighs ==
    ASSUME NEW f, NEW run, IsList(run), \A i \in DOMAIN run : ~Weighs(f, run[i])
    PROVE  Weight(f, run) = 0
<1> DEFINE made == [i \in DOMAIN run |-> When(Weighs(f, run[i]), <<run[i]>>)]
<1>1. Weight(f, run) = Len(FlattenSeq(made))
  BY ReadersFlatten DEF Weight, Those
<1>2. DOMAIN run = 1..Len(run) /\ Len(run) \in Nat
  BY ListFacts
<1>3. IsList(made) /\ Len(made) = Len(run) /\ \A i \in 1..Len(run) : made[i] = <<>>
  BY <1>2, MadeIsList DEF When
<1> HIDE DEF made
<1>4. AreLists(made)
  BY <1>3, ShortLists DEF AreLists
<1>5. Range(FlattenSeq(made)) = UNION {Range(made[i]) : i \in 1..Len(run)} /\ IsList(FlattenSeq(made))
  BY <1>3, <1>4, FlattenFacts
<1>6. Range(FlattenSeq(made)) = {}
  BY <1>3, <1>5, ShortLists
<1> QED
  BY <1>1, <1>5, <1>6, ListFacts, ShortLists

(* What is gathered of an entry, or of lines that are no entry, and then   *)
(* told; nothing is when there is nothing but blank lines.                 *)
LEMMA Told1 ==
    ASSUME NEW f, NEW n, NEW run, IsList(run), NEW evs, NEW kind, NEW says,
           \/ evs = <<Ev(n, "self", 0, kind, run, NoStamp, says)>> /\ run # <<>>
           \/ evs = <<>> /\ Weight(f, run) = 0,
           run # <<>> => n # 0
    PROVE  Flushed(f, evs, Begin(n, run), Weight(f, run))
<1>1. CASE run # <<>> /\ evs = <<Ev(n, "self", 0, kind, run, NoStamp, says)>>
  <2> DEFINE one == <<Ev(n, "self", 0, kind, run, NoStamp, says)>>
  <2>1. Flushed(f, one, {n}, Weight(f, run))
    BY <1>1, FlushedOne
  <2> HIDE DEF one
  <2> QED
    BY <1>1, <2>1 DEF Begin, one
<1>2. CASE evs = <<>> /\ Weight(f, run) = 0
  BY <1>2, FlushedNone
<1> QED
  BY <1>1, <1>2

(* The same of the lines that no reader understands.                       *)
LEMMA UnreadableTold ==
    ASSUME NEW f, NEW n, NEW run, IsList(run), run # <<>> => n # 0
    PROVE  Flushed(f, His!Unreadable(n, run), Begin(n, run), Weight(f, run))
<1> DEFINE some == \E i \in DOMAIN run : run[i] # Blank
           one == <<Ev(n, "self", 0, "unparsed.record", run, NoStamp, Null)>>
<1>1. His!Unreadable(n, run) = IF some THEN one ELSE <<>>
  BY DEF His!Unreadable, His!When, His!Unparsed, His!Ev, Ev, His!NoStamp, NoStamp
<1> HIDE DEF one
<1>2. CASE some
  <2>1. run # <<>>
    BY <1>2, ListFacts
  <2> QED
    BY <1>1, <1>2, <2>1, Told1 DEF one
<1>3. CASE ~some
  <2>1. Weight(f, run) = 0
    BY <1>3, NothingWeighs DEF Weighs
  <2> HIDE DEF some
  <2> QED
    BY <1>1, <1>3, <2>1, Told1
<1> QED
  BY <1>2, <1>3

(* What a line makes of what is held of a history of prompts. *)
Reporting(c, d, line, evs) ==
    /\ ~d.reported /\ d.stray = <<>> =>
          ~c.reported /\ c.stray = <<>> /\ (line = Blank \/ line.is \in {"content", "stamp"})
    /\ ~d.reported => ~c.reported /\ (evs = <<>> \/ c.lines # <<>>)
    /\ d.lines # <<>> => c.lines # <<>> \/ (line # Blank /\ line.is = "content")

(* What is held of it, when it is told.                                    *)
LEMMA PromptHolds ==
    ASSUME NEW n \in Nat \ {0}, NEW c, Sound("prompts", c, n), Starts("prompts", c, n) \subseteq 1..(n - 1)
    PROVE  /\ Flushed("prompts", His!Entry(c, "prompt.history"), Begin(c.start, c.lines), Weight("prompts", c.lines))
           /\ c.lines = <<>> => His!Entry(c, "prompt.history") = <<>>
           /\ Flushed("prompts", His!Strays(c), Begin(c.strayAt, c.stray), Weight("prompts", c.stray))
           /\ c.stray = <<>> => His!Strays(c) = <<>>
<1> DEFINE entry == His!Entry(c, "prompt.history")
           strays == His!Strays(c)
           w == Weight("prompts", c.lines)
           v == Weight("prompts", c.stray)
<1>1. IsList(c.lines) /\ IsList(c.stray)
  BY DEF Sound
<1>2. Weight("prompts", <<>>) = 0
  BY Weights
<1>3. Begin(c.start, c.lines) \subseteq 1..(n - 1) /\ Begin(c.strayAt, c.stray) \subseteq 1..(n - 1)
  BY DEF Starts
<1>4. Flushed("prompts", entry, Begin(c.start, c.lines), w) /\ (c.lines = <<>> => entry = <<>>)
  <2> DEFINE one == <<Ev(c.start, "self", 0, "prompt.history", c.lines, NoStamp, c.when)>>
  <2>1. entry = IF c.lines # <<>> THEN one ELSE <<>>
    BY DEF His!Entry, His!When, His!Ev, Ev, His!NoStamp, NoStamp
  <2>2. c.lines # <<>> => c.start # 0
    BY <1>3 DEF Begin
  <2>3. c.lines = <<>> => w = 0
    BY <1>2
  <2> HIDE DEF entry, w
  <2>4. \/ entry = one /\ c.lines # <<>>
        \/ entry = <<>> /\ Weight("prompts", c.lines) = 0
    BY <2>1, <2>3 DEF w
  <2> QED
    BY <1>1, <2>1, <2>2, <2>4, Told1 DEF w
<1>5. Flushed("prompts", strays, Begin(c.strayAt, c.stray), v) /\ (c.stray = <<>> => strays = <<>>)
  <2>1. c.stray # <<>> => c.strayAt # 0
    BY <1>3 DEF Begin
  <2>2. Flushed("prompts", His!Unreadable(c.strayAt, c.stray), Begin(c.strayAt, c.stray), v)
    BY <1>1, <2>1, UnreadableTold
  <2>3. c.stray = <<>> => strays = <<>>
    BY DEF His!Strays, His!Unreadable, His!When
  <2> QED
    BY <2>2, <2>3 DEF His!Strays
<1> QED
  BY <1>4, <1>5

(* The history of a prompt toolkit.                                        *)
LEMMA PromptMoves ==
    ASSUME NEW n \in Nat \ {0}, NEW line, NEW c, Sound("prompts", c, n), Starts("prompts", c, n) \subseteq 1..(n - 1),
           NEW next, next = His!TakePrompt(n, line, c)
    PROVE  Moves("prompts", c, next.carried, n, line, next.events) /\ Reporting(c, next.carried, line, next.events)
<1> DEFINE entry == His!Entry(c, "prompt.history")
           strays == His!Strays(c)
           run == <<line>>
           w == Weight("prompts", c.lines)
           v == Weight("prompts", c.stray)
<1>0. /\ DOMAIN c = {"lines", "start", "when", "stray", "strayAt", "reported"}
      /\ IsList(c.lines) /\ IsList(c.stray) /\ (c.lines = <<>> \/ c.stray = <<>>)
      /\ \A x \in Range(c.stray) : x # Blank
  BY DEF Sound
<1>1. \A d : Awaiting("prompts", d) = Weight("prompts", d.lines) + Weight("prompts", d.stray)
  BY DEF Awaiting
<1>2. \A d, m : Starts("prompts", d, m) = Begin(d.start, d.lines) \cup Begin(d.strayAt, d.stray)
  BY DEF Starts
<1>3. w \in Nat /\ v \in Nat /\ Weight("prompts", run) \in Nat /\ Weight("prompts", <<>>) = 0
      /\ IsList(run) /\ Range(run) = {line}
  BY <1>0, Weights, ShortLists
<1>4. Begin(c.start, c.lines) \subseteq 1..(n - 1) /\ Begin(c.strayAt, c.stray) \subseteq 1..(n - 1)
  BY <1>2
<1>5. Begin(c.start, c.lines) \cap Begin(c.strayAt, c.stray) = {}
  BY <1>0 DEF Begin
<1>6. Flushed("prompts", entry, Begin(c.start, c.lines), w) /\ (c.lines = <<>> => entry = <<>>)
  BY PromptHolds
<1>7. Flushed("prompts", strays, Begin(c.strayAt, c.stray), v) /\ (c.stray = <<>> => strays = <<>>)
  BY PromptHolds
<1> HIDE DEF entry, strays, w, v
<1>8. CASE line # Blank /\ line.is = "content"
  <2> DEFINE lines1 == Append(c.lines, line)
             start1 == IF c.lines = <<>> THEN n ELSE c.start
             d == [His!NoStrays(c) EXCEPT !.lines = lines1, !.start = start1]
  <2>1. next = [carried |-> d, events |-> strays]
    BY <1>0, <1>8 DEF His!TakePrompt, His!Answer, His!NoStrays, strays
  <2>2. /\ DOMAIN d = DOMAIN c /\ d.lines = lines1 /\ d.start = start1 /\ d.stray = <<>>
        /\ d.reported = (c.reported \/ c.stray # <<>>)
    BY <1>0 DEF His!NoStrays
  <2>3. IsList(lines1) /\ lines1 # <<>> /\ Weight("prompts", lines1) = w + Weight("prompts", run)
    BY <1>0, WeightAppends DEF w, run
  <2> HIDE DEF d, lines1
  <2>4. Sound("prompts", d, n + 1)
    BY <1>0, <2>2, <2>3, ShortLists DEF Sound
  <2>5. Starts("prompts", d, n + 1) = {start1}
    BY <1>2, <2>2, <2>3 DEF Begin
  <2>6. start1 \in Starts("prompts", c, n) \cup {n} /\ start1 \notin Begin(c.strayAt, c.stray)
    BY <1>0, <1>2, <1>4 DEF Begin
  <2>7. Begin(c.strayAt, c.stray) \subseteq (Starts("prompts", c, n) \cup {n}) \ Starts("prompts", d, n + 1)
    BY <1>2, <2>5, <2>6
  <2>8. v + Awaiting("prompts", d) = Awaiting("prompts", c) + Weight("prompts", run)
    BY <1>1, <1>3, <2>2, <2>3 DEF w, v
  <2>9. Starts("prompts", d, n + 1) \subseteq Starts("prompts", c, n) \cup {n}
    BY <2>5, <2>6
  <2>10. Moves("prompts", c, d, n, line, strays)
    BY <1>7, <2>4, <2>7, <2>8, <2>9, MovesBy DEF run
  <2>11. Reporting(c, d, line, strays)
    BY <1>7, <1>8, <2>2 DEF Reporting
  <2> QED
    BY <2>1, <2>10, <2>11
<1>9. CASE ~(line # Blank /\ line.is = "content")
  <2> DEFINE stray == line # Blank /\ line.is # "stamp"
             when1 == IF stray \/ line = Blank THEN Null ELSE line.when
             ended == [c EXCEPT !.lines = <<>>, !.when = when1]
  <2>1. CASE stray
    <3> DEFINE stray1 == Append(c.stray, line)
               start1 == IF c.stray = <<>> THEN n ELSE c.strayAt
               d == [ended EXCEPT !.stray = stray1, !.strayAt = start1]
    <3>1. next = [carried |-> d, events |-> entry]
      BY <1>0, <1>9, <2>1 DEF His!TakePrompt, His!Answer, entry
    <3>2. /\ DOMAIN d = DOMAIN c /\ d.lines = <<>> /\ d.strayAt = start1 /\ d.stray = stray1
          /\ d.reported = c.reported
      BY <1>0
    <3>3. /\ IsList(stray1) /\ stray1 # <<>> /\ Weight("prompts", stray1) = v + Weight("prompts", run)
          /\ Range(stray1) = Range(c.stray) \cup {line}
      BY <1>0, WeightAppends, ListAppends DEF v, run
    <3> HIDE DEF d, stray1
    <3>4. Sound("prompts", d, n + 1)
      BY <1>0, <2>1, <3>2, <3>3, ShortLists DEF Sound
    <3>5. Starts("prompts", d, n + 1) = {start1}
      BY <1>2, <3>2, <3>3 DEF Begin
    <3>6. start1 \in Starts("prompts", c, n) \cup {n} /\ start1 \notin Begin(c.start, c.lines)
      BY <1>0, <1>2, <1>4 DEF Begin
    <3>7. Begin(c.start, c.lines) \subseteq (Starts("prompts", c, n) \cup {n}) \ Starts("prompts", d, n + 1)
      BY <1>2, <3>5, <3>6
    <3>8. w + Awaiting("prompts", d) = Awaiting("prompts", c) + Weight("prompts", run)
      BY <1>1, <1>3, <3>2, <3>3 DEF w, v
    <3>9. Starts("prompts", d, n + 1) \subseteq Starts("prompts", c, n) \cup {n}
      BY <3>5, <3>6
    <3>10. Moves("prompts", c, d, n, line, entry)
      BY <1>6, <3>4, <3>7, <3>8, <3>9, MovesBy DEF run
    <3>11. Reporting(c, d, line, entry)
      BY <1>6, <2>1, <3>2, <3>3 DEF Reporting
    <3> QED
      BY <3>1, <3>10, <3>11
  <2>2. CASE ~stray
    <3> DEFINE d == His!NoStrays(ended)
               evs == entry \o strays
    <3>1. next = [carried |-> d, events |-> evs]
      BY <1>0, <1>9, <2>2 DEF His!TakePrompt, His!Answer, entry, strays
    <3>2. /\ DOMAIN d = DOMAIN c /\ d.lines = <<>> /\ d.stray = <<>>
          /\ d.reported = (c.reported \/ c.stray # <<>>)
      BY <1>0 DEF His!NoStrays
    <3>3. Weight("prompts", run) = 0
      BY <1>9, <2>2, Weights DEF Weighs, run
    <3>4. IsList(entry) /\ IsList(strays)
      BY <1>6, <1>7 DEF Flushed, Alone
    <3>5. evs = <<>> \/ c.lines # <<>> \/ c.stray # <<>>
      BY <1>6, <1>7, <3>4, ListsJoin
    <3>6. Flushed("prompts", evs, Starts("prompts", c, n), w + v)
      BY <1>2, <1>5, <1>6, <1>7, FlushedJoin
    <3> HIDE DEF d, evs
    <3>7. Sound("prompts", d, n + 1)
      BY <1>0, <3>2, ShortLists DEF Sound
    <3>8. Starts("prompts", d, n + 1) = {}
      BY <1>2, <3>2 DEF Begin
    <3>9. (w + v) + Awaiting("prompts", d) = Awaiting("prompts", c) + Weight("prompts", run)
      BY <1>1, <1>3, <3>2, <3>3 DEF w, v
    <3>10. Moves("prompts", c, d, n, line, evs)
      BY <3>6, <3>7, <3>8, <3>9, MovesBy DEF run
    <3>11. Reporting(c, d, line, evs)
      BY <1>9, <2>2, <3>2, <3>5 DEF Reporting
    <3> QED
      BY <3>1, <3>10, <3>11
  <2> QED
    BY <2>1, <2>2
<1> QED
  BY <1>8, <1>9

(* What is held of a chat, when it is told.                                *)
LEMMA ChatHolds ==
    ASSUME NEW n \in Nat \ {0}, NEW c, Sound("aider", c, n), Starts("aider", c, n) \subseteq 1..(n - 1)
    PROVE  /\ Flushed("aider", His!PromptOf(c), Begin(c.promptAt, c.prompt), Weight("aider", c.prompt))
           /\ Flushed("aider", His!AnswerOf(c), Begin(c.answerAt, c.answer), Weight("aider", c.answer))
<1> DEFINE prompt == His!PromptOf(c)
           answer == His!AnswerOf(c)
           w == Weight("aider", c.prompt)
           v == Weight("aider", c.answer)
<1>1. IsList(c.prompt) /\ IsList(c.answer)
  BY DEF Sound
<1>2. Weight("aider", <<>>) = 0
  BY Weights
<1>3. Begin(c.promptAt, c.prompt) \subseteq 1..(n - 1) /\ Begin(c.answerAt, c.answer) \subseteq 1..(n - 1)
  BY DEF Starts
<1>4. Flushed("aider", prompt, Begin(c.promptAt, c.prompt), w)
  <2> DEFINE told == <<Ev(c.promptAt, "self", 0, "user.prompt", c.prompt, NoStamp, Null)>>
  <2>1. prompt = IF c.prompt # <<>> THEN told ELSE <<>>
    BY DEF His!PromptOf, His!When, His!Ev, Ev, His!NoStamp, NoStamp
  <2>2. c.prompt # <<>> => c.promptAt # 0
    BY <1>3 DEF Begin
  <2>3. c.prompt = <<>> => w = 0
    BY <1>2
  <2> HIDE DEF prompt, w
  <2>4. \/ prompt = told /\ c.prompt # <<>>
        \/ prompt = <<>> /\ Weight("aider", c.prompt) = 0
    BY <2>1, <2>3 DEF w
  <2> QED
    BY <1>1, <2>2, <2>4, Told1 DEF w
<1>5. Flushed("aider", answer, Begin(c.answerAt, c.answer), v)
  <2> DEFINE told == <<Ev(c.answerAt, "self", 0, "assistant.text", c.answer, NoStamp, Null)>>
             some == \E i \in DOMAIN c.answer : c.answer[i] # Blank
  <2>1. answer = IF some THEN told ELSE <<>>
    BY DEF His!AnswerOf, His!When, His!Ev, Ev, His!NoStamp, NoStamp
  <2>2. c.answer # <<>> => c.answerAt # 0
    BY <1>3 DEF Begin
  <2>3. some => c.answer # <<>>
    BY <1>1, ListFacts
  <2>4. ~some => v = 0
    BY <1>1, NothingWeighs DEF Weighs
  <2> HIDE DEF answer, v, some
  <2>5. \/ answer = told /\ c.answer # <<>>
        \/ answer = <<>> /\ Weight("aider", c.answer) = 0
    BY <2>1, <2>3, <2>4 DEF v
  <2> QED
    BY <1>1, <2>2, <2>5, Told1 DEF v
<1> QED
  BY <1>4, <1>5

(* The chat history of aider.                                              *)
LEMMA ChatMoves ==
    ASSUME NEW n \in Nat \ {0}, NEW line, NEW c, Sound("aider", c, n), Starts("aider", c, n) \subseteq 1..(n - 1),
           NEW next, next = His!TakeChat(n, line, c)
    PROVE  Moves("aider", c, next.carried, n, line, next.events)
<1> DEFINE prompt == His!PromptOf(c)
           answer == His!AnswerOf(c)
           run == <<line>>
           w == Weight("aider", c.prompt)
           v == Weight("aider", c.answer)
           is == IF line = Blank THEN "text" ELSE line.is
           one(kind) == <<Ev(n, "self", 0, kind, run, NoStamp, Null)>>
<1>0. /\ DOMAIN c = {"prompt", "promptAt", "answer", "answerAt"}
      /\ IsList(c.prompt) /\ IsList(c.answer) /\ (c.prompt = <<>> \/ c.answer = <<>>)
  BY DEF Sound
<1>1. \A d : Awaiting("aider", d) = Weight("aider", d.prompt) + Weight("aider", d.answer)
  BY DEF Awaiting
<1>2. \A d, m : Starts("aider", d, m) = Begin(d.promptAt, d.prompt) \cup Begin(d.answerAt, d.answer)
  BY DEF Starts
<1>3. w \in Nat /\ v \in Nat /\ Weight("aider", run) \in Nat /\ Weight("aider", <<>>) = 0 /\ IsList(run)
  BY <1>0, Weights, ShortLists
<1>4. Begin(c.promptAt, c.prompt) \subseteq 1..(n - 1) /\ Begin(c.answerAt, c.answer) \subseteq 1..(n - 1)
  BY <1>2
<1>5. Begin(c.promptAt, c.prompt) \cap Begin(c.answerAt, c.answer) = {}
  BY <1>0 DEF Begin
<1>6. Flushed("aider", prompt, Begin(c.promptAt, c.prompt), w)
  BY ChatHolds
<1>7. Flushed("aider", answer, Begin(c.answerAt, c.answer), v)
  BY ChatHolds
<1>8. \A kind : Flushed("aider", one(kind), {n}, Weight("aider", run))
  BY <1>3, FlushedOne
<1> HIDE DEF prompt, answer, w, v, one
<1>9. CASE is \in {"banner", "notice"}
  <2> DEFINE kind == IF is = "banner" THEN "session.start" ELSE "unparsed.record"
             evs == answer \o prompt \o one(kind)
  <2>1. next = [carried |-> His!IdleChat, events |-> evs]
    BY <1>9 DEF His!TakeChat, His!Answer, His!Ev, Ev, His!NoStamp, NoStamp, answer, prompt, one
  <2> HIDE DEF kind
  <2>2. Flushed("aider", answer \o prompt, Starts("aider", c, n), v + w)
    <3>1. Flushed("aider", answer \o prompt, Begin(c.answerAt, c.answer) \cup Begin(c.promptAt, c.prompt), v + w)
      BY <1>5, <1>6, <1>7, FlushedJoin
    <3> QED
      BY <1>2, <3>1 DEF Flushed
  <2>3. Flushed("aider", evs, Starts("aider", c, n) \cup {n}, (v + w) + Weight("aider", run))
    <3>1. Starts("aider", c, n) \cap {n} = {}
      OBVIOUS
    <3> QED
      BY <1>8, <2>2, <3>1, FlushedJoin
  <2> HIDE DEF evs, is
  <2>4. Sound("aider", His!IdleChat, n + 1)
    BY ShortLists DEF Sound, His!IdleChat
  <2>5. Starts("aider", His!IdleChat, n + 1) = {} /\ Awaiting("aider", His!IdleChat) = 0
    BY <1>1, <1>2, <1>3 DEF Begin, His!IdleChat
  <2>6. ((v + w) + Weight("aider", run)) + Awaiting("aider", His!IdleChat) = Awaiting("aider", c) + Weight("aider", run)
    BY <1>1, <1>3, <2>5 DEF w, v
  <2>7. Moves("aider", c, His!IdleChat, n, line, evs)
    BY <2>3, <2>4, <2>5, <2>6, MovesBy DEF run
  <2> QED
    BY <2>1, <2>7
<1>10. CASE is = "prompt"
  <2> DEFINE prompt1 == Append(c.prompt, line)
             start1 == IF c.prompt = <<>> THEN n ELSE c.promptAt
             d == [[c EXCEPT !.answer = <<>>] EXCEPT !.prompt = prompt1, !.promptAt = start1]
  <2>1. next = [carried |-> d, events |-> answer]
    BY <1>0, <1>10 DEF His!TakeChat, His!Answer, answer
  <2>2. DOMAIN d = DOMAIN c /\ d.prompt = prompt1 /\ d.promptAt = start1 /\ d.answer = <<>>
    BY <1>0
  <2>3. IsList(prompt1) /\ prompt1 # <<>> /\ Weight("aider", prompt1) = w + Weight("aider", run)
    BY <1>0, WeightAppends DEF w, run
  <2> HIDE DEF d, prompt1, is
  <2>4. Sound("aider", d, n + 1)
    BY <1>0, <2>2, <2>3, ShortLists DEF Sound
  <2>5. Starts("aider", d, n + 1) = {start1}
    BY <1>2, <2>2, <2>3 DEF Begin
  <2>6. start1 \in Starts("aider", c, n) \cup {n} /\ start1 \notin Begin(c.answerAt, c.answer)
    BY <1>0, <1>2, <1>4 DEF Begin
  <2>7. Begin(c.answerAt, c.answer) \subseteq (Starts("aider", c, n) \cup {n}) \ Starts("aider", d, n + 1)
    BY <1>2, <2>5, <2>6
  <2>8. v + Awaiting("aider", d) = Awaiting("aider", c) + Weight("aider", run)
    BY <1>1, <1>3, <2>2, <2>3 DEF w, v
  <2>9. Starts("aider", d, n + 1) \subseteq Starts("aider", c, n) \cup {n}
    BY <2>5, <2>6
  <2>10. Moves("aider", c, d, n, line, answer)
    BY <1>7, <2>4, <2>7, <2>8, <2>9, MovesBy DEF run
  <2> QED
    BY <2>1, <2>10
<1>11. CASE is \notin {"banner", "notice", "prompt"}
  <2> DEFINE answer1 == Append(c.answer, line)
             start1 == IF c.answer = <<>> THEN n ELSE c.answerAt
             d == [[c EXCEPT !.prompt = <<>>] EXCEPT !.answer = answer1, !.answerAt = start1]
  <2>1. next = [carried |-> d, events |-> prompt]
    BY <1>0, <1>11 DEF His!TakeChat, His!Answer, prompt
  <2>2. DOMAIN d = DOMAIN c /\ d.answer = answer1 /\ d.answerAt = start1 /\ d.prompt = <<>>
    BY <1>0
  <2>3. IsList(answer1) /\ answer1 # <<>> /\ Weight("aider", answer1) = v + Weight("aider", run)
    BY <1>0, WeightAppends DEF v, run
  <2> HIDE DEF d, answer1, is
  <2>4. Sound("aider", d, n + 1)
    BY <1>0, <2>2, <2>3, ShortLists DEF Sound
  <2>5. Starts("aider", d, n + 1) = {start1}
    BY <1>2, <2>2, <2>3 DEF Begin
  <2>6. start1 \in Starts("aider", c, n) \cup {n} /\ start1 \notin Begin(c.promptAt, c.prompt)
    BY <1>0, <1>2, <1>4 DEF Begin
  <2>7. Begin(c.promptAt, c.prompt) \subseteq (Starts("aider", c, n) \cup {n}) \ Starts("aider", d, n + 1)
    BY <1>2, <2>5, <2>6
  <2>8. w + Awaiting("aider", d) = Awaiting("aider", c) + Weight("aider", run)
    BY <1>1, <1>3, <2>2, <2>3 DEF w, v
  <2>9. Starts("aider", d, n + 1) \subseteq Starts("aider", c, n) \cup {n}
    BY <2>5, <2>6
  <2>10. Moves("aider", c, d, n, line, prompt)
    BY <1>6, <2>4, <2>7, <2>8, <2>9, MovesBy DEF run
  <2> QED
    BY <2>1, <2>10
<1> QED
  BY <1>9, <1>10, <1>11

(* A shell script, of which no more is read when it is too long.           *)
LEMMA ScriptMoves ==
    ASSUME NEW n \in Nat \ {0}, NEW line, NEW c, Sound("script", c, n), Starts("script", c, n) \subseteq 1..(n - 1),
           NEW next, next = Flo!TakeScript(n, line, c)
    PROVE  Moves("script", c, next.carried, n, line, next.events) /\ (c.done => next.carried.done)
<1> DEFINE run == <<line>>
           w == Weight("script", c.pending)
           read == [c EXCEPT !.read = @ + 1]
           is == IF line = Blank THEN "blank" ELSE line.is
           one(kind) == <<Ev(n, "self", 0, kind, run, NoStamp, Null)>>
<1>0. /\ DOMAIN c = {"read", "done", "pending", "start"} /\ IsList(c.pending)
      /\ DOMAIN read = DOMAIN c /\ read.pending = c.pending /\ read.done = c.done /\ read.start = c.start
  BY DEF Sound
<1>1. \A d : Awaiting("script", d) = Weight("script", d.pending)
  BY DEF Awaiting
<1>2. \A d, m : Starts("script", d, m) = Begin(d.start, d.pending)
  BY DEF Starts
<1>3. /\ w \in Nat /\ Weight("script", run) \in Nat /\ Weight("script", <<>>) = 0 /\ IsList(run)
      /\ run # <<>> /\ IsList(<<>>)
  BY <1>0, Weights, ShortLists
<1>4. Starts("script", c, n) = Begin(c.start, c.pending)
  BY <1>2
<1>5. \A kind : Flushed("script", one(kind), {n}, Weight("script", run))
  BY <1>3, FlushedOne
<1> HIDE DEF one
<1>6. CASE c.done
  <2>1. next = [carried |-> read, events |-> <<>>]
    BY <1>6 DEF Flo!TakeScript
  <2>2. Sound("script", read, n + 1)
    BY <1>0 DEF Sound
  <2>3. Starts("script", read, n + 1) = Starts("script", c, n)
    BY <1>0, <1>2
  <2> HIDE DEF read
  <2>4. Moves("script", c, read, n, line, <<>>)
    BY <1>0, <1>6, <2>2, <2>3, ShortLists DEF Moves, Alone
  <2>5. read.done
    BY <1>0, <1>6
  <2> QED
    BY <2>1, <2>4, <2>5
<1>7. CASE ~c.done /\ read.read > MaxLines
  <2> DEFINE d == [read EXCEPT !.done = TRUE, !.pending = <<>>]
             evs == <<Ev(n, "self", 0, "unparsed.record", Null, NoStamp, Null)>>
  <2>1. next = [carried |-> d, events |-> evs]
    BY <1>7 DEF Flo!TakeScript, Flo!Unparsed, Flo!Ev, Ev, Flo!NoStamp, NoStamp
  <2>2. DOMAIN d = DOMAIN c /\ d.done /\ d.pending = <<>>
    BY <1>0
  <2>3. Alone(evs) /\ \A e \in Range(evs) : e.loc[1] = n
    BY ShortLists DEF Alone, Ev
  <2> HIDE DEF d, evs, read
  <2>4. Sound("script", d, n + 1)
    BY <1>0, <1>3, <2>2 DEF Sound
  <2>5. Starts("script", d, n + 1) = {}
    BY <1>2, <2>2 DEF Begin
  <2>6. Moves("script", c, d, n, line, evs)
    BY <2>2, <2>3, <2>4, <2>5 DEF Moves
  <2> QED
    BY <1>7, <2>1, <2>6
<1>8. CASE ~c.done /\ ~(read.read > MaxLines) /\ c.pending # <<>> /\ is = "close"
  <2> DEFINE d == [read EXCEPT !.pending = <<>>]
             evs == <<Ev(c.start, "self", 0, "config.snapshot", c.pending, NoStamp, Null)>>
  <2>1. next = [carried |-> d, events |-> evs]
    BY <1>0, <1>8 DEF Flo!TakeScript, Flo!Function, Flo!Ev, Ev, Flo!NoStamp, NoStamp
  <2>2. DOMAIN d = DOMAIN c /\ d.pending = <<>>
    BY <1>0
  <2>3. c.start # 0 /\ Begin(c.start, c.pending) = {c.start}
    BY <1>4, <1>8 DEF Begin
  <2>4. Flushed("script", evs, {c.start}, w)
    BY <1>0, <2>3, FlushedOne
  <2>5. Weight("script", run) = 0
    BY <1>8, Weights DEF Weighs, run
  <2> HIDE DEF d, evs, read, w
  <2>6. Sound("script", d, n + 1)
    BY <1>0, <1>3, <2>2 DEF Sound
  <2>7. Starts("script", d, n + 1) = {}
    BY <1>2, <2>2 DEF Begin
  <2>8. w + Awaiting("script", d) = Awaiting("script", c) + Weight("script", run)
    BY <1>1, <1>3, <2>2, <2>5 DEF w
  <2>9. Moves("script", c, d, n, line, evs)
    BY <1>4, <2>3, <2>4, <2>6, <2>7, <2>8, MovesBy DEF run
  <2> QED
    BY <1>8, <2>1, <2>9
<1>9. CASE ~c.done /\ ~(read.read > MaxLines) /\ c.pending # <<>> /\ is # "close"
  <2> DEFINE pending1 == Append(c.pending, line)
             d == [read EXCEPT !.pending = pending1]
  <2>1. next = [carried |-> d, events |-> <<>>]
    BY <1>0, <1>9 DEF Flo!TakeScript
  <2>2. DOMAIN d = DOMAIN c /\ d.pending = pending1 /\ d.start = c.start
    BY <1>0
  <2>3. IsList(pending1) /\ pending1 # <<>> /\ Weight("script", pending1) = w + Weight("script", run)
    BY <1>0, WeightAppends DEF w, run
  <2> HIDE DEF d, read, w, pending1
  <2>4. Sound("script", d, n + 1)
    BY <1>0, <2>2, <2>3 DEF Sound
  <2>5. Starts("script", d, n + 1) = Starts("script", c, n)
    BY <1>2, <1>4, <1>9, <2>2, <2>3 DEF Begin
  <2>6. Flushed("script", <<>>, {}, 0)
    BY FlushedNone
  <2>7. 0 + Awaiting("script", d) = Awaiting("script", c) + Weight("script", run)
    BY <1>1, <1>3, <2>2, <2>3 DEF w
  <2>8. {} \subseteq (Starts("script", c, n) \cup {n}) \ Starts("script", d, n + 1)
    OBVIOUS
  <2>9. Moves("script", c, d, n, line, <<>>)
    BY <2>4, <2>5, <2>6, <2>7, <2>8, MovesBy DEF run
  <2> QED
    BY <1>9, <2>1, <2>9
<1>10. CASE ~c.done /\ ~(read.read > MaxLines) /\ c.pending = <<>> /\ is = "function"
  <2> DEFINE d == [read EXCEPT !.pending = run, !.start = n]
  <2>1. next = [carried |-> d, events |-> <<>>]
    BY <1>0, <1>10 DEF Flo!TakeScript
  <2>2. DOMAIN d = DOMAIN c /\ d.pending = run /\ d.start = n
    BY <1>0
  <2> HIDE DEF d, read, w, run
  <2>4. Sound("script", d, n + 1)
    BY <1>0, <1>3, <2>2 DEF Sound
  <2>5. Starts("script", d, n + 1) = {n}
    BY <1>2, <1>3, <2>2 DEF Begin
  <2>6. Flushed("script", <<>>, {}, 0)
    BY FlushedNone
  <2>7. 0 + Awaiting("script", d) = Awaiting("script", c) + Weight("script", run)
    BY <1>1, <1>3, <1>10, <2>2
  <2>8. {} \subseteq (Starts("script", c, n) \cup {n}) \ Starts("script", d, n + 1)
    OBVIOUS
  <2>9. Moves("script", c, d, n, line, <<>>)
    BY <2>4, <2>5, <2>6, <2>7, <2>8, MovesBy DEF run
  <2> QED
    BY <1>10, <2>1, <2>9
<1>11. CASE ~c.done /\ ~(read.read > MaxLines) /\ c.pending = <<>> /\ is # "function"
  <2>1. \/ line = Blank /\ next = [carried |-> read, events |-> <<>>]
        \/ \E kind : next = [carried |-> read, events |-> one(kind)]
    BY <1>0, <1>11 DEF Flo!TakeScript, Flo!Ev, Ev, Flo!NoStamp, NoStamp, one
  <2> HIDE DEF read, is
  <2>2. Sound("script", read, n + 1)
    BY <1>0 DEF Sound
  <2>3. Starts("script", read, n + 1) = {} /\ Awaiting("script", read) = Awaiting("script", c) /\ Awaiting("script", c) = 0
    BY <1>0, <1>1, <1>2, <1>3, <1>11 DEF Begin
  <2>4. CASE line = Blank /\ next = [carried |-> read, events |-> <<>>]
    <3>1. ~Weighs("script", line)
      BY <2>4 DEF Weighs
    <3>2. Moves("script", c, read, n, line, <<>>)
      BY <2>2, <2>3, <3>1, PassedOver
    <3> QED
      BY <1>11, <2>4, <3>2
  <2>5. ASSUME NEW kind, next = [carried |-> read, events |-> one(kind)]
        PROVE  Moves("script", c, next.carried, n, line, next.events)
    <3>1. Weight("script", run) + Awaiting("script", read) = Awaiting("script", c) + Weight("script", <<line>>)
      BY <1>3, <2>3
    <3>2. {n} \subseteq (Starts("script", c, n) \cup {n}) \ Starts("script", read, n + 1)
      BY <2>3
    <3>3. Flushed("script", one(kind), {n}, Weight("script", run))
      BY <1>5
    <3>4. Moves("script", c, read, n, line, one(kind))
      BY <2>2, <2>3, <3>1, <3>2, <3>3, MovesBy
    <3> QED
      BY <2>5, <3>4
  <2> QED
    BY <1>11, <2>1, <2>4, <2>5
<1> QED
  BY <1>6, <1>7, <1>8, <1>9, <1>10, <1>11

(* A line of a file whose entries span lines is read.                      *)
LEMMA StepsInEntries ==
    ASSUME Opened, ReadInEntries, Next, format \in Gathered
    PROVE  \/ Open \/ Close
           \/ /\ Onward
              /\ \E evs : /\ events' = events \o evs
                          /\ Moves(format, carried, carried', at, Element, evs)
                          /\ format = "script" /\ carried.done => carried'.done
                          /\ format = "prompts" => Reporting(carried, carried', Element, evs)
<1>1. \A result : Read(result) => Onward /\ carried' = result.carried /\ events' = events \o result.events
  BY DEF Read, Onward
<1>2. ~(\/ ReadClaude \/ ReadClaudeHistory \/ ReadGemini \/ ReadQwen \/ ReadCodex \/ ReadCopilot \/ ReadPi
        \/ ReadCodexHistory \/ ReadGeminiPrompts
        \/ ReadGoose \/ ReadCline \/ ReadClineMessages \/ ReadHooks \/ ReadContinue \/ ReadPromptLines
        \/ ReadJsonl \/ ReadDocument \/ ReadCascade \/ ReadLog \/ ReadPatterns \/ ReadRegistry
        \/ ReadRepository \/ ReadIndex \/ ReadPack \/ ReadLevelLog \/ ReadTable \/ ReadOwnLog)
  BY DEF Gathered, ReadClaude, ReadClaudeHistory, ReadGemini, ReadQwen, ReadCodex, ReadCopilot, ReadPi,
     ReadCodexHistory, ReadGeminiPrompts, ReadGoose, ReadCline, ReadClineMessages, ReadHooks, ReadContinue,
     ReadPromptLines, ReadJsonl, ReadDocument, ReadCascade, ReadLog, ReadPatterns, ReadRegistry,
     ReadRepository, ReadIndex, ReadPack, ReadLevelLog, ReadTable, ReadOwnLog
<1>3. CASE ReadShell \/ ReadRecall \/ ReadBash \/ ReadFish \/ ReadPrompts \/ ReadAider \/ ReadScript
  <2>1. Onward
    BY <1>1, <1>3 DEF ReadShell, ReadRecall, ReadBash, ReadFish, ReadPrompts, ReadAider, ReadScript
  <2>2. at \in Nat \ {0} /\ at \in 1..(Len(items) + 1)
    <3>1. Len(items) \in Nat /\ DOMAIN items = 1..Len(items)
      BY ItemsList DEF Gathered
    <3> QED
      BY <2>1, <3>1 DEF Onward
  <2>3. Sound(format, carried, at) /\ Starts(format, carried, at) \subseteq 1..(at - 1)
    BY <2>2 DEF ReadInEntries
  <2>4. CASE ReadShell
    <3> DEFINE next == His!TakeShell(at, Element, carried)
    <3>1. format = "shell" /\ carried' = next.carried /\ events' = events \o next.events
      BY <1>1, <2>4 DEF ReadShell
    <3> HIDE DEF next
    <3>2. Moves("shell", carried, next.carried, at, Element, next.events)
      BY <2>2, <2>3, <3>1, ShellMoves DEF next
    <3> QED
      BY <2>1, <3>1, <3>2
  <2>5. CASE ReadRecall
    <3> DEFINE next == His!TakeRecall(at, Element, carried)
    <3>1. format = "recall" /\ carried' = next.carried /\ events' = events \o next.events
      BY <1>1, <2>5 DEF ReadRecall
    <3> HIDE DEF next
    <3>2. Moves("recall", carried, next.carried, at, Element, next.events)
      BY <2>2, <2>3, <3>1, ShellMoves DEF next
    <3> QED
      BY <2>1, <3>1, <3>2
  <2>6. CASE ReadBash
    <3> DEFINE next == His!TakeBash(at, Element, carried)
    <3>1. format = "bash" /\ carried' = next.carried /\ events' = events \o next.events
      BY <1>1, <2>6 DEF ReadBash
    <3> HIDE DEF next
    <3>2. Moves("bash", carried, next.carried, at, Element, next.events)
      BY <2>2, <2>3, <3>1, BashMoves DEF next
    <3> QED
      BY <2>1, <3>1, <3>2
  <2>7. CASE ReadFish
    <3> DEFINE next == His!TakeFish(at, Element, carried)
    <3>1. format = "fish" /\ carried' = next.carried /\ events' = events \o next.events
      BY <1>1, <2>7 DEF ReadFish
    <3> HIDE DEF next
    <3>2. Moves("fish", carried, next.carried, at, Element, next.events)
      BY <2>2, <2>3, <3>1, FishMoves DEF next
    <3> QED
      BY <2>1, <3>1, <3>2
  <2>8. CASE ReadPrompts
    <3> DEFINE next == His!TakePrompt(at, Element, carried)
    <3>1. format = "prompts" /\ carried' = next.carried /\ events' = events \o next.events
      BY <1>1, <2>8 DEF ReadPrompts
    <3> HIDE DEF next
    <3>2. /\ Moves("prompts", carried, next.carried, at, Element, next.events)
          /\ Reporting(carried, next.carried, Element, next.events)
      BY <2>2, <2>3, <3>1, PromptMoves DEF next
    <3> QED
      BY <2>1, <3>1, <3>2
  <2>9. CASE ReadAider
    <3> DEFINE next == His!TakeChat(at, Element, carried)
    <3>1. format = "aider" /\ carried' = next.carried /\ events' = events \o next.events
      BY <1>1, <2>9 DEF ReadAider
    <3> HIDE DEF next
    <3>2. Moves("aider", carried, next.carried, at, Element, next.events)
      BY <2>2, <2>3, <3>1, ChatMoves DEF next
    <3> QED
      BY <2>1, <3>1, <3>2
  <2>10. CASE ReadScript
    <3> DEFINE next == Flo!TakeScript(at, Element, carried)
    <3>1. format = "script" /\ carried' = next.carried /\ events' = events \o next.events
      BY <1>1, <2>10 DEF ReadScript
    <3> HIDE DEF next
    <3>2. /\ Moves("script", carried, next.carried, at, Element, next.events)
          /\ carried.done => next.carried.done
      BY <2>2, <2>3, <3>1, ScriptMoves DEF next
    <3> QED
      BY <2>1, <3>1, <3>2
  <2> QED
    BY <1>3, <2>4, <2>5, <2>6, <2>7, <2>8, <2>9, <2>10
<1> QED
  BY <1>2, <1>3 DEF Next

(* What a file is, and what is told of it, where its entries span lines.   *)
LEMMA ShapeInEntries ==
    ASSUME Opened, format \in Gathered, at > 0
    PROVE  /\ items = lines /\ IsList(items) /\ Len(items) \in Nat /\ DOMAIN items = 1..Len(items)
           /\ at \in Nat
<1>1. Items = lines
  BY DEF Items, Gathered, Whole
<1> QED
  BY <1>1, ItemsList DEF Opened, Gathered

(* What is told at the end of such a file is what was still gathered, or   *)
(* the whole of a history without an entry and without a stray line.       *)
LEMMA FinishInEntries ==
    ASSUME Opened, ReadInEntries, format \in Gathered, at = Len(items) + 1
    PROVE  \E S : /\ Flushed(format, Finish, S, Awaiting(format, carried)) /\ S \subseteq 1..(at - 1)
                  /\ \A e \in Range(events) : e.loc[1] \notin S
<1>0. items = lines /\ IsList(items) /\ Len(items) \in Nat /\ DOMAIN items = 1..Len(items) /\ at > 0
  <2>1. at > 0
    <3>1. at \in Nat /\ Len(items) \in Nat
      BY ItemsList DEF Opened, Gathered
    <3> QED
      BY <3>1
  <2> QED
    BY <2>1, ShapeInEntries
<1>1. at \in Nat \ {0} /\ at \in 1..(Len(items) + 1)
  BY <1>0 DEF Opened
<1>2. /\ Sound(format, carried, at) /\ Starts(format, carried, at) \subseteq 1..(at - 1)
      /\ \A e \in Range(events) : e.loc[1] \notin Starts(format, carried, at)
  BY <1>1 DEF ReadInEntries
<1>3. ASSUME NEW S, Flushed(format, Finish, S, Awaiting(format, carried)), S \subseteq Starts(format, carried, at)
      PROVE  \E T : /\ Flushed(format, Finish, T, Awaiting(format, carried)) /\ T \subseteq 1..(at - 1)
                    /\ \A e \in Range(events) : e.loc[1] \notin T
  BY <1>2, <1>3
<1>4. ASSUME NEW start, NEW run, NEW kind, NEW says, IsList(run), Begin(start, run) \subseteq 1..(at - 1)
      PROVE  Flushed(format, IF run # <<>> THEN <<Ev(start, "self", 0, kind, run, NoStamp, says)>> ELSE <<>>,
                     Begin(start, run), Weight(format, run))
  <2> DEFINE one == <<Ev(start, "self", 0, kind, run, NoStamp, says)>>
  <2>1. run # <<>> => start # 0
    BY <1>4 DEF Begin
  <2>2. run = <<>> => Weight(format, run) = 0
    BY Weights
  <2> HIDE DEF one
  <2>3. \A evs : evs = (IF run # <<>> THEN one ELSE <<>>) => Flushed(format, evs, Begin(start, run), Weight(format, run))
    BY <1>4, <2>1, <2>2, Told1 DEF one
  <2> QED
    BY <2>3 DEF one
<1>5. CASE format \in {"shell", "recall"}
  <2> DEFINE evs == IF carried.lines # <<>>
                    THEN <<Ev(carried.start, "self", 0, "command.exec", carried.lines, NoStamp, carried.when)>> ELSE <<>>
  <2>1. Finish = evs
    BY <1>5 DEF Finish, His!FinishShell, His!Entry, His!When, His!Ev, Ev, His!NoStamp, NoStamp
  <2>2. Starts(format, carried, at) = Begin(carried.start, carried.lines) /\ IsList(carried.lines)
        /\ Awaiting(format, carried) = Weight(format, carried.lines)
    BY <1>2, <1>5 DEF Starts, Sound, Awaiting
  <2>3. Flushed(format, evs, Begin(carried.start, carried.lines), Weight(format, carried.lines))
    BY <1>2, <1>4, <2>2
  <2> HIDE DEF evs
  <2> QED
    BY <1>3, <2>1, <2>2, <2>3
<1>6. CASE format = "bash"
  <2>1. Finish = <<>> /\ Awaiting(format, carried) = 0
    BY <1>6 DEF Finish, Awaiting
  <2>2. Flushed(format, <<>>, {}, 0)
    BY FlushedNone
  <2> QED
    BY <1>3, <2>1, <2>2
<1>7. CASE format = "fish"
  <2>1. Finish = His!FinishFish(carried)
    BY <1>7 DEF Finish
  <2>2. /\ IsList(carried.lines) /\ IsList(carried.held) /\ Weight("fish", carried.held) = 0
        /\ carried.lines = <<>> => Len(carried.held) = at - 1
        /\ Awaiting(format, carried) = Weight("fish", carried.lines)
    BY <1>2, <1>7 DEF Sound, Awaiting
  <2>3. Starts(format, carried, at) = IF carried.lines = <<>> THEN {1} \cap 1..(at - 1) ELSE {carried.start}
    BY <1>7 DEF Starts
  <2>4. CASE carried.lines = <<>>
    <3>1. Finish = His!Unreadable(1, carried.held)
      BY <2>1, <2>4 DEF His!FinishFish
    <3>2. Flushed("fish", His!Unreadable(1, carried.held), Begin(1, carried.held), Weight("fish", carried.held))
      BY <2>2, UnreadableTold
    <3>3. Begin(1, carried.held) \subseteq Starts(format, carried, at)
      <4>1. carried.held # <<>> => at - 1 # 0
        BY <2>2, <2>4, ListFacts
      <4> QED
        BY <1>1, <2>3, <2>4, <4>1 DEF Begin
    <3>4. Awaiting(format, carried) = 0
      BY <2>2, <2>4, Weights
    <3> QED
      BY <1>3, <1>7, <2>2, <3>1, <3>2, <3>3, <3>4
  <2>5. CASE carried.lines # <<>>
    <3> DEFINE says == [when |-> carried.when, paths |-> carried.paths]
               evs == IF carried.lines # <<>>
                      THEN <<Ev(carried.start, "self", 0, "command.exec", carried.lines, NoStamp, says)>> ELSE <<>>
    <3>1. Finish = evs
      BY <2>1, <2>5 DEF His!FinishFish, His!Fish, His!When, His!Ev, Ev, His!NoStamp, NoStamp
    <3> HIDE DEF says
    <3>2. Starts(format, carried, at) = Begin(carried.start, carried.lines)
      BY <2>3, <2>5 DEF Begin
    <3>3. Flushed(format, evs, Begin(carried.start, carried.lines), Weight(format, carried.lines))
      BY <1>2, <1>4, <2>2, <3>2
    <3> HIDE DEF evs
    <3> QED
      BY <1>3, <1>7, <2>2, <3>1, <3>2, <3>3
  <2> QED
    BY <2>4, <2>5
<1>8. CASE format = "aider"
  <2> DEFINE prompt == His!PromptOf(carried)
             answer == His!AnswerOf(carried)
  <2>1. Finish = prompt \o answer
    BY <1>8 DEF Finish, His!FinishChat
  <2>2. /\ Flushed("aider", prompt, Begin(carried.promptAt, carried.prompt), Weight("aider", carried.prompt))
        /\ Flushed("aider", answer, Begin(carried.answerAt, carried.answer), Weight("aider", carried.answer))
    BY <1>1, <1>2, <1>8, ChatHolds
  <2> HIDE DEF prompt, answer
  <2>3. Begin(carried.promptAt, carried.prompt) \cap Begin(carried.answerAt, carried.answer) = {}
    BY <1>2, <1>8 DEF Sound, Begin
  <2>4. /\ Starts(format, carried, at)
           = Begin(carried.promptAt, carried.prompt) \cup Begin(carried.answerAt, carried.answer)
        /\ Awaiting(format, carried) = Weight("aider", carried.prompt) + Weight("aider", carried.answer)
    BY <1>8 DEF Starts, Awaiting
  <2>5. Flushed("aider", Finish, Starts(format, carried, at), Awaiting(format, carried))
    BY <2>1, <2>2, <2>3, <2>4, FlushedJoin
  <2> QED
    BY <1>3, <1>8, <2>5
<1>9. CASE format = "script"
  <2> DEFINE evs == IF carried.pending # <<>>
                    THEN <<Ev(carried.start, "self", 0, "config.snapshot", carried.pending, NoStamp, Null)>> ELSE <<>>
  <2>1. Finish = evs
    BY <1>9 DEF Finish, Flo!FinishScript, Flo!Function, Flo!When, Flo!Ev, Ev, Flo!NoStamp, NoStamp
  <2>2. Starts(format, carried, at) = Begin(carried.start, carried.pending) /\ IsList(carried.pending)
        /\ Awaiting(format, carried) = Weight(format, carried.pending)
    BY <1>2, <1>9 DEF Starts, Sound, Awaiting
  <2>3. Flushed(format, evs, Begin(carried.start, carried.pending), Weight(format, carried.pending))
    BY <1>2, <1>4, <2>2
  <2> HIDE DEF evs
  <2> QED
    BY <1>3, <2>1, <2>2, <2>3
<1>10. CASE format = "prompts"
  <2> DEFINE entry == His!Entry(carried, "prompt.history")
             strays == His!Strays(carried)
             some == \E i \in DOMAIN lines : lines[i] # Blank /\ lines[i].is = "content"
             whole == ~some /\ ~His!NoStrays(carried).reported
             all == His!Unreadable(1, lines)
  <2>1. Finish = entry \o strays \o (IF whole THEN all ELSE <<>>)
    BY <1>10 DEF Finish, His!FinishPrompt, His!When
  <2>2. /\ Flushed("prompts", entry, Begin(carried.start, carried.lines), Weight("prompts", carried.lines))
        /\ carried.lines = <<>> => entry = <<>>
        /\ Flushed("prompts", strays, Begin(carried.strayAt, carried.stray), Weight("prompts", carried.stray))
        /\ carried.stray = <<>> => strays = <<>>
    BY <1>1, <1>2, <1>10, PromptHolds
  <2>3. Begin(carried.start, carried.lines) \cap Begin(carried.strayAt, carried.stray) = {}
    BY <1>2, <1>10 DEF Sound, Begin
  <2>4. /\ Starts(format, carried, at)
           = Begin(carried.start, carried.lines) \cup Begin(carried.strayAt, carried.stray)
        /\ Awaiting(format, carried) = Weight("prompts", carried.lines) + Weight("prompts", carried.stray)
    BY <1>10 DEF Starts, Awaiting
  <2>5. His!NoStrays(carried).reported = (carried.reported \/ carried.stray # <<>>)
    BY <1>2, <1>10 DEF Sound, His!NoStrays
  <2> HIDE DEF entry, strays, all
  <2>6. IsList(entry) /\ IsList(strays) /\ IsList(entry \o strays)
    BY <2>2, ListsJoin DEF Flushed, Alone
  <2>7. CASE ~whole
    <3>1. Finish = entry \o strays
      BY <2>1, <2>6, <2>7, ListsJoin
    <3>2. Flushed("prompts", Finish, Starts(format, carried, at), Awaiting(format, carried))
      BY <2>2, <2>3, <2>4, <3>1, FlushedJoin
    <3> QED
      BY <1>3, <1>10, <3>2
  <2>8. CASE whole
    <3>1. ~some /\ ~carried.reported /\ carried.stray = <<>>
      BY <2>5, <2>8
    <3>2. \A i \in 1..(at - 1) : items[i] = Blank \/ items[i].is # "content"
      BY <1>0, <3>1
    <3>3. /\ events = <<>> /\ carried.lines = <<>>
          /\ \A i \in 1..(at - 1) : items[i] = Blank \/ items[i].is \in {"content", "stamp"}
      BY <1>0, <1>1, <1>10, <3>1, <3>2 DEF ReadInEntries
    <3>4. Weight("prompts", lines) = 0
      <4>1. \A i \in DOMAIN lines : ~Weighs("prompts", lines[i])
        BY <1>0, <3>2, <3>3 DEF Weighs
      <4> QED
        BY <1>0, <4>1, NothingWeighs
    <3>5. Awaiting(format, carried) = 0
      BY <2>4, <3>1, <3>3, Weights
    <3>6. Finish = all
      <4>1. Flushed("prompts", all, Begin(1, lines), 0)
        BY <1>0, <3>4, UnreadableTold DEF all
      <4>2. IsList(all) /\ entry = <<>> /\ strays = <<>> /\ IsList(<<>>)
        BY <2>2, <3>1, <3>3, <4>1, ShortLists DEF Flushed, Alone
      <4>3. entry \o strays = <<>> /\ <<>> \o all = all
        BY <4>2, ListsJoin
      <4> QED
        BY <2>1, <2>8, <4>2, <4>3
    <3>7. Flushed("prompts", all, Begin(1, lines), 0)
      BY <1>0, <3>4, UnreadableTold DEF all
    <3>8. Begin(1, lines) \subseteq 1..(at - 1)
      <4>1. lines # <<>> => Len(lines) # 0
        BY <1>0, ListFacts
      <4> QED
        BY <1>0, <1>1, <4>1 DEF Begin
    <3>9. \A e \in Range(events) : e.loc[1] \notin Begin(1, lines)
      BY <3>3, ShortLists
    <3> QED
      BY <1>10, <3>5, <3>6, <3>7, <3>8, <3>9
  <2> QED
    BY <2>7, <2>8
<1> QED
  BY <1>5, <1>6, <1>7, <1>8, <1>9, <1>10 DEF Gathered

(* A file whose entries span lines as it is when it is open.               *)
LEMMA OpensInEntries ==
    ASSUME Opened, format \in Gathered, Open
    PROVE  ReadInEntries' /\ LinesConserved'
<1>1. at' = 1 /\ items' = lines /\ carried' = StartOf /\ events' = Preface /\ format' = format /\ lines' = lines
  BY DEF Open, Items, Gathered, Whole
<1>2. IsList(lines) /\ Len(lines) \in Nat
  BY ListFacts DEF Opened, OnDisk
<1>3. /\ \A f : Weight(f, <<>>) = 0
      /\ IsList(<<>>) /\ Len(<<>>) = 0 /\ Range(<<>>) = {} /\ KeepLines(<<>>) /\ Told(<<>>) = <<>> /\ Alone(<<>>)
  BY Weights, ShortLists, ToldLines DEF KeepLines, Alone
<1>4. /\ Alone(Preface) /\ KeepLines(Preface) /\ Told(Preface) = <<>> /\ \A e \in Range(Preface) : e.loc[1] = 0
      /\ format # "script" => Preface = <<>>
  <2>1. CASE format = "script"
    <3> DEFINE e == Ev(0, "file", 0, "config.snapshot", Len(lines), NoStamp, Null)
               one == <<e>>
    <3>1. Preface = one
      BY <2>1 DEF Preface, Flo!ScriptPreface, Flo!Ev, Ev, Flo!NoStamp, NoStamp
    <3>2. e.loc[1] = 0
      BY DEF Ev
    <3> HIDE DEF e
    <3>3. Alone(one) /\ KeepLines(one) /\ Told(one) = <<>> /\ \A x \in Range(one) : x.loc[1] = 0
      BY <3>2, ShortLists, ToldLines DEF Alone, KeepLines
    <3> HIDE DEF one
    <3> QED
      BY <2>1, <3>1, <3>3
  <2>2. CASE format # "script"
    <3>1. Preface = <<>>
      BY <2>2 DEF Preface, Gathered
    <3> QED
      BY <1>3, <3>1
  <2> QED
    BY <2>1, <2>2
<1>5. Sound(format, StartOf, 1) /\ Starts(format, StartOf, 1) = {} /\ Awaiting(format, StartOf) = 0
      /\ (format = "prompts" => StartOf.lines = <<>>)
  <2>1. CASE format \in {"shell", "recall", "bash"}
    <3>1. StartOf = His!Idle
      BY <2>1 DEF StartOf
    <3> QED
      BY <1>3, <2>1, <3>1 DEF His!Idle, Sound, Starts, Begin, Awaiting
  <2>2. CASE format = "fish"
    <3>1. StartOf = His!IdleFish
      BY <2>2 DEF StartOf
    <3> QED
      BY <1>3, <2>2, <3>1 DEF His!IdleFish, Sound, Starts, Begin, Awaiting
  <2>3. CASE format = "prompts"
    <3>1. StartOf = His!IdlePrompt
      BY <2>3 DEF StartOf
    <3> QED
      BY <1>3, <2>3, <3>1 DEF His!IdlePrompt, Sound, Starts, Begin, Awaiting
  <2>4. CASE format = "aider"
    <3>1. StartOf = His!IdleChat
      BY <2>4 DEF StartOf
    <3> QED
      BY <1>3, <2>4, <3>1 DEF His!IdleChat, Sound, Starts, Begin, Awaiting
  <2>5. CASE format = "script"
    <3>1. StartOf = Flo!ScriptStart
      BY <2>5 DEF StartOf
    <3> QED
      BY <1>3, <2>5, <3>1 DEF Flo!ScriptStart, Sound, Starts, Begin, Awaiting
  <2> QED
    BY <2>1, <2>2, <2>3, <2>4, <2>5 DEF Gathered
<1>6. SubSeq(lines, 1, 0) = <<>>
  BY <1>2, NoneAndAll
<1>7. Weight(format, Told(Preface)) + Awaiting(format, StartOf) = Weight(format, SubSeq(lines, 1, 1 - 1))
  <2>1. 1 - 1 = 0 /\ 0 + 0 = 0
    OBVIOUS
  <2>2. Weight(format, SubSeq(lines, 1, 1 - 1)) = 0
    BY <1>3, <1>6, <2>1
  <2>3. Weight(format, Told(Preface)) = 0
    BY <1>3, <1>4
  <2> QED
    BY <1>5, <2>1, <2>2, <2>3
<1>8. /\ 1 \in 1..(Len(lines) + 1) /\ ~(1 = Len(lines) + 2)
      /\ \A e \in Range(Preface) : e.loc[1] \in 0..(1 - 1)
  BY <1>2, <1>4
<1>9. ReadInEntries'
  BY <1>1, <1>3, <1>4, <1>5, <1>7, <1>8 DEF ReadInEntries
<1>10. LinesConserved'
  BY <1>1, <1>8 DEF LinesConserved, Closed
<1> QED
  BY <1>9, <1>10

(* And after a line of it.                                                 *)
LEMMA GoesOnInEntries ==
    ASSUME Opened, ReadInEntries, format \in Gathered, Onward, NEW evs, events' = events \o evs,
           Moves(format, carried, carried', at, Element, evs),
           format = "script" /\ carried.done => carried'.done,
           format = "prompts" => Reporting(carried, carried', Element, evs)
    PROVE  ReadInEntries' /\ LinesConserved'
<1>0. /\ at' = at + 1 /\ items' = items /\ lines' = lines /\ format' = format
      /\ at \in Nat /\ at > 0 /\ at \in 1..Len(items)
      /\ items = lines /\ IsList(items) /\ Len(items) \in Nat /\ DOMAIN items = 1..Len(items)
  <2>1. at \in DOMAIN items /\ DOMAIN items = 1..Len(items) /\ Len(items) \in Nat /\ at \in Nat
    BY ItemsList DEF Onward, Gathered, Opened
  <2>2. at > 0
    BY <2>1
  <2> QED
    BY <2>1, <2>2, ShapeInEntries DEF Onward
<1>1. /\ Alone(events) /\ \A e \in Range(events) : e.loc[1] \in 0..(at - 1)
      /\ Sound(format, carried, at)
      /\ Starts(format, carried, at) \subseteq 1..(at - 1)
      /\ \A e \in Range(events) : e.loc[1] \notin Starts(format, carried, at)
      /\ ~CutScript =>
            /\ KeepLines(events)
            /\ Weight(format, Told(events)) + Awaiting(format, carried) = Weight(format, SubSeq(items, 1, at - 1))
  BY <1>0 DEF ReadInEntries
<1>2. format = "prompts" =>
            /\ ~carried.reported /\ carried.stray = <<>> =>
                  \A i \in 1..(at - 1) : items[i] = Blank \/ items[i].is \in {"content", "stamp"}
            /\ ~carried.reported /\ (\A i \in 1..(at - 1) : items[i] = Blank \/ items[i].is # "content") =>
                  events = <<>>
            /\ (\A i \in 1..(at - 1) : items[i] = Blank \/ items[i].is # "content") => carried.lines = <<>>
  BY <1>0 DEF ReadInEntries
<1>3. /\ Sound(format, carried', at + 1)
      /\ Starts(format, carried', at + 1) \subseteq Starts(format, carried, at) \cup {at}
      /\ Alone(evs)
      /\ \A e \in Range(evs) : e.loc[1] \in (Starts(format, carried, at) \cup {at}) \ Starts(format, carried', at + 1)
      /\ ~(format = "script" /\ carried'.done) =>
            /\ KeepLines(evs)
            /\ Weight(format, Told(evs)) + Awaiting(format, carried')
               = Awaiting(format, carried) + Weight(format, <<Element>>)
  BY DEF Moves
<1>4. Alone(events') /\ Range(events') = Range(events) \cup Range(evs)
  <2>1. \A x \in Range(events), y \in Range(evs) : x.loc[1] # y.loc[1]
    BY <1>0, <1>1, <1>3
  <2> QED
    BY <1>1, <1>3, <2>1, AloneJoin
<1>5. \A e \in Range(events') : e.loc[1] \in 0..(at' - 1) /\ e.loc[1] \notin Starts(format, carried', at + 1)
  <2>1. \A e \in Range(evs) : e.loc[1] \in 0..at
    BY <1>0, <1>1, <1>3
  <2>2. \A e \in Range(events) : e.loc[1] \in 0..at /\ e.loc[1] \notin Starts(format, carried', at + 1)
    BY <1>0, <1>1, <1>3
  <2> QED
    BY <1>0, <1>3, <1>4, <2>1, <2>2
<1>6. Starts(format, carried', at + 1) \subseteq 1..(at' - 1)
  BY <1>0, <1>1, <1>3
<1>7. ASSUME ~CutScript'
      PROVE  /\ KeepLines(events')
             /\ Weight(format, Told(events')) + Awaiting(format, carried')
                = Weight(format, SubSeq(items, 1, at' - 1))
  <2>1. ~(format = "script" /\ carried'.done) /\ ~CutScript
    BY <1>0, <1>7 DEF CutScript
  <2>2. KeepLines(events) /\ KeepLines(evs)
    BY <1>1, <1>3, <2>1
  <2>3. KeepLines(events') /\ Told(events') = Told(events) \o Told(evs) /\ IsList(Told(events)) /\ IsList(Told(evs))
    BY <2>2, ToldLines
  <2>4. /\ Weight(format, Told(events')) = Weight(format, Told(events)) + Weight(format, Told(evs))
        /\ Weight(format, Told(events)) \in Nat /\ Weight(format, Told(evs)) \in Nat
    BY <2>3, Weights
  <2>5. SubSeq(items, 1, at) = Append(SubSeq(items, 1, at - 1), Element) /\ IsList(SubSeq(items, 1, at - 1))
    BY <1>0, OneMore DEF Element
  <2>6. Weight(format, SubSeq(items, 1, at)) = Weight(format, SubSeq(items, 1, at - 1)) + Weight(format, <<Element>>)
        /\ Weight(format, SubSeq(items, 1, at - 1)) \in Nat /\ Weight(format, <<Element>>) \in Nat
    BY <2>5, WeightAppends
  <2>7. Awaiting(format, carried) \in Nat /\ Awaiting(format, carried') \in Nat
    BY <1>1, <1>3, AwaitingNat
  <2>8. Weight(format, Told(events')) + Awaiting(format, carried') = Weight(format, SubSeq(items, 1, at))
    BY <1>1, <1>3, <2>1, <2>4, <2>6, <2>7
  <2>9. at' - 1 = at
    BY <1>0
  <2> QED
    BY <2>3, <2>8, <2>9
<1>8. ASSUME format = "prompts"
      PROVE  /\ ~carried'.reported /\ carried'.stray = <<>> =>
                    \A i \in 1..at : items[i] = Blank \/ items[i].is \in {"content", "stamp"}
             /\ ~carried'.reported /\ (\A i \in 1..at : items[i] = Blank \/ items[i].is # "content") => events' = <<>>
             /\ (\A i \in 1..at : items[i] = Blank \/ items[i].is # "content") => carried'.lines = <<>>
  <2>1. /\ ~carried'.reported /\ carried'.stray = <<>> =>
              ~carried.reported /\ carried.stray = <<>> /\ (Element = Blank \/ Element.is \in {"content", "stamp"})
        /\ ~carried'.reported => ~carried.reported /\ (evs = <<>> \/ carried.lines # <<>>)
        /\ carried'.lines # <<>> => carried.lines # <<>> \/ (Element # Blank /\ Element.is = "content")
    BY <1>8 DEF Reporting
  <2>2. Element = items[at] /\ \A i \in 1..at : i = at \/ i \in 1..(at - 1)
    BY <1>0 DEF Element
  <2>3. 1..(at - 1) \subseteq 1..at /\ at \in 1..at
    BY <1>0
  <2>4. events \o <<>> = events
    BY <1>1, ListsJoin DEF Alone
  <2>5. ~carried'.reported /\ carried'.stray = <<>> =>
            \A i \in 1..at : items[i] = Blank \/ items[i].is \in {"content", "stamp"}
    BY <1>2, <1>8, <2>1, <2>2
  <2>6. ASSUME \A i \in 1..at : items[i] = Blank \/ items[i].is # "content"
        PROVE  carried'.lines = <<>> /\ (~carried'.reported => events' = <<>>)
    <3>1. (\A i \in 1..(at - 1) : items[i] = Blank \/ items[i].is # "content") /\ ~(Element # Blank /\ Element.is = "content")
      BY <2>2, <2>3, <2>6
    <3>2. carried.lines = <<>>
      BY <1>2, <1>8, <3>1
    <3>3. carried'.lines = <<>>
      BY <2>1, <3>1, <3>2
    <3>4. ~carried'.reported => events' = <<>>
      BY <1>2, <1>8, <2>1, <2>4, <3>1, <3>2
    <3> QED
      BY <3>3, <3>4
  <2> QED
    BY <2>5, <2>6
<1>9. ReadInEntries'
  <2>1. at' - 1 = at
    BY <1>0
  <2> QED
    BY <1>0, <1>3, <1>4, <1>5, <1>6, <1>7, <1>8, <2>1 DEF ReadInEntries
<1>10. ~(at' = Len(items') + 2)
  BY <1>0
<1> QED
  BY <1>9, <1>10 DEF LinesConserved, Closed

(* And at its end.                                                         *)
LEMMA EndsInEntries ==
    ASSUME Opened, ReadInEntries, format \in Gathered, Close
    PROVE  ReadInEntries' /\ LinesConserved'
<1>0. /\ at = Len(items) + 1 /\ at' = Len(items) + 2 /\ events' = events \o Finish
      /\ items' = items /\ lines' = lines /\ format' = format /\ carried' = carried
  BY DEF Close
<1>1. at \in Nat /\ at > 0 /\ items = lines /\ IsList(items) /\ Len(items) \in Nat
  <2>1. Len(items) \in Nat
    BY ItemsList DEF Gathered
  <2>2. at > 0
    BY <1>0, <2>1
  <2> QED
    BY <2>2, ShapeInEntries
<1>2. /\ Alone(events) /\ \A e \in Range(events) : e.loc[1] \in 0..(at - 1)
      /\ ~CutScript =>
            /\ KeepLines(events)
            /\ Weight(format, Told(events)) + Awaiting(format, carried) = Weight(format, SubSeq(items, 1, at - 1))
  BY <1>0, <1>1 DEF ReadInEntries
<1>3. PICK S : /\ Flushed(format, Finish, S, Awaiting(format, carried)) /\ S \subseteq 1..(at - 1)
               /\ \A e \in Range(events) : e.loc[1] \notin S
  BY <1>0, FinishInEntries
<1>4. Alone(Finish) /\ KeepLines(Finish) /\ Weight(format, Told(Finish)) = Awaiting(format, carried)
      /\ \A e \in Range(Finish) : e.loc[1] \in S
  BY <1>3 DEF Flushed, KeepLines, Alone
<1>5. Alone(events') /\ Range(events') = Range(events) \cup Range(Finish)
  BY <1>0, <1>2, <1>3, <1>4, AloneJoin
<1>6. \A e \in Range(events') : e.loc[1] \in 0..(at' - 1)
  <2>1. \A e \in Range(events') : e.loc[1] \in 0..(at - 1)
    <3>1. 1..(at - 1) \subseteq 0..(at - 1)
      BY <1>1
    <3>2. \A e \in Range(Finish) : e.loc[1] \in 0..(at - 1)
      BY <1>3, <1>4, <3>1
    <3> QED
      BY <1>2, <1>5, <3>2
  <2> QED
    BY <1>0, <1>1, <2>1
<1>7. ReadInEntries'
  <2>1. ~(at' \in 1..(Len(items') + 1))
    BY <1>0, <1>1
  <2> QED
    BY <1>0, <1>5, <1>6, <2>1 DEF ReadInEntries
<1>8. LinesConserved'
  <2> SUFFICES ASSUME ~CutScript
               PROVE  Weight(format, Told(events')) = Weight(format, lines)
    BY <1>0 DEF LinesConserved, CutScript
  <2>1. IsList(Told(events)) /\ IsList(Told(Finish)) /\ Told(events') = Told(events) \o Told(Finish)
    BY <1>0, <1>2, <1>4, ToldLines
  <2>2. Weight(format, Told(events')) = Weight(format, Told(events)) + Weight(format, Told(Finish))
    BY <2>1, Weights
  <2>3. SubSeq(items, 1, at - 1) = lines
    <3>1. SubSeq(items, 1, Len(items)) = items
      BY <1>1, NoneAndAll
    <3>2. at - 1 = Len(items)
      BY <1>0, <1>1
    <3> QED
      BY <1>1, <3>1, <3>2
  <2> QED
    BY <1>2, <1>4, <2>2, <2>3
<1> QED
  BY <1>7, <1>8

(* So what is told and what is gathered of such a file is always that.     *)
LEMMA AlwaysInEntries == Spec => [](ReadInEntries /\ LinesConserved)
<1>1. Init => ReadInEntries /\ LinesConserved
  <2> SUFFICES ASSUME Init PROVE ReadInEntries /\ LinesConserved
    OBVIOUS
  <2>1. at = 0 /\ items = <<>>
    BY DEF Init
  <2>2. ~Closed
    BY <2>1, ShortLists DEF Closed
  <2> QED
    BY <2>1, <2>2 DEF ReadInEntries, LinesConserved
<1>2. Opened /\ ReadInEntries /\ LinesConserved /\ [Next]_vars => ReadInEntries' /\ LinesConserved'
  <2> SUFFICES ASSUME Opened, ReadInEntries, LinesConserved, [Next]_vars PROVE ReadInEntries' /\ LinesConserved'
    OBVIOUS
  <2>1. CASE UNCHANGED vars
    BY <2>1 DEF ReadInEntries, LinesConserved, Closed, CutScript, vars
  <2>2. CASE Next /\ format \in Gathered
    BY <2>2, StepsInEntries, OpensInEntries, GoesOnInEntries, EndsInEntries
  <2>3. CASE format \notin Gathered
    BY <2>3, FormatStays DEF ReadInEntries, LinesConserved
  <2> QED
    BY <2>1, <2>2, <2>3
<1> QED
  BY <1>1, <1>2, FileOpened, PTL DEF Spec

(* Of a history whose entries span lines every line is in exactly one      *)
(* event: none is lost when an entry is cut, when the file ends in one or  *)
(* when lines are no entry, and none is told twice (shell_history.py,      *)
(* prompt_history.py, aider.py, shell_script.py).                          *)
THEOREM AlwaysLinesConserved == Spec => []LinesConserved
BY AlwaysInEntries, PTL

(* Nothing that stands in a file is missing from the case (ADR 0039).      *)
THEOREM AlwaysNothingIsLost == Spec => []NothingIsLost
<1>1. LinesConserved /\ ElementsTold => NothingIsLost
  BY DEF NothingIsLost
<1> QED
  BY <1>1, AlwaysLinesConserved, AlwaysElementsTold, PTL

(* ------------------------------------------------- the time of an entry -- *)

(* What is told of lines that state a time is told with the time above it, *)
(* and what is carried is the time of the entry that is gathered or next.  *)
ReadTimes ==
    at > 0 =>
        /\ format = "bash" =>
              /\ \A e \in Range(events) : e.says = TimeAt(LastBefore(e.loc[1]))
              /\ at \in 1..(Len(items) + 1) => carried.when = TimeAt(LastBefore(at))
        /\ format = "prompts" =>
              /\ \A e \in Range(events) : e.kind = "prompt.history" => e.says = TimeAt(e.loc[1] - 1)
              /\ at \in 1..(Len(items) + 1) =>
                    carried.when = TimeAt((IF carried.lines = <<>> THEN at ELSE carried.start) - 1)

(* The last line that is not blank, and the line after it.                 *)
LEMMA LastBeforeNext ==
    ASSUME NEW n \in Nat \ {0}
    PROVE  LastBefore(n + 1) = IF lines[n] # Blank THEN n ELSE LastBefore(n)
<1>1. CASE lines[n] = Blank
  <2>1. FilledBefore(n + 1) = FilledBefore(n)
    BY <1>1 DEF FilledBefore
  <2> QED
    BY <1>1, <2>1 DEF LastBefore
<1>2. CASE lines[n] # Blank
  <2> DEFINE filled == FilledBefore(n + 1) \cup {0}
  <2>1. n \in filled /\ \A k \in filled : k <= n /\ k \in Nat
    BY <1>2 DEF FilledBefore
  <2> HIDE DEF filled
  <2>2. Max(filled) = n
    BY <2>1, LargestIs
  <2> QED
    BY <1>2, <2>2 DEF LastBefore, filled
<1> QED
  BY <1>1, <1>2

(* A step that leaves the file and its lines as they are leaves the times. *)
LEMMA TimesStay ==
    ASSUME lines' = lines
    PROVE  \A j : TimeAt(j)' = TimeAt(j) /\ LastBefore(j)' = LastBefore(j)
BY DEF TimeAt, LastBefore, FilledBefore

(* A line of the history of bash.                                          *)
LEMMA BashTimes ==
    ASSUME Opened, ReadInEntries, ReadTimes, ReadBash
    PROVE  ReadTimes'
<1> DEFINE evs == <<Ev(at, "self", 0, "command.exec", <<Element>>, NoStamp, carried.when)>>
           next == His!TakeBash(at, Element, carried)
<1>1. /\ format = "bash" /\ at \in DOMAIN items /\ at' = at + 1 /\ items' = items /\ lines' = lines /\ format' = format
      /\ carried' = next.carried /\ events' = events \o next.events
  BY DEF ReadBash, Read
<1>2. /\ at \in Nat \ {0} /\ at \in 1..(Len(items) + 1) /\ items = lines /\ Element = lines[at]
  <2>1. at \in Nat /\ DOMAIN items = 1..Len(items) /\ Len(items) \in Nat
    BY <1>1, ItemsList DEF Opened
  <2>2. at \in Nat \ {0} /\ at > 0 /\ at \in 1..(Len(items) + 1)
    BY <1>1, <2>1
  <2> QED
    BY <1>1, <2>2, ShapeInEntries DEF Element, Gathered
<1>3. /\ Sound("bash", carried, at) /\ IsList(events)
      /\ carried.when = TimeAt(LastBefore(at))
      /\ \A e \in Range(events) : e.says = TimeAt(LastBefore(e.loc[1]))
  BY <1>1, <1>2 DEF ReadInEntries, ReadTimes, Gathered, Alone
<1>4. DOMAIN carried = {"lines", "start", "when"}
  BY <1>3 DEF Sound
<1>5. \A j : TimeAt(j)' = TimeAt(j) /\ LastBefore(j)' = LastBefore(j)
  BY <1>1, TimesStay
<1>6. LastBefore(at + 1) = IF Element # Blank THEN at ELSE LastBefore(at)
  BY <1>2, LastBeforeNext
<1>7. /\ next.carried.when = TimeAt(LastBefore(at + 1))
      /\ next.events = <<>> \/ next.events = evs
  <2>1. CASE Element = Blank
    BY <1>3, <1>6, <2>1 DEF His!TakeBash, His!Answer
  <2>2. CASE Element # Blank /\ Element.is = "stamp"
    <3>1. next.carried.when = Element.when /\ next.events = <<>>
      BY <1>4, <2>2 DEF His!TakeBash, His!Answer
    <3>2. TimeAt(at) = Element.when
      BY <1>2, <2>2 DEF TimeAt
    <3> QED
      BY <1>6, <2>2, <3>1, <3>2
  <2>3. CASE Element # Blank /\ Element.is # "stamp"
    <3>1. next.carried.when = Null /\ next.events = evs
      BY <2>3 DEF His!TakeBash, His!Answer, His!Idle, His!Ev, Ev, His!NoStamp, NoStamp
    <3>2. TimeAt(at) = Null
      BY <1>2, <2>3 DEF TimeAt
    <3> QED
      BY <1>6, <2>3, <3>1, <3>2
  <2> QED
    BY <2>1, <2>2, <2>3
<1>8. IsList(evs) /\ \A e \in Range(evs) : e.loc[1] = at /\ e.says = carried.when
  BY ShortLists DEF Ev
<1> HIDE DEF evs, next
<1>9. \A e \in Range(events') : e.says = TimeAt(LastBefore(e.loc[1]))
  <2>1. events' = events \o <<>> \/ events' = events \o evs
    BY <1>1, <1>7
  <2>2. Range(events') \subseteq Range(events) \cup Range(evs)
    BY <1>3, <1>8, <2>1, ListsJoin, ShortLists
  <2> QED
    BY <1>3, <1>8, <2>2
<1> QED
  BY <1>1, <1>5, <1>7, <1>9 DEF ReadTimes

(* An entry is told with the time that was gathered with it.               *)
LEMMA EntrySays ==
    \A c : /\ IsList(His!Entry(c, "prompt.history"))
           /\ \A e \in Range(His!Entry(c, "prompt.history")) :
                 e.says = c.when /\ e.loc[1] = c.start /\ c.lines # <<>>
<1> SUFFICES ASSUME NEW c
             PROVE  /\ IsList(His!Entry(c, "prompt.history"))
                    /\ \A e \in Range(His!Entry(c, "prompt.history")) :
                          e.says = c.when /\ e.loc[1] = c.start /\ c.lines # <<>>
  OBVIOUS
<1> DEFINE one == <<Ev(c.start, "self", 0, "prompt.history", c.lines, NoStamp, c.when)>>
           entry == His!Entry(c, "prompt.history")
<1>1. entry = <<>> \/ (entry = one /\ c.lines # <<>>)
  BY DEF His!Entry, His!When, His!Ev, Ev, His!NoStamp, NoStamp
<1>2. IsList(one) /\ \A e \in Range(one) : e.says = c.when /\ e.loc[1] = c.start
  BY ShortLists DEF Ev
<1> HIDE DEF one, entry
<1>3. IsList(entry) /\ \A e \in Range(entry) : e.says = c.when /\ e.loc[1] = c.start /\ c.lines # <<>>
  BY <1>1, <1>2, ShortLists
<1> QED
  BY <1>3 DEF entry

(* What is reported unread is no entry.                                    *)
LEMMA UnreadableSays ==
    \A start, run : /\ IsList(His!Unreadable(start, run))
                    /\ \A e \in Range(His!Unreadable(start, run)) : e.kind # "prompt.history"
<1> SUFFICES ASSUME NEW start, NEW run
             PROVE  /\ IsList(His!Unreadable(start, run))
                    /\ \A e \in Range(His!Unreadable(start, run)) : e.kind # "prompt.history"
  OBVIOUS
<1> DEFINE one == <<Ev(start, "self", 0, "unparsed.record", run, NoStamp, Null)>>
           all == His!Unreadable(start, run)
<1>1. all = <<>> \/ all = one
  BY DEF His!Unreadable, His!When, His!Unparsed, His!Ev, Ev, His!NoStamp, NoStamp
<1>2. IsList(one) /\ \A e \in Range(one) : e.kind # "prompt.history"
  BY ShortLists DEF Ev
<1> HIDE DEF one, all
<1>3. IsList(all) /\ \A e \in Range(all) : e.kind # "prompt.history"
  BY <1>1, <1>2, ShortLists
<1> QED
  BY <1>3 DEF all

(* A line of a history of prompts.                                         *)
LEMMA PromptTimes ==
    ASSUME Opened, ReadInEntries, ReadTimes, ReadPrompts
    PROVE  ReadTimes'
<1> DEFINE next == His!TakePrompt(at, Element, carried)
           entry == His!Entry(carried, "prompt.history")
           strays == His!Strays(carried)
           start == IF carried.lines = <<>> THEN at ELSE carried.start
           start1 == IF next.carried.lines = <<>> THEN at + 1 ELSE next.carried.start
<1>1. /\ format = "prompts" /\ at \in DOMAIN items /\ at' = at + 1 /\ items' = items /\ lines' = lines /\ format' = format
      /\ carried' = next.carried /\ events' = events \o next.events
  BY DEF ReadPrompts, Read
<1>2. /\ at \in Nat \ {0} /\ at \in 1..(Len(items) + 1) /\ items = lines /\ Element = lines[at]
  <2>1. at \in Nat /\ DOMAIN items = 1..Len(items) /\ Len(items) \in Nat
    BY <1>1, ItemsList DEF Opened
  <2>2. at \in Nat \ {0} /\ at > 0 /\ at \in 1..(Len(items) + 1)
    BY <1>1, <2>1
  <2> QED
    BY <1>1, <2>2, ShapeInEntries DEF Element, Gathered
<1>3. /\ Sound("prompts", carried, at) /\ IsList(events)
      /\ Starts("prompts", carried, at) \subseteq 1..(at - 1)
      /\ carried.when = TimeAt(start - 1)
      /\ \A e \in Range(events) : e.kind = "prompt.history" => e.says = TimeAt(e.loc[1] - 1)
  BY <1>1, <1>2 DEF ReadInEntries, ReadTimes, Gathered, Alone
<1>4. /\ DOMAIN carried = {"lines", "start", "when", "stray", "strayAt", "reported"}
      /\ IsList(carried.lines)
  BY <1>3 DEF Sound
<1>5. \A j : TimeAt(j)' = TimeAt(j) /\ LastBefore(j)' = LastBefore(j)
  BY <1>1, TimesStay
<1>6. /\ IsList(entry) /\ \A e \in Range(entry) : e.says = TimeAt(e.loc[1] - 1)
      /\ IsList(strays) /\ \A e \in Range(strays) : e.kind # "prompt.history"
  <2>1. \A e \in Range(entry) : e.says = TimeAt(e.loc[1] - 1)
    <3>1. \A e \in Range(entry) : e.says = carried.when /\ e.loc[1] = carried.start /\ carried.lines # <<>>
      BY EntrySays
    <3> QED
      BY <1>3, <3>1
  <2>2. IsList(entry)
    BY EntrySays
  <2>3. IsList(strays) /\ \A e \in Range(strays) : e.kind # "prompt.history"
    BY UnreadableSays DEF His!Strays
  <2> QED
    BY <2>1, <2>2, <2>3
<1> HIDE DEF entry, strays
<1>7. /\ next.carried.when = TimeAt(start1 - 1)
      /\ next.events \in {entry, strays, entry \o strays}
  <2>1. CASE Element # Blank /\ Element.is = "content"
    <3> DEFINE lines1 == Append(carried.lines, Element)
    <3>1. /\ next.events = strays /\ next.carried.when = carried.when
          /\ next.carried.lines = lines1
          /\ next.carried.start = start
      BY <1>4, <2>1 DEF His!TakePrompt, His!Answer, His!NoStrays, strays
    <3>2. lines1 # <<>>
      BY <1>4, WeightAppends
    <3> HIDE DEF lines1, next
    <3> QED
      BY <1>3, <3>1, <3>2
  <2>2. CASE ~(Element # Blank /\ Element.is = "content")
    <3> DEFINE stray == Element # Blank /\ Element.is # "stamp"
               when1 == IF stray \/ Element = Blank THEN Null ELSE Element.when
    <3>1. next.carried.when = when1
      BY <1>4, <2>2 DEF His!TakePrompt, His!Answer, His!NoStrays
    <3>2. next.carried.lines = <<>>
      BY <1>4, <2>2 DEF His!TakePrompt, His!Answer, His!NoStrays
    <3>3. next.events = entry \/ next.events = entry \o strays
      BY <1>4, <2>2 DEF His!TakePrompt, His!Answer, His!NoStrays, strays, entry
    <3>4. TimeAt(at) = when1
      BY <1>2 DEF TimeAt
    <3>5. start1 - 1 = at
      BY <1>2, <3>2
    <3> HIDE DEF next, when1, start1
    <3>6. TimeAt(start1 - 1) = TimeAt(at)
      BY <3>5
    <3> QED
      BY <3>1, <3>3, <3>4, <3>6
  <2> QED
    BY <2>1, <2>2
<1> HIDE DEF next
<1>8. \A e \in Range(events') : e.kind = "prompt.history" => e.says = TimeAt(e.loc[1] - 1)
  <2>1. /\ IsList(entry \o strays) /\ Range(entry \o strays) = Range(entry) \cup Range(strays)
    BY <1>6, ListsJoin
  <2>2. IsList(next.events) /\ Range(next.events) \subseteq Range(entry) \cup Range(strays)
    BY <1>6, <1>7, <2>1
  <2>3. Range(events') = Range(events) \cup Range(next.events)
    BY <1>1, <1>3, <2>2, ListsJoin
  <2> QED
    BY <1>3, <1>6, <2>2, <2>3
<1>9. carried'.when = TimeAt((IF carried'.lines = <<>> THEN at' ELSE carried'.start) - 1)
  BY <1>1, <1>7
<1> QED
  BY <1>1, <1>5, <1>8, <1>9 DEF ReadTimes

(* The file when it is opened.                                             *)
LEMMA TimesAtFirst ==
    ASSUME Opened, format \in Gathered, Open
    PROVE  ReadTimes'
<1>1. /\ at' = 1 /\ carried' = StartOf /\ events' = Preface /\ format' = format /\ lines' = lines
  BY DEF Open
<1>4. \A j : TimeAt(j)' = TimeAt(j) /\ LastBefore(j)' = LastBefore(j)
  BY <1>1, TimesStay
<1>2. CASE format = "bash"
  <2>1. Preface = <<>> /\ StartOf.when = Null
    BY <1>2 DEF Preface, StartOf, His!Idle
  <2>2. LastBefore(1) = 0 /\ TimeAt(0) = Null
    <3>1. FilledBefore(1) \cup {0} = {0}
      BY DEF FilledBefore
    <3>2. Max({0}) = 0
      BY LargestIs
    <3> QED
      BY <3>1, <3>2 DEF LastBefore, TimeAt
  <2>3. carried'.when = TimeAt(LastBefore(1))
    BY <1>1, <2>1, <2>2
  <2> QED
    BY <1>1, <1>4, <1>2, <2>1, <2>3, ShortLists DEF ReadTimes
<1>3. CASE format = "prompts"
  <2>1. Preface = <<>> /\ StartOf.when = Null /\ StartOf.lines = <<>>
    BY <1>3 DEF Preface, StartOf, His!IdlePrompt
  <2>2. TimeAt(0) = Null /\ 1 - 1 = 0
    BY DEF TimeAt
  <2>3. carried'.when = TimeAt((IF carried'.lines = <<>> THEN at' ELSE carried'.start) - 1)
    BY <1>1, <2>1, <2>2
  <2> QED
    BY <1>1, <1>4, <1>3, <2>1, <2>3, ShortLists DEF ReadTimes
<1> QED
  BY <1>1, <1>2, <1>3 DEF ReadTimes

(* And when it ends.                                                       *)
LEMMA TimesAtLast ==
    ASSUME Opened, ReadInEntries, ReadTimes, format \in {"bash", "prompts"}, Close
    PROVE  ReadTimes'
<1>1. /\ at = Len(items) + 1 /\ at' = Len(items) + 2 /\ items' = items /\ format' = format /\ lines' = lines
      /\ carried' = carried /\ events' = events \o Finish
  BY DEF Close
<1>2. at > 0 /\ Len(items) \in Nat /\ at \in 1..(Len(items) + 1) /\ format \in Gathered
      /\ ~(at' \in 1..(Len(items') + 1))
  <2>1. Len(items) \in Nat
    BY ItemsList
  <2> QED
    BY <1>1, <2>1 DEF Gathered
<1>3. IsList(events) /\ Sound(format, carried, at)
  BY <1>2 DEF ReadInEntries, Alone
<1>4. \A j : TimeAt(j)' = TimeAt(j) /\ LastBefore(j)' = LastBefore(j)
  BY <1>1, TimesStay
<1>5. CASE format = "bash"
  <2>1. Finish = <<>>
    BY <1>5 DEF Finish
  <2>2. events' = events
    BY <1>1, <1>3, <2>1, ListsJoin, ShortLists
  <2> QED
    BY <1>1, <1>2, <1>4, <1>5, <2>2 DEF ReadTimes
<1>6. CASE format = "prompts"
  <2> DEFINE entry == His!Entry(carried, "prompt.history")
             strays == His!Strays(carried)
             some == \E i \in DOMAIN lines : lines[i] # Blank /\ lines[i].is = "content"
             whole == ~some /\ ~His!NoStrays(carried).reported
             rest == IF whole THEN His!Unreadable(1, lines) ELSE <<>>
  <2>1. Finish = entry \o strays \o rest
    BY <1>6 DEF Finish, His!FinishPrompt, His!When
  <2>2. /\ IsList(strays) /\ \A e \in Range(strays) : e.kind # "prompt.history"
        /\ IsList(rest) /\ \A e \in Range(rest) : e.kind # "prompt.history"
    BY UnreadableSays, ShortLists DEF His!Strays
  <2>3. IsList(entry) /\ \A e \in Range(entry) : e.says = carried.when /\ e.loc[1] = carried.start /\ carried.lines # <<>>
    BY EntrySays
  <2>4. carried.lines # <<>> => carried.when = TimeAt(carried.start - 1)
    BY <1>2, <1>6 DEF ReadTimes
  <2> HIDE DEF entry, strays, rest
  <2>5. IsList(entry \o strays) /\ Range(entry \o strays) = Range(entry) \cup Range(strays)
    BY <2>2, <2>3, ListsJoin
  <2>6. IsList(Finish) /\ Range(Finish) = Range(entry) \cup Range(strays) \cup Range(rest)
    BY <2>1, <2>2, <2>5, ListsJoin
  <2>7. \A e \in Range(Finish) : e.kind = "prompt.history" => e.says = TimeAt(e.loc[1] - 1)
    BY <2>2, <2>3, <2>4, <2>6
  <2>8. Range(events') = Range(events) \cup Range(Finish)
    BY <1>1, <1>3, <2>6, ListsJoin
  <2>9. \A e \in Range(events') : e.kind = "prompt.history" => e.says = TimeAt(e.loc[1] - 1)
    BY <1>2, <1>6, <2>7, <2>8 DEF ReadTimes
  <2> QED
    BY <1>1, <1>2, <1>4, <1>6, <2>9 DEF ReadTimes
<1> QED
  BY <1>5, <1>6

(* So what is told is always told with the time above it.                  *)
LEMMA AlwaysTimes == Spec => []ReadTimes
<1>1. Init => ReadTimes
  BY DEF Init, ReadTimes
<1>2. Opened /\ ReadInEntries /\ ReadTimes /\ [Next]_vars => ReadTimes'
  <2> SUFFICES ASSUME Opened, ReadInEntries, ReadTimes, [Next]_vars PROVE ReadTimes'
    OBVIOUS
  <2>1. CASE UNCHANGED vars
    <3>1. \A j : TimeAt(j)' = TimeAt(j) /\ LastBefore(j)' = LastBefore(j)
      BY <2>1, TimesStay DEF vars
    <3> QED
      BY <2>1, <3>1 DEF ReadTimes, vars
  <2>2. CASE format \notin {"bash", "prompts"}
    BY <2>2, FormatStays DEF ReadTimes
  <2>3. CASE Next /\ format \in {"bash", "prompts"}
    <3>1. format \in Gathered
      BY <2>3 DEF Gathered
    <3>2. CASE Open
      BY <3>1, <3>2, TimesAtFirst
    <3>3. CASE Close
      BY <2>3, <3>3, TimesAtLast
    <3>4. CASE ReadBash
      BY <3>4, BashTimes
    <3>5. CASE ReadPrompts
      BY <3>5, PromptTimes
    <3> QED
      BY <2>3, <3>2, <3>3, <3>4, <3>5, ReaderIs
  <2> QED
    BY <2>1, <2>2, <2>3
<1> QED
  BY <1>1, <1>2, FileOpened, AlwaysInEntries, PTL DEF Spec

(* The time of a command of bash is that of the line before it, of an      *)
(* entry of a prompt history that of the line right above it: a stamp      *)
(* dates one entry and no entry is dated by the stamp of another           *)
(* (shell_history.py _bash, prompt_history.py _prompt_toolkit).            *)
THEOREM AlwaysOwnTime == Spec => []OwnTime
<1>1. Opened /\ ReadTimes => OwnTime
  <2> SUFFICES ASSUME Opened, ReadTimes, NEW i \in DOMAIN events
               PROVE  /\ format = "bash" => events[i].says = TimeAt(LastBefore(events[i].loc[1]))
                      /\ format = "prompts" /\ events[i].kind = "prompt.history" =>
                            events[i].says = TimeAt(events[i].loc[1] - 1)
    BY DEF OwnTime
  <2>1. events[i] \in Range(events)
    BY DEF Range
  <2>2. at > 0
    <3>1. events # <<>>
      BY ShortLists
    <3> QED
      BY <3>1 DEF Opened
  <2> QED
    BY <2>1, <2>2 DEF ReadTimes
<1> QED
  BY <1>1, FileOpened, AlwaysTimes, PTL

(* --------------------------------------------- what a file announces -- *)

(* What a reader carries of what was announced; Gemini announces no        *)
(* directory.                                                              *)
Stamping == {"codex", "copilot", "pi", "gemini"}
Matters == {"session", "cwd"}

InCarried(f, c, what) ==
    IF what = "session" THEN c.session ELSE IF f = "gemini" THEN Null ELSE c.cwd

Carries(f, c) ==
    /\ f = "codex" => DOMAIN c = {"session", "cwd", "branch", "model"}
    /\ f \in {"copilot", "pi"} => DOMAIN c = {"session", "cwd", "model"}

(* What is carried on from an element is what it announces, and otherwise  *)
(* what was carried to it.                                                 *)
Follows(rec, c, d) ==
    /\ Carries(format, d)
    /\ \A what \in Matters :
          InCarried(format, d, what) = IF rec \notin {Blank, Torn} /\ Announces(rec, what)
                                       THEN Announcement(rec, what) ELSE InCarried(format, c, what)

(* An event that says what a reader carries, or is unread.                 *)
StampedBy(e, session, cwd) ==
    e.kind # "unparsed.record" => e.stamp.session = session /\ e.stamp.cwd = cwd

(* What is told is stamped with what was in force, and what is in force is *)
(* carried.                                                                *)
ReadInForce ==
    format \in Stamping /\ at > 0 =>
        /\ \A e \in Range(events) : StampedBy(e, InForce(e.loc[1], "session"), InForce(e.loc[1], "cwd"))
        /\ at \in 1..(Len(items) + 1) =>
              /\ Carries(format, carried)
              /\ \A what \in Matters : InCarried(format, carried, what) = InForce(at - 1, what)

(* What is in force from an element on: what it announces, and otherwise   *)
(* what was in force before it.                                            *)
LEMMA InForceNext ==
    ASSUME NEW n \in Nat \ {0}, NEW what
    PROVE  InForce(n, what) = IF items[n] \notin {Blank, Torn} /\ Announces(items[n], what)
                              THEN Announcement(items[n], what) ELSE InForce(n - 1, what)
<1> DEFINE says == items[n] \notin {Blank, Torn} /\ Announces(items[n], what)
<1>1. CASE ~says
  <2>1. Announcing(n, what) = Announcing(n - 1, what)
    BY <1>1 DEF Announcing
  <2> QED
    BY <1>1, <2>1 DEF InForce
<1>2. CASE says
  <2>1. n \in Announcing(n, what) /\ \A k \in Announcing(n, what) : k <= n /\ k \in Nat
    BY <1>2 DEF Announcing
  <2>2. Max(Announcing(n, what)) = n
    BY <2>1, LargestIs
  <2> QED
    BY <1>2, <2>1, <2>2 DEF InForce
<1> QED
  BY <1>1, <1>2

(* What a file announces does not change while it is read.                 *)
LEMMA InForceStays ==
    ASSUME UNCHANGED <<format, file, items>>
    PROVE  \A i, what : InForce(i, what)' = InForce(i, what)
<1>1. \A rec, what : Announces(rec, what)' = Announces(rec, what) /\ Announcement(rec, what)' = Announcement(rec, what)
  BY DEF Announces, Announcement
<1>2. \A i, what : Announcing(i, what)' = Announcing(i, what)
  BY <1>1 DEF Announcing
<1> SUFFICES ASSUME NEW i, NEW what PROVE InForce(i, what)' = InForce(i, what)
  OBVIOUS
<1>3. Announcing(i, what)' = Announcing(i, what)
  BY <1>2
<1>4. Max(Announcing(i, what)') = Max(Announcing(i, what))
  BY <1>3
<1> QED
  BY <1>1, <1>3, <1>4 DEF InForce

(* A step that carries on and stamps like that.                            *)
LEMMA GoesOnInForce ==
    ASSUME Opened, ReadByElement, ReadInForce, format \in Stamping, Onward,
           NEW evs, events' = events \o evs, IsList(evs), Follows(Element, carried, carried'),
           \A e \in Range(evs) :
               /\ e.loc[1] = at
               /\ StampedBy(e, InCarried(format, carried', "session"), InCarried(format, carried', "cwd"))
    PROVE  ReadInForce'
<1>1. /\ at \in DOMAIN items /\ at' = at + 1 /\ UNCHANGED <<format, file, items>> /\ format \in ByElement
      /\ at \in Nat \ {0} /\ at \in 1..(Len(items) + 1) /\ at' - 1 = at
  <2>1. at \in DOMAIN items /\ at' = at + 1 /\ UNCHANGED <<format, file, items>>
    BY DEF Onward
  <2>2. format \in DOMAIN Elements
    BY DEF Opened, OnDisk
  <2>3. format \in ByElement
    BY <2>2 DEF ByElement, Stamping, Gathered, Whole
  <2>4. DOMAIN items = 1..Len(items) /\ Len(items) \in Nat /\ at \in Nat
    BY ItemsList DEF Stamping, Opened
  <2>5. at \in 1..Len(items) /\ at' = at + 1
    BY <2>1, <2>4
  <2>6. at \in Nat \ {0} /\ at \in 1..(Len(items) + 1) /\ at' - 1 = at
    BY <2>4, <2>5
  <2> QED
    BY <2>1, <2>3, <2>6
<1>2. \A i, what : InForce(i, what)' = InForce(i, what)
  BY <1>1, InForceStays
<1>3. /\ \A e \in Range(events) : StampedBy(e, InForce(e.loc[1], "session"), InForce(e.loc[1], "cwd"))
      /\ \A what \in Matters : InCarried(format, carried, what) = InForce(at - 1, what)
  BY <1>1 DEF ReadInForce
<1>4. Carries(format, carried') /\ \A what \in Matters : InCarried(format, carried', what) = InForce(at, what)
  <2>1. \A what : InForce(at, what) = IF items[at] \notin {Blank, Torn} /\ Announces(items[at], what)
                                      THEN Announcement(items[at], what) ELSE InForce(at - 1, what)
    BY <1>1, InForceNext
  <2> QED
    BY <1>3, <2>1 DEF Follows, Element
<1>5. \A e \in Range(evs) : StampedBy(e, InForce(e.loc[1], "session"), InForce(e.loc[1], "cwd"))
  <2>1. \A e \in Range(evs) : e.loc[1] = at
    OBVIOUS
  <2>2. InCarried(format, carried', "session") = InForce(at, "session")
        /\ InCarried(format, carried', "cwd") = InForce(at, "cwd")
    BY <1>4 DEF Matters
  <2> QED
    BY <2>1, <2>2
<1>6. Range(events') = Range(events) \cup Range(evs)
  BY <1>1, ListsJoin DEF ReadByElement
<1>7. \A e \in Range(events') : StampedBy(e, InForce(e.loc[1], "session"), InForce(e.loc[1], "cwd"))
  BY <1>3, <1>5, <1>6
<1> QED
  BY <1>1, <1>2, <1>4, <1>7 DEF ReadInForce

(* What the readers share is one thing in all of them.                     *)
LEMMA SameReaders ==
    /\ \A r, key : /\ Cdx!Get(r, key) = Get(r, key) /\ Cop!Get(r, key) = Get(r, key)
                   /\ PiA!Get(r, key) = Get(r, key) /\ Gem!Get(r, key) = Get(r, key)
    /\ \A x, y : Cdx!Or(x, y) = Or(x, y) /\ Cop!Or(x, y) = Or(x, y)
    /\ \A x : Cop!Given(x) = Given(x) /\ Gem!Given(x) = Given(x)
<1>1. \A r, key : /\ Cdx!Get(r, key) = Get(r, key) /\ Cop!Get(r, key) = Get(r, key)
                 /\ PiA!Get(r, key) = Get(r, key) /\ Gem!Get(r, key) = Get(r, key)
  BY DEF Get, Cdx!Get, Cop!Get, PiA!Get, Gem!Get
<1>2. \A x, y : Cdx!Or(x, y) = Or(x, y) /\ Cop!Or(x, y) = Or(x, y)
  BY Zenon DEF Or, Said, Cdx!Or, Cdx!Said, Cop!Or, Cop!Said
<1>3. \A x : Cop!Given(x) = Given(x) /\ Gem!Given(x) = Given(x)
  BY DEF Given, Cop!Given, Gem!Given
<1> QED
  BY <1>1, <1>2, <1>3

(* Of a record that is there, each reader carries on what it announces.    *)
LEMMA CodexFollows ==
    ASSUME format = "codex", NEW n, NEW rec, NEW c, Carries("codex", c)
    PROVE  Follows(rec, c, Cdx!Take(n, rec, c).carried)
<1> DEFINE d == Cdx!Take(n, rec, c).carried
<1>0. DOMAIN c = {"session", "cwd", "branch", "model"}
  BY DEF Carries
<1>1. CASE rec \in {Blank, Torn}
  <2>1. d = c
    BY <1>1, Marks DEF Cdx!Take, Cdx!ReadLine
  <2> HIDE DEF d
  <2>2. Follows(rec, c, d)
    BY <1>1, <2>1 DEF Follows
  <2> QED
    BY <2>2 DEF d
<1>2. CASE rec \notin {Blank, Torn}
  <2> DEFINE type == Get(rec, "type")
             payload == Get(rec, "payload")
             id == Get(payload, "id")
             sid == Get(payload, "session_id")
             cwd == Get(payload, "cwd")
  <2>1. d = Cdx!Record(n, rec, c).carried
    BY <1>2 DEF Cdx!Take, Cdx!ReadLine
  <2>2. /\ Announces(rec, "cwd") <=> type \in {"session_meta", "turn_context"} /\ Said(cwd)
        /\ Announces(rec, "session") <=> type = "session_meta" /\ (Said(id) \/ Said(sid))
        /\ Announcement(rec, "cwd") = cwd /\ Announcement(rec, "session") = Or(id, sid)
    BY DEF Announces, Announcement
  <2>3. CASE type = "session_meta"
    <3>1. d.session = Or(id, Or(sid, c.session)) /\ d.cwd = Or(cwd, c.cwd)
          /\ DOMAIN d = {"session", "cwd", "branch", "model"}
      BY <2>1, <2>3, SameReaders DEF Cdx!Record, Cdx!SessionMeta
    <3> HIDE DEF d, type, payload, id, sid, cwd
    <3> QED
      BY <1>2, <2>2, <2>3, <3>1 DEF Follows, Matters, InCarried, Carries, Or, d
  <2>4. CASE type = "turn_context"
    <3>1. d.session = c.session /\ d.cwd = Or(cwd, c.cwd) /\ DOMAIN d = DOMAIN c
      BY <1>0, <2>1, <2>4, SameReaders DEF Cdx!Record, Cdx!TurnContext
    <3> HIDE DEF d, type, payload, id, sid, cwd
    <3> QED
      BY <1>0, <1>2, <2>2, <2>4, <3>1 DEF Follows, Matters, InCarried, Carries, Or, d
  <2>5. CASE type \notin {"session_meta", "turn_context"}
    <3>1. d = c
      BY <2>1, <2>5, SameReaders DEF Cdx!Record
    <3> HIDE DEF d, type, payload, id, sid, cwd
    <3> QED
      BY <2>2, <2>5, <3>1 DEF Follows, Matters, InCarried, d
  <2> QED
    BY <2>3, <2>4, <2>5
<1> QED
  BY <1>1, <1>2

(* Copilot: whatever the record's type.                                    *)
LEMMA CopilotFollows ==
    ASSUME format = "copilot", NEW n, NEW rec, NEW c, Carries("copilot", c)
    PROVE  Follows(rec, c, Cop!Take(n, rec, c).carried)
<1> DEFINE d == Cop!Take(n, rec, c).carried
<1>0. DOMAIN c = {"session", "cwd", "model"}
  BY DEF Carries
<1>1. CASE rec \in {Blank, Torn}
  <2>1. d = c
    BY <1>1, Marks DEF Cop!Take, Cop!ReadLine
  <2> HIDE DEF d
  <2>2. Follows(rec, c, d)
    BY <1>1, <2>1 DEF Follows
  <2> QED
    BY <2>2 DEF d
<1>2. CASE rec \notin {Blank, Torn}
  <2> DEFINE data == Get(rec, "data")
             kept == IF Given(data) THEN rec.data ELSE Null
             sid == Get(data, "sessionId")
             cwd == Get(data, "cwd")
             dir == Get(data, "workingDirectory")
  <2>1. d = Cop!Update(kept, c)
    BY <1>2, SameReaders DEF Cop!Take, Cop!ReadLine, Cop!Record
  <2>2. \A key : Get(kept, key) = Get(data, key)
    BY DEF Get, Given
  <2>3. /\ Announces(rec, "cwd") <=> Said(cwd) \/ Said(dir)
        /\ Announces(rec, "session") <=> Said(sid)
        /\ Announcement(rec, "cwd") = Or(cwd, dir) /\ Announcement(rec, "session") = sid
    BY DEF Announces, Announcement
  <2>4. /\ d.session = Or(Get(kept, "sessionId"), c.session)
        /\ d.cwd = Or(Get(kept, "cwd"), Or(Get(kept, "workingDirectory"), c.cwd))
        /\ DOMAIN d = {"session", "cwd", "model"}
    <3> HIDE DEF kept
    <3> QED
      BY <2>1, SameReaders DEF Cop!Update
  <2>5. d.session = Or(sid, c.session) /\ d.cwd = Or(cwd, Or(dir, c.cwd))
    BY <2>2, <2>4
  <2> HIDE DEF d, data, kept, sid, cwd, dir
  <2> QED
    BY <1>2, <2>3, <2>4, <2>5 DEF Follows, Matters, InCarried, Carries, Or, d
<1> QED
  BY <1>1, <1>2

(* Pi: the newest session replaces the one before with all that it had.    *)
LEMMA PiFollows ==
    ASSUME format = "pi", NEW n, NEW rec, NEW c, Carries("pi", c)
    PROVE  Follows(rec, c, PiA!Take(n, rec, c).carried)
<1> DEFINE d == PiA!Take(n, rec, c).carried
<1>0. DOMAIN c = {"session", "cwd", "model"}
  BY DEF Carries
<1>1. CASE rec \in {Blank, Torn}
  <2>1. d = c
    BY <1>1, Marks DEF PiA!Take, PiA!ReadLine
  <2> HIDE DEF d
  <2>2. Follows(rec, c, d)
    BY <1>1, <2>1 DEF Follows
  <2> QED
    BY <2>2 DEF d
<1>2. CASE rec \notin {Blank, Torn}
  <2> DEFINE type == Get(rec, "type")
  <2>1. d = PiA!Record(n, rec, c).carried
    BY <1>2 DEF PiA!Take, PiA!ReadLine
  <2>2. /\ \A what : Announces(rec, what) <=> type = "session"
        /\ Announcement(rec, "cwd") = Get(rec, "cwd") /\ Announcement(rec, "session") = Get(rec, "id")
    BY DEF Announces, Announcement
  <2> DEFINE began == PiA!Began(rec, c)
             changed == [c EXCEPT !.model = PiA!Get(rec, "modelId")]
             R == PiA!Record(n, rec, c)
  <2>4. \/ PiA!Get(rec, "type") = "session" /\ R.carried = began
        \/ PiA!Get(rec, "type") # "session" /\ (R.carried = c \/ R.carried = changed)
    BY DEF PiA!Record, PiA!Changes
  <2>5. /\ began.session = Get(rec, "id") /\ began.cwd = Get(rec, "cwd") /\ DOMAIN began = DOMAIN c
        /\ changed.session = c.session /\ changed.cwd = c.cwd /\ DOMAIN changed = DOMAIN c
    BY <1>0, SameReaders DEF PiA!Began
  <2> HIDE DEF d, type, began, changed, R
  <2>6. CASE type = "session"
    <3>1. d = began
      BY <2>1, <2>4, <2>6, SameReaders DEF R, type
    <3> QED
      BY <1>0, <1>2, <2>2, <2>5, <2>6, <3>1 DEF Follows, Matters, InCarried, Carries, d
  <2>7. CASE type # "session"
    <3>1. d = c \/ d = changed
      BY <2>1, <2>4, <2>7, SameReaders DEF R, type
    <3> QED
      BY <1>0, <2>2, <2>5, <2>7, <3>1 DEF Follows, Matters, InCarried, Carries, d
  <2> QED
    BY <2>6, <2>7
<1> QED
  BY <1>1, <1>2

(* Gemini: a header, which is neither a rewind, nor a message, nor an      *)
(* update, although it may have what they have too.                        *)
LEMMA GeminiFollows ==
    ASSUME format = "gemini", NEW n, NEW rec, NEW c
    PROVE  Follows(rec, c, Gem!Take(n, rec, c).carried)
<1> DEFINE d == Gem!Take(n, rec, c).carried
<1>1. CASE rec \in {Blank, Torn}
  <2>1. d = c
    BY <1>1, Marks DEF Gem!Take, Gem!ReadLine
  <2> HIDE DEF d
  <2>2. Follows(rec, c, d)
    BY <1>1, <2>1 DEF Follows, Carries
  <2> QED
    BY <2>2 DEF d
<1>2. CASE rec \notin {Blank, Torn}
  <2> DEFINE header == /\ Given(Get(rec, "sessionId")) /\ Given(Get(rec, "projectHash"))
                       /\ ~Given(Get(rec, "$rewindTo")) /\ ~Given(Get(rec, "id")) /\ ~Given(Get(rec, "$set"))
  <2>1. d = Gem!Record(n, rec, c).carried
    BY <1>2 DEF Gem!Take, Gem!ReadLine
  <2>2. (Announces(rec, "session") <=> header) /\ ~Announces(rec, "cwd") /\ Announcement(rec, "session") = rec.sessionId
    BY DEF Announces, Announcement
  <2>3. d.session = IF header THEN rec.sessionId ELSE c.session
    BY <2>1, SameReaders DEF Gem!Record, Gem!Header
  <2> HIDE DEF d, header
  <2> QED
    BY <1>2, <2>2, <2>3 DEF Follows, Matters, InCarried, Carries, d
<1> QED
  BY <1>1, <1>2

(* And what is told is stamped with it.                                    *)
LEMMA AnswersStamped ==
    ASSUME NEW evs, NEW stamp, evs = <<>> \/ Answers(evs, at, stamp)
    PROVE  IsList(evs) /\ \A e \in Range(evs) : e.loc[1] = at /\ StampedBy(e, stamp.session, stamp.cwd)
<1>1. Answers(evs, at, stamp) => IsList(evs) /\ \A e \in Range(evs) : e.loc[1] = at /\ StampedBy(e, stamp.session, stamp.cwd)
  BY DEF Answers, Tells, Own, StampedBy
<1> QED
  BY <1>1, ShortLists

(* So a step of one of these readers carries on and stamps.                *)
LEMMA StepsInForce ==
    ASSUME Opened, ReadByElement, ReadInForce, ReadCodex \/ ReadCopilot \/ ReadPi \/ ReadGemini
    PROVE  ReadInForce'
<1>0. at \in DOMAIN items /\ Onward /\ format \in Stamping
  BY DEF Read, ReadCodex, ReadCopilot, ReadPi, ReadGemini, Onward, Stamping
<1>1. Carries(format, carried)
  <2>1. DOMAIN items = 1..Len(items) /\ Len(items) \in Nat
    BY <1>0, ItemsList DEF Stamping
  <2>2. at > 0 /\ at \in 1..(Len(items) + 1)
    BY <1>0, <2>1
  <2> QED
    BY <1>0, <2>2 DEF ReadInForce
<1>2. CASE ReadCodex
  <2> DEFINE next == Cdx!Take(at, Element, carried)
             evs == next.events
             d == next.carried
             stamp == Cdx!Stamp(d)
  <2>1. format = "codex" /\ events' = events \o evs /\ carried' = d
    BY <1>2 DEF ReadCodex, Read
  <2>2. Follows(Element, carried, d)
    BY <1>1, <2>1, CodexFollows
  <2>3. stamp.session = InCarried(format, d, "session") /\ stamp.cwd = InCarried(format, d, "cwd")
    BY <2>1 DEF Cdx!Stamp, InCarried
  <2>4. evs = <<>> \/ Answers(evs, at, stamp)
    <3>1. Element = Blank => evs = <<>>
      BY Marks DEF Cdx!Take, Cdx!ReadLine
    <3> QED
      BY <3>1, CodexTells
  <2> HIDE DEF next, evs, d, stamp
  <2>5. IsList(evs) /\ \A e \in Range(evs) : e.loc[1] = at /\ StampedBy(e, stamp.session, stamp.cwd)
    BY <2>4, AnswersStamped
  <2> QED
    BY <1>0, <2>1, <2>2, <2>3, <2>5, GoesOnInForce
<1>3. CASE ReadCopilot
  <2> DEFINE next == Cop!Take(at, Element, carried)
             evs == next.events
             d == next.carried
             stamp == Cop!Stamp(d)
  <2>1. format = "copilot" /\ events' = events \o evs /\ carried' = d
    BY <1>3 DEF ReadCopilot, Read
  <2>2. Follows(Element, carried, d)
    BY <1>1, <2>1, CopilotFollows
  <2>3. stamp.session = InCarried(format, d, "session") /\ stamp.cwd = InCarried(format, d, "cwd")
    BY <2>1 DEF Cop!Stamp, InCarried
  <2>4. evs = <<>> \/ Answers(evs, at, stamp)
    <3>1. Element = Blank => evs = <<>>
      BY Marks DEF Cop!Take, Cop!ReadLine
    <3> QED
      BY <3>1, CopilotTells
  <2> HIDE DEF next, evs, d, stamp
  <2>5. IsList(evs) /\ \A e \in Range(evs) : e.loc[1] = at /\ StampedBy(e, stamp.session, stamp.cwd)
    BY <2>4, AnswersStamped
  <2> QED
    BY <1>0, <2>1, <2>2, <2>3, <2>5, GoesOnInForce
<1>4. CASE ReadPi
  <2> DEFINE next == PiA!Take(at, Element, carried)
             evs == next.events
             d == next.carried
             stamp == PiA!Stamp(d)
  <2>1. format = "pi" /\ events' = events \o evs /\ carried' = d
    BY <1>4 DEF ReadPi, Read
  <2>2. Follows(Element, carried, d)
    BY <1>1, <2>1, PiFollows
  <2>3. stamp.session = InCarried(format, d, "session") /\ stamp.cwd = InCarried(format, d, "cwd")
    BY <2>1 DEF PiA!Stamp, InCarried
  <2>4. evs = <<>> \/ Answers(evs, at, stamp)
    <3>1. Element = Blank => evs = <<>>
      BY Marks DEF PiA!Take, PiA!ReadLine
    <3>2. Element \notin {Blank, Torn} => AList(Get(Get(Element, "message"), "content"))
      <4>1. Element \notin {Blank, Torn} => Fits("pi", Element)
        BY <1>0, <2>1, ElementIs
      <4> QED
        BY <4>1 DEF Fits
    <3> QED
      BY <3>1, <3>2, PiTells
  <2> HIDE DEF next, evs, d, stamp
  <2>5. IsList(evs) /\ \A e \in Range(evs) : e.loc[1] = at /\ StampedBy(e, stamp.session, stamp.cwd)
    BY <2>4, AnswersStamped
  <2> QED
    BY <1>0, <2>1, <2>2, <2>3, <2>5, GoesOnInForce
<1>5. CASE ReadGemini
  <2> DEFINE next == Gem!Take(at, Element, carried)
             evs == next.events
             d == next.carried
             stamp == Gem!Stamp(d)
  <2>1. format = "gemini" /\ events' = events \o evs /\ carried' = d
    BY <1>5 DEF ReadGemini, Read
  <2>2. Follows(Element, carried, d)
    BY <2>1, GeminiFollows
  <2>3. stamp.session = InCarried(format, d, "session") /\ stamp.cwd = InCarried(format, d, "cwd")
    BY <2>1 DEF Gem!Stamp, Gem!NoStamp, InCarried
  <2>4. evs = <<>> \/ Answers(evs, at, stamp)
    <3>1. Element = Blank => evs = <<>>
      BY Marks DEF Gem!Take, Gem!ReadLine
    <3>2. Element \notin {Blank, Torn} => Fits("gemini", Element)
      BY <1>0, <2>1, ElementIs
    <3>3. Element \notin {Blank, Torn} =>
             /\ AList(Get(Element, "content")) /\ AList(Get(Element, "thoughts"))
             /\ AList(Get(Element, "toolCalls"))
      BY <3>2 DEF Fits
    <3> QED
      BY <3>1, <3>3, GeminiTells
  <2> HIDE DEF next, evs, d, stamp
  <2>5. IsList(evs) /\ \A e \in Range(evs) : e.loc[1] = at /\ StampedBy(e, stamp.session, stamp.cwd)
    BY <2>4, AnswersStamped
  <2> QED
    BY <1>0, <2>1, <2>2, <2>3, <2>5, GoesOnInForce
<1> QED
  BY <1>2, <1>3, <1>4, <1>5

(* Such a file when it is opened, and when it ends.                        *)
LEMMA EndsInForce ==
    ASSUME Opened, ReadByElement, ReadInForce, format \in Stamping, Open \/ Close
    PROVE  ReadInForce'
<1>0. UNCHANGED <<format, file>> /\ format \in ByElement
  <2>1. format \in DOMAIN Elements
    BY DEF Opened, OnDisk
  <2> QED
    BY <2>1 DEF Open, Close, ByElement, Stamping, Gathered, Whole
<1>1. Preface = <<>>
  BY DEF Preface, Stamping
<1>2. /\ IsList(Finish) /\ \A e \in Range(Finish) : e.kind = "unparsed.record"
  <2> DEFINE one == <<Ev(0, "file", 0, "unparsed.record", Null, NoStamp, Null)>>
  <2>1. Finish = <<>> \/ Finish = one
    <3>1. CASE format = "codex"
      BY <3>1 DEF Finish, Cdx!Finish, Cdx!Unparsed, Cdx!Ev, Ev, Cdx!NoStamp, NoStamp
    <3>2. CASE format # "codex"
      BY <3>2 DEF Finish, Stamping
    <3> QED
      BY <3>1, <3>2
  <2>2. IsList(one) /\ \A e \in Range(one) : e.kind = "unparsed.record"
    BY ShortLists DEF Ev
  <2> HIDE DEF one
  <2> QED
    BY <2>1, <2>2, ShortLists
<1>3. CASE Open
  <2>1. at' = 1 /\ items' = Items /\ carried' = StartOf /\ events' = Preface
    BY <1>3 DEF Open
  <2>2. /\ Carries(format, StartOf)
        /\ StartOf.session = IF format = "copilot" THEN Or(file.directory, Null) ELSE Null
        /\ format # "gemini" => StartOf.cwd = Null
    <3>1. CASE format = "codex"
      <4>1. StartOf = Cdx!Start
        BY <3>1 DEF StartOf
      <4> QED
        BY <3>1, <4>1 DEF Cdx!Start, Carries
    <3>2. CASE format = "copilot"
      <4>1. StartOf = Cop!Start(file.directory)
        BY <3>2 DEF StartOf
      <4> QED
        BY <3>2, <4>1, SameReaders DEF Cop!Start, Carries
    <3>3. CASE format = "pi"
      <4>1. StartOf = PiA!Start
        BY <3>3 DEF StartOf
      <4> QED
        BY <3>3, <4>1 DEF PiA!Start, Carries
    <3>4. CASE format = "gemini"
      <4>1. StartOf = Gem!Start
        BY <3>4 DEF StartOf
      <4> QED
        BY <3>4, <4>1 DEF Gem!Start, Carries
    <3> QED
      BY <3>1, <3>2, <3>3, <3>4 DEF Stamping
  <2>3. \A n, what : n = 0 => InForce(n, what)' = IF format = "copilot" /\ what = "session" THEN Or(file.directory, Null) ELSE Null
    <3>1. \A n, what : n = 0 => Announcing(n, what)' = {}
      BY DEF Announcing
    <3> QED
      BY <1>0, <3>1 DEF InForce
  <2>4. \A what \in Matters :
           InCarried(format, carried', what) = IF format = "copilot" /\ what = "session" THEN Or(file.directory, Null) ELSE Null
    BY <2>1, <2>2 DEF Matters, InCarried
  <2>5. at' - 1 = 0 /\ Range(events') = {}
    BY <1>1, <2>1, ShortLists
  <2>6. Carries(format, carried')
    BY <2>1, <2>2
  <2> QED
    BY <1>0, <2>3, <2>4, <2>5, <2>6 DEF ReadInForce
<1>4. CASE Close
  <2>1. at = Len(items) + 1 /\ at' = Len(items) + 2 /\ items' = items /\ events' = events \o Finish
    BY <1>4 DEF Close
  <2>2. Len(items) \in Nat
    BY ItemsList DEF Stamping
  <2>3. at > 0 /\ ~(at' \in 1..(Len(items') + 1))
    BY <2>1, <2>2
  <2>4. Range(events') = Range(events) \cup Range(Finish)
    BY <1>0, <1>2, <2>1, ListsJoin DEF ReadByElement
  <2>5. \A i, what : InForce(i, what)' = InForce(i, what)
    BY <1>0, <2>1, InForceStays
  <2>6. \A e \in Range(events') : StampedBy(e, InForce(e.loc[1], "session"), InForce(e.loc[1], "cwd"))
    BY <1>2, <2>3, <2>4 DEF ReadInForce, StampedBy
  <2> QED
    BY <1>0, <2>3, <2>5, <2>6 DEF ReadInForce
<1> QED
  BY <1>3, <1>4

(* So what is told is always stamped with what was in force.               *)
LEMMA AlwaysInForce == Spec => []ReadInForce
<1>1. Init => ReadInForce
  BY DEF Init, ReadInForce
<1>2. Opened /\ ReadByElement /\ ReadInForce /\ [Next]_vars => ReadInForce'
  <2> SUFFICES ASSUME Opened, ReadByElement, ReadInForce, [Next]_vars PROVE ReadInForce'
    OBVIOUS
  <2>1. CASE UNCHANGED vars
    <3>1. \A i, what : InForce(i, what)' = InForce(i, what)
      BY <2>1, InForceStays DEF vars
    <3>2. UNCHANGED <<format, items, at, carried, events>>
      BY <2>1 DEF vars
    <3> QED
      BY <3>1, <3>2 DEF ReadInForce
  <2>2. CASE format \notin Stamping
    BY <2>2, FormatStays DEF ReadInForce, Stamping
  <2>3. CASE Next /\ format \in Stamping
    <3>1. CASE Open \/ Close
      BY <2>3, <3>1, EndsInForce
    <3>2. CASE ReadCodex \/ ReadCopilot \/ ReadPi \/ ReadGemini
      BY <3>2, StepsInForce
    <3> QED
      BY <2>3, <3>1, <3>2, ReaderIs DEF Stamping
  <2> QED
    BY <2>1, <2>2, <2>3
<1> QED
  BY <1>1, <1>2, FileOpened, AlwaysByElement, PTL DEF Spec

(* An event is stamped with the session and the directory that the file    *)
(* announced last before it, and with nothing that it announces later      *)
(* (codex.py, copilot.py, pi.py, gemini.py).                               *)
THEOREM AlwaysStampedAsInForce == Spec => []StampedAsInForce
<1>1. Opened /\ ReadInForce => StampedAsInForce
  <2> SUFFICES ASSUME Opened, ReadInForce, format \in Stamping, NEW i \in DOMAIN events,
                      events[i].kind # "unparsed.record"
               PROVE  /\ events[i].stamp.session = InForce(events[i].loc[1], "session")
                      /\ events[i].stamp.cwd = InForce(events[i].loc[1], "cwd")
    BY DEF StampedAsInForce, Stamping
  <2>1. events[i] \in Range(events)
    BY DEF Range
  <2>2. at > 0
    <3>1. events # <<>>
      BY ShortLists
    <3> QED
      BY <3>1 DEF Opened
  <2> QED
    BY <2>1, <2>2 DEF ReadInForce, StampedBy
<1> QED
  BY <1>1, FileOpened, AlwaysInForce, PTL

(* What a record is attributed to, and when it was, is what the file said  *)
(* of it where it stands: not what is said later, nor of another record.   *)
THEOREM AlwaysInForceWhereItStands == Spec => []InForceWhereItStands
<1>1. StampedAsInForce /\ OwnTime => InForceWhereItStands
  BY DEF InForceWhereItStands
<1> QED
  BY <1>1, AlwaysStampedAsInForce, AlwaysOwnTime, PTL

(* ------------------------------------------ what is read as it stands -- *)

(* Of a file that is read as a whole there is one event, but of a          *)
(* manifest: the start of the task, its prompt and its end.                *)
LEMMA WholeIsDistinct ==
    ASSUME format \in Whole
    PROVE  Distinct(Preface) /\ Items = <<>> /\ Finish = <<>>
<1>1. Items = <<>> /\ Finish = <<>>
  BY DEF Items, Finish, Whole
<1>2. CASE format \in {"prose", "git_file", "git_object", "instruction", "memory", "copy", "workspace", "leveldb_file"}
  <2>1. \E e : Preface = <<e>>
    <3>1. CASE format = "prose"
      BY <3>1 DEF Preface, Flo!Prose
    <3>2. CASE format = "git_file"
      BY <3>2 DEF Preface, Git!Bookkeeping
    <3>3. CASE format = "git_object"
      BY <3>3 DEF Preface, Git!Loose
    <3>4. CASE format = "instruction"
      BY <3>4 DEF Preface, Edi!Instruction, Edi!ReadDocument
    <3>5. CASE format = "memory"
      BY <3>5 DEF Preface, Edi!Memory, Edi!ReadDocument
    <3>6. CASE format = "copy"
      BY <3>6 DEF Preface, Edi!SnapshotCopy
    <3>7. CASE format = "workspace"
      BY <3>7 DEF Preface, Edi!WorkspaceDocument
    <3>8. CASE format = "leveldb_file"
      BY <3>8 DEF Preface, Lev!OtherFile, Lev!Note
    <3> QED
      BY <1>2, <3>1, <3>2, <3>3, <3>4, <3>5, <3>6, <3>7, <3>8
  <2> QED
    BY <1>1, <2>1, OneIsDistinct
<1>3. CASE format = "local_history"
  <2>1. \E e : Preface = <<e>>
    <3>1. Preface = Edi!LocalHistory(file, file.index)
      BY <1>3 DEF Preface
    <3>2. \E e : Edi!HistoryIndex(file.index) = <<e>>
      BY DEF Edi!HistoryIndex
    <3>3. \E e : Edi!HistoryCopy(file, file.index) = <<e>>
      BY DEF Edi!HistoryCopy
    <3> QED
      BY <3>1, <3>2, <3>3 DEF Edi!LocalHistory
  <2> QED
    BY <1>1, <2>1, OneIsDistinct
<1>4. CASE format = "git_reference"
  <2>1. \E e : Preface = <<e>>
    <3>1. Preface = Git!Reference(file.path, lines)
      BY <1>4 DEF Preface
    <3>2. \E e : Git!Reference(file.path, lines) = <<e>>
      BY Zenon DEF Git!Reference
    <3> QED
      BY <3>1, <3>2
  <2> QED
    BY <1>1, <2>1, OneIsDistinct
<1>5. CASE format = "manifest"
  <2>1. Preface = Cli!ManifestEvents(file)
    BY <1>5 DEF Preface
  <2> DEFINE a(raw, stamp) == <<Cli!Ev(0, "started_at", 0, "session.start", raw, stamp, Null)>>
             b(raw, stamp) == <<Cli!Ev(0, "prompt", 0, "user.prompt", raw, stamp, Null)>>
             c(raw, stamp) == <<Cli!Ev(0, "ended_at", 0, "session.end", raw, stamp, Null)>>
             d(stamp) == <<Cli!Unparsed(0, "document", 0, Null, stamp)>>
  <2>2. \E x, y, z, p, q : Cli!ManifestEvents(file) \in {d(z), (a(x, z) \o When(p, b(y, z))) \o When(q, c(x, z))}
    BY Zenon DEF Cli!ManifestEvents, Cli!When, When, Cli!Unread
  <2>3. ASSUME NEW x, NEW y, NEW z, NEW p, NEW q
        PROVE  Distinct((a(x, z) \o When(p, b(y, z))) \o When(q, c(x, z)))
    <3>1. /\ Tells(a(x, z), 0, {"started_at"}, z) /\ Tells(b(y, z), 0, {"prompt"}, z)
          /\ Tells(c(x, z), 0, {"ended_at"}, z)
      BY EvTells DEF Cli!Ev, Ev
    <3> HIDE DEF a, b, c, d
    <3>2. Tells(When(p, b(y, z)), 0, {"prompt"}, z) /\ Tells(When(q, c(x, z)), 0, {"ended_at"}, z)
      BY <3>1, TellsWhen
    <3>3. Tells((a(x, z) \o When(p, b(y, z))) \o When(q, c(x, z)), 0, ({"started_at"} \cup {"prompt"}) \cup {"ended_at"}, z)
      BY <3>1, <3>2, TellsThree
    <3> QED
      BY <3>3 DEF Tells, Own, Distinct
  <2>4. \A z : Distinct(d(z))
    BY OneIsDistinct
  <2> HIDE DEF a, b, c, d
  <2> QED
    BY <1>1, <2>1, <2>2, <2>3, <2>4
<1> QED
  BY <1>2, <1>3, <1>4, <1>5 DEF Whole

(* What there is to read of a record of a log.                             *)
LEMMA EntriesList ==
    ASSUME NEW body, IsList(body)
    PROVE  LET entries == Lev!EntriesOf(body)
           IN  /\ IsList(entries) /\ Len(entries) <= Len(body)
               /\ \A j \in 1..Len(entries) : entries[j] = body[j]
<1> DEFINE stops == {i \in DOMAIN body : body[i].is \in {"odd", "short"}}
           end == CHOOSE i \in stops : \A j \in stops : i <= j
<1>1. DOMAIN body = 1..Len(body) /\ Len(body) \in Nat
  BY ListFacts
<1>2. CASE stops = {}
  <2>1. Lev!EntriesOf(body) = body
    BY <1>2 DEF Lev!EntriesOf
  <2> QED
    BY <1>1, <2>1
<1>3. CASE stops # {}
  <2>1. stops \in SUBSET Nat /\ stops \subseteq 1..Len(body)
    BY <1>1
  <2> HIDE DEF stops
  <2>2. \E i \in stops : \A j \in stops : i <= j
    BY <1>3, <2>1, LeastOf
  <2>3. end \in stops
    BY <2>2
  <2>4. Lev!EntriesOf(body) = SubSeq(body, 1, end - 1)
    BY <1>3 DEF Lev!EntriesOf, stops
  <2> HIDE DEF end
  <2>5. end - 1 \in 0..Len(body)
    BY <1>1, <2>1, <2>3
  <2> DEFINE s == SubSeq(body, 1, end - 1)
  <2>6. IsList(s) /\ Len(s) = end - 1 /\ \A i \in 1..(end - 1) : s[i] = body[i]
    BY <2>5, BeginningOf
  <2> HIDE DEF s
  <2>7. Lev!EntriesOf(body) = s
    BY <2>4 DEF s
  <2>8. Len(s) <= Len(body) /\ \A j \in 1..Len(s) : s[j] = body[j]
    BY <1>1, <2>5, <2>6
  <2> QED
    BY <2>6, <2>7, <2>8
<1> QED
  BY <1>2, <1>3

(* What the reader of a log carries.                                       *)
LogFields == {"pending", "started", "seen", "cut", "done", "said"}

(* What is told of a record of a log: its entries are at the place where   *)
(* it begins, and that it is malformed is said of the file, and only of    *)
(* one that is complete. *)
BatchAt(batch, n, complete, c) ==
    /\ Distinct(batch.events)
    /\ \A e \in Range(batch.events) : e.loc[1] = n \/ (e.loc[1] = 0 /\ batch.carried.said)
    /\ DOMAIN batch.carried = LogFields /\ batch.carried.seen \in 0..MaxRecords
    /\ batch.carried.pending = c.pending /\ batch.carried.started = c.started
    /\ batch.carried.said => batch.carried.done /\ complete

(* A log's reader flattens lists as any does.                              *)
LEMMA LogsFlatten == \A u : Lev!Flattened(u) = FlattenSeq(u)
BY DEF Lev!Flattened, FlattenSeq

(* That is what is told of it.                                             *)
LEMMA BatchTells ==
    ASSUME NEW n, n # 0, NEW body, IsList(body), NEW complete, NEW c,
           DOMAIN c = LogFields, c.seen \in 0..MaxRecords,
           NEW batch, batch = Lev!Batch(n, body, complete, c)
    PROVE  BatchAt(batch, n, complete, c)
<1> DEFINE room == MaxRecords - c.seen
           entries == Lev!EntriesOf(body)
           read == IF Len(entries) <= room THEN entries ELSE SubSeq(entries, 1, room)
           u == [i \in DOMAIN read |-> <<Lev!Ev(n, "record", i - 1, "unparsed.record", read[i], Lev!NoStamp, read[i].is)>>]
           full == Len(entries) > room
           broken == ~full /\ Lev!Malformed(body, complete)
           note == Lev!When(broken, Lev!Note("stopped"))
<1>1. MaxRecords \in Nat /\ room \in Nat
  BY Bounds
<1>2. IsList(entries)
  BY EntriesList
<1>3. IsList(read) /\ Len(read) \in 0..room
  <2> HIDE DEF entries, room
  <2> QED
    BY <1>1, <1>2, RoomFor
<1>4. /\ batch.events = FlattenSeq(u) \o note
      /\ batch.carried = [c EXCEPT !.seen = @ + Len(read), !.cut = ~full /\ (@ \/ ~complete),
                                   !.done = full \/ broken, !.said = broken]
  BY LogsFlatten, Zenon DEF Lev!Batch, Lev!Each
<1>5. Tells(FlattenSeq(u), n, {"record"}, Lev!NoStamp)
  <2> HIDE DEF read
  <2>1. DOMAIN read = 1..Len(read)
    BY <1>3, ListFacts
  <2>2. ASSUME NEW i \in 1..Len(read)
        PROVE  TellsOf(u[i], n, {"record"}, i - 1, Lev!NoStamp)
    <3>1. u[i] = <<Ev(n, "record", i - 1, "unparsed.record", read[i], Lev!NoStamp, read[i].is)>>
      BY <2>1 DEF Lev!Ev, Ev
    <3> HIDE DEF u
    <3> QED
      BY <3>1, EvTells
  <2>3. u = [i \in DOMAIN read |-> u[i]]
    BY Zenon
  <2> HIDE DEF u
  <2> QED
    BY <1>3, <2>2, <2>3, EachTells
<1>6. Distinct(note) /\ \A e \in Range(note) : e.loc[1] = 0 /\ broken
  <2>1. CASE broken
    <3> DEFINE x == Lev!Ev(0, "file", 0, "unparsed.record", Null, Lev!NoStamp, "stopped")
    <3>1. note = <<x>> /\ x.loc[1] = 0
      BY <2>1 DEF Lev!When, Lev!Note, Lev!Ev
    <3> HIDE DEF x
    <3> QED
      BY <2>1, <3>1, OneIsDistinct, ShortLists
  <2>2. CASE ~broken
    <3>1. note = <<>>
      BY <2>2 DEF Lev!When
    <3> QED
      BY <3>1, OneIsDistinct, ShortLists
  <2> QED
    BY <2>1, <2>2
<1>7. /\ DOMAIN batch.carried = LogFields /\ batch.carried.seen = c.seen + Len(read)
      /\ batch.carried.pending = c.pending /\ batch.carried.started = c.started
  <2> HIDE DEF read, full, broken
  <2> QED
    BY <1>4 DEF LogFields
<1>8. (batch.carried.said <=> broken) /\ (broken => batch.carried.done)
  <2> HIDE DEF read, full, broken
  <2>1. batch.carried.said = broken /\ batch.carried.done = (full \/ broken)
    BY <1>4 DEF LogFields
  <2> QED
    BY <2>1
<1>9. broken => complete
  BY DEF Lev!Malformed
<1> HIDE DEF u, note, broken
<1>10. c.seen + Len(read) \in 0..MaxRecords
  <2>1. Len(read) \in 0..(MaxRecords - c.seen)
    BY <1>3
  <2> HIDE DEF read
  <2> QED
    BY <1>1, <2>1
<1>11. Distinct(FlattenSeq(u)) /\ \A e \in Range(FlattenSeq(u)) : e.loc[1] = n
  BY <1>5 DEF Tells, Own, Distinct
<1>12. Apart(FlattenSeq(u), note)
  BY <1>6, <1>11 DEF Apart, Identity
<1>13. Distinct(batch.events) /\ Range(batch.events) = Range(FlattenSeq(u)) \cup Range(note)
  BY <1>4, <1>6, <1>11, <1>12, DistinctJoin
<1> HIDE DEF read
<1>14. \A e \in Range(batch.events) : e.loc[1] = n \/ (e.loc[1] = 0 /\ batch.carried.said)
  BY <1>6, <1>8, <1>11, <1>13
<1> QED
  BY <1>7, <1>8, <1>9, <1>10, <1>13, <1>14 DEF BatchAt

(* What is carried of a log of a store, and of a table of it, and where    *)
(* what was told so far is.  That reading ended is told of the file as     *)
(* such, once.                                                             *)
LogSound(c, evs, n) ==
    /\ DOMAIN c = LogFields /\ c.seen \in 0..MaxRecords /\ IsList(c.pending)
    /\ c.said => c.done
    /\ \A e \in Range(evs) : e.loc[1] \in 0..(n - 1) /\ (e.loc[1] = 0 => c.said)
    /\ c.pending # <<>> => c.started \in 1..(n - 1) /\ \A e \in Range(evs) : e.loc[1] # c.started

TableSound(c, evs, n) ==
    /\ DOMAIN c = {"seen", "done", "said"} /\ c.seen \in 0..MaxRecords
    /\ c.said => c.done
    /\ \A e \in Range(evs) : e.loc[1] \in 0..(n - 1) /\ (e.loc[1] = 0 => c.said)

(* A batch after others, at a place where nothing is told yet.             *)
LEMMA BatchAfter ==
    ASSUME NEW evs, Distinct(evs), NEW n \in Nat \ {0}, NEW c, LogSound(c, evs, n),
           NEW s \in 1..n, \A e \in Range(evs) : e.loc[1] # s,
           NEW body, IsList(body), NEW complete, NEW result, result = Lev!Batch(s, body, complete, c),
           ~c.done, c.pending = <<>> \/ c.started # s
    PROVE  Distinct(evs \o result.events) /\ LogSound(result.carried, evs \o result.events, n + 1)
<1> DEFINE all == evs \o result.events
<1>1. /\ Distinct(result.events)
      /\ \A e \in Range(result.events) : e.loc[1] = s \/ (e.loc[1] = 0 /\ result.carried.said)
      /\ DOMAIN result.carried = LogFields /\ result.carried.seen \in 0..MaxRecords
      /\ result.carried.pending = c.pending /\ result.carried.started = c.started
      /\ result.carried.said => result.carried.done /\ complete
  <2>1. s # 0 /\ DOMAIN c = LogFields /\ c.seen \in 0..MaxRecords
    BY DEF LogSound
  <2>2. BatchAt(result, s, complete, c)
    BY <2>1, BatchTells
  <2> QED
    BY <2>2 DEF BatchAt
<1>2. ~c.said
  BY DEF LogSound
<1>3. \A e \in Range(evs) : e.loc[1] \in 1..(n - 1)
  <2>1. \A e \in Range(evs) : e.loc[1] \in 0..(n - 1) /\ e.loc[1] # 0
    BY <1>2 DEF LogSound
  <2> QED
    BY <2>1
<1>4. Apart(evs, result.events)
  <2>1. \A x \in Range(evs), y \in Range(result.events) : x.loc[1] # y.loc[1]
    BY <1>1, <1>3
  <2> QED
    BY <2>1 DEF Apart, Identity
<1>5. Distinct(all) /\ Range(all) = Range(evs) \cup Range(result.events)
  BY <1>1, <1>4, DistinctJoin
<1> HIDE DEF all
<1>6. \A e \in Range(all) : e.loc[1] \in 0..(n + 1 - 1) /\ (e.loc[1] = 0 => result.carried.said)
  <2>1. 1..(n - 1) \subseteq 0..(n + 1 - 1) /\ s \in 0..(n + 1 - 1) /\ 0 \in 0..(n + 1 - 1) /\ s # 0 /\ 0 \notin 1..(n - 1)
    OBVIOUS
  <2> QED
    BY <1>1, <1>3, <1>5, <2>1
<1>7. c.pending # <<>> => c.started \in 1..(n + 1 - 1) /\ \A e \in Range(all) : e.loc[1] # c.started
  <2> SUFFICES ASSUME c.pending # <<>> PROVE c.started \in 1..(n + 1 - 1) /\ \A e \in Range(all) : e.loc[1] # c.started
    OBVIOUS
  <2>1. c.started \in 1..(n - 1) /\ \A e \in Range(evs) : e.loc[1] # c.started
    BY DEF LogSound
  <2>2. c.started \in 1..(n + 1 - 1) /\ c.started # 0 /\ c.started # s
    BY <2>1
  <2> QED
    BY <1>1, <1>5, <2>1, <2>2
<1>8. IsList(c.pending)
  BY DEF LogSound
<1> QED
  BY <1>1, <1>5, <1>6, <1>7, <1>8 DEF LogSound, all

(* What is gathered of a record while nothing is told.                     *)
LEMMA GathersMore ==
    ASSUME NEW evs, NEW n \in Nat \ {0}, NEW c, LogSound(c, evs, n),
           NEW d, DOMAIN d = LogFields, d.seen = c.seen, d.said = c.said, d.done = c.done,
           IsList(d.pending),
           d.pending # <<>> => d.started = n \/ (d.started = c.started /\ c.pending # <<>>)
    PROVE  LogSound(d, evs, n + 1)
<1>1. 0..(n - 1) \subseteq 0..(n + 1 - 1) /\ 1..(n - 1) \subseteq 1..(n + 1 - 1) /\ n \in 1..(n + 1 - 1) /\ n \notin 0..(n - 1)
  OBVIOUS
<1>2. \A e \in Range(evs) : e.loc[1] \in 0..(n + 1 - 1) /\ e.loc[1] # n /\ (e.loc[1] = 0 => d.said)
  BY <1>1 DEF LogSound
<1>3. d.pending # <<>> => d.started \in 1..(n + 1 - 1) /\ \A e \in Range(evs) : e.loc[1] # d.started
  BY <1>1, <1>2 DEF LogSound
<1>4. d.seen \in 0..MaxRecords /\ (d.said => d.done)
  BY DEF LogSound
<1> QED
  BY <1>2, <1>3, <1>4 DEF LogSound

(* A fragment that tells nothing.                                          *)
LEMMA NoBatch ==
    ASSUME NEW evs, Distinct(evs), NEW n, NEW d, LogSound(d, evs, n),
           NEW result, result.carried = d, result.events = <<>>
    PROVE  Distinct(evs \o result.events) /\ LogSound(result.carried, evs \o result.events, n)
<1>1. evs \o <<>> = evs
  BY ShortLists, ListsJoin DEF Distinct
<1> QED
  BY <1>1

(* A fragment of a log.                                                    *)
LEMMA FragmentTells ==
    ASSUME NEW evs, Distinct(evs), NEW n \in Nat \ {0}, NEW c, LogSound(c, evs, n),
           NEW fragment, IsList(fragment.body),
           fragment.kind \in {"full", "first", "middle", "last", "unknown"},
           NEW result, result = Lev!TakeFragment(n, fragment, c)
    PROVE  Distinct(evs \o result.events) /\ LogSound(result.carried, evs \o result.events, n + 1)
<1> DEFINE body == fragment.body
           gathered == c.pending \o body
           closed == [c EXCEPT !.pending = <<>>]
<1>1. IsList(body)
  OBVIOUS
<1>2. IsList(gathered)
  BY <1>1, ListsJoin DEF LogSound
<1>3. LogSound(closed, evs, n) /\ closed.pending = <<>> /\ (~c.done => ~closed.done)
  <2>1. DOMAIN closed = LogFields /\ closed.seen = c.seen /\ closed.pending = <<>>
    BY DEF LogSound, LogFields
  <2>2. closed.said = c.said /\ closed.done = c.done
    BY DEF LogSound, LogFields
  <2> HIDE DEF closed
  <2> QED
    BY ShortLists, <2>1, <2>2 DEF LogSound
<1>4. n \in 1..n /\ \A e \in Range(evs) : e.loc[1] # n
  BY DEF LogSound
<1>0. LogSound(c, evs, n + 1)
  <2>1. DOMAIN c = LogFields /\ IsList(c.pending)
    BY DEF LogSound
  <2> QED
    BY <2>1, GathersMore
<1>5. CASE c.done
  <2>1. result = [carried |-> c, events |-> <<>>]
    BY <1>5 DEF Lev!TakeFragment
  <2>2. result.carried = c /\ result.events = <<>>
    BY <2>1
  <2> QED
    BY <1>0, <2>2, NoBatch
<1>6. CASE ~c.done /\ fragment.kind = "full"
  <2>1. result = Lev!Batch(n, body, fragment.whole, c)
    BY <1>6 DEF Lev!TakeFragment
  <2>2. c.pending = <<>> \/ c.started # n
    BY DEF LogSound
  <2> HIDE DEF body
  <2> QED
    BY <1>1, <1>4, <1>6, <2>1, <2>2, BatchAfter
<1>7. CASE ~c.done /\ fragment.kind = "first" /\ fragment.whole
  <2> DEFINE d == [c EXCEPT !.pending = body, !.started = n]
  <2>1. result = [carried |-> d, events |-> <<>>]
    BY <1>7 DEF Lev!TakeFragment
  <2>2. result.carried = d /\ result.events = <<>>
    BY <2>1
  <2> HIDE DEF body
  <2>3. DOMAIN d = LogFields /\ d.seen = c.seen /\ d.pending = body /\ d.started = n
    BY DEF LogSound, LogFields
  <2>4. d.said = c.said /\ d.done = c.done
    BY DEF LogSound, LogFields
  <2> HIDE DEF d
  <2>5. LogSound(d, evs, n + 1)
    BY <1>1, <2>3, <2>4, GathersMore
  <2> QED
    BY <2>2, <2>5, NoBatch
<1>8. CASE ~c.done /\ fragment.kind = "first" /\ ~fragment.whole
  <2>1. result = Lev!Batch(n, body, FALSE, closed)
    BY <1>8 DEF Lev!TakeFragment
  <2> HIDE DEF body, closed
  <2> QED
    BY <1>1, <1>3, <1>4, <1>8, <2>1, BatchAfter
<1>9. CASE ~c.done /\ fragment.kind \in {"middle", "last"} /\ c.pending = <<>>
  <2>1. result = [carried |-> c, events |-> <<>>]
    BY <1>9 DEF Lev!TakeFragment
  <2>2. result.carried = c /\ result.events = <<>>
    BY <2>1
  <2> QED
    BY <1>0, <2>2, NoBatch
<1>10. CASE ~c.done /\ fragment.kind = "middle" /\ c.pending # <<>> /\ fragment.whole
  <2> DEFINE d == [c EXCEPT !.pending = gathered]
  <2>1. result = [carried |-> d, events |-> <<>>]
    BY <1>10 DEF Lev!TakeFragment
  <2>2. result.carried = d /\ result.events = <<>>
    BY <2>1
  <2> HIDE DEF gathered
  <2>3. DOMAIN d = LogFields /\ d.seen = c.seen /\ d.pending = gathered /\ d.started = c.started
    BY DEF LogSound, LogFields
  <2>4. d.said = c.said /\ d.done = c.done
    BY DEF LogSound, LogFields
  <2> HIDE DEF d
  <2>5. LogSound(d, evs, n + 1)
    BY <1>2, <1>10, <2>3, <2>4, GathersMore
  <2> QED
    BY <2>2, <2>5, NoBatch
<1>11. CASE ~c.done /\ fragment.kind = "unknown"
  <2> DEFINE note == Lev!Ev(0, "file", 0, "unparsed.record", Null, Lev!NoStamp, "stopped")
             d == [c EXCEPT !.done = TRUE, !.said = TRUE]
  <2>1. result = [carried |-> d, events |-> <<note>>]
    BY <1>11 DEF Lev!TakeFragment, Lev!Note
  <2>2. note.loc[1] = 0
    BY DEF Lev!Ev
  <2>3. DOMAIN d = LogFields /\ d.seen = c.seen /\ d.pending = c.pending /\ d.started = c.started
    BY DEF LogSound, LogFields
  <2>4. d.said /\ d.done
    BY DEF LogSound, LogFields
  <2>5. ~c.said
    BY <1>11 DEF LogSound
  <2> HIDE DEF note, d
  <2>6. Apart(evs, <<note>>)
    <3>1. \A e \in Range(evs) : e.loc[1] # 0
      BY <2>5 DEF LogSound
    <3> QED
      BY <2>2, <3>1, ShortLists DEF Apart, Identity
  <2>7. Distinct(evs \o <<note>>) /\ Range(evs \o <<note>>) = Range(evs) \cup {note}
    BY <2>6, OneIsDistinct, DistinctJoin, ShortLists
  <2>8. 0..(n - 1) \subseteq 0..(n + 1 - 1) /\ 1..(n - 1) \subseteq 1..(n + 1 - 1) /\ 0 \in 0..(n + 1 - 1) /\ 0 \notin 1..(n - 1)
    OBVIOUS
  <2>9. \A e \in Range(evs \o <<note>>) : e.loc[1] \in 0..(n + 1 - 1)
    BY <2>2, <2>7, <2>8 DEF LogSound
  <2>10. c.pending # <<>> => c.started \in 1..(n + 1 - 1) /\ \A e \in Range(evs \o <<note>>) : e.loc[1] # c.started
    BY <2>2, <2>7, <2>8 DEF LogSound
  <2>11. IsList(c.pending) /\ c.seen \in 0..MaxRecords
    BY DEF LogSound
  <2>12. LogSound(d, evs \o <<note>>, n + 1)
    BY <2>3, <2>4, <2>9, <2>10, <2>11 DEF LogSound
  <2>13. result.carried = d /\ result.events = <<note>>
    BY <2>1
  <2> QED
    BY <2>7, <2>12, <2>13
<1>12. CASE /\ ~c.done /\ c.pending # <<>>
            /\ \/ fragment.kind = "middle" /\ ~fragment.whole
               \/ fragment.kind = "last"
  <2>1. result = Lev!Batch(c.started, gathered, fragment.whole, closed)
    BY <1>12 DEF Lev!TakeFragment
  <2>2. c.started \in 1..n /\ \A e \in Range(evs) : e.loc[1] # c.started
    BY <1>12 DEF LogSound
  <2> HIDE DEF gathered, closed
  <2> QED
    BY <1>2, <1>3, <1>12, <2>1, <2>2, BatchAfter
<1> QED
  BY <1>5, <1>6, <1>7, <1>8, <1>9, <1>10, <1>11, <1>12

(* The end of a log, and that of a table: at most one thing is said of the *)
(* file, and nothing had been said of it before.                           *)
LEMMA LogFinishes ==
    ASSUME NEW evs, Distinct(evs), NEW n \in Nat \ {0}, NEW c, LogSound(c, evs, n)
    PROVE  Distinct(evs \o Lev!FinishLog(c))
<1> DEFINE nothing == [carried |-> c, events |-> <<>>]
           last == IF c.pending # <<>> /\ ~c.done THEN Lev!Batch(c.started, c.pending, FALSE, c) ELSE nothing
           p == last.carried.cut /\ ~last.carried.said
           q == ~last.carried.cut /\ ~last.carried.said /\ last.carried.seen >= MaxRecords
           one == Lev!When(p, Lev!Note("cut"))
           two == Lev!When(q, Lev!Note("truncated"))
<1>1. Lev!FinishLog(c) = (last.events \o one) \o two
  BY Zenon DEF Lev!FinishLog
<1>2. /\ Distinct(last.events)
      /\ \A e \in Range(last.events) : e.loc[1] # 0 /\ \A x \in Range(evs) : x.loc[1] # e.loc[1]
      /\ last.carried.said => c.said
      /\ c.said => last.events = <<>> /\ last.carried.said
  <2>1. CASE c.pending # <<>> /\ ~c.done
    <3> DEFINE batch == Lev!Batch(c.started, c.pending, FALSE, c)
    <3>1. last = batch
      BY <2>1
    <3>4. ~c.said
      BY <2>1 DEF LogSound
    <3>2. c.started # 0 /\ \A e \in Range(evs) : e.loc[1] # c.started
      BY <2>1 DEF LogSound
    <3>5. DOMAIN c = LogFields /\ c.seen \in 0..MaxRecords /\ IsList(c.pending)
      BY DEF LogSound
    <3>6. BatchAt(batch, c.started, FALSE, c)
      BY <3>2, <3>5, BatchTells
    <3>3. /\ Distinct(batch.events)
          /\ \A e \in Range(batch.events) : e.loc[1] = c.started \/ (e.loc[1] = 0 /\ batch.carried.said)
          /\ ~batch.carried.said
      BY <3>6 DEF BatchAt
    <3> HIDE DEF batch, last
    <3> QED
      BY <3>1, <3>2, <3>3, <3>4
  <2>2. CASE ~(c.pending # <<>> /\ ~c.done)
    <3>2. last.carried = c /\ last.events = <<>>
      BY <2>2
    <3> HIDE DEF last
    <3> QED
      BY <3>2, ShortLists, OneIsDistinct
  <2> QED
    BY <2>1, <2>2
<1>3. /\ one = <<>> \/ (one = Lev!Note("cut") /\ ~last.carried.said /\ two = <<>>)
      /\ two = <<>> \/ (two = Lev!Note("truncated") /\ ~last.carried.said /\ one = <<>>)
  <2> HIDE DEF last
  <2> QED
    BY DEF Lev!When
<1>4. \A why : \E x : Lev!Note(why) = <<x>> /\ x.loc[1] = 0
  <2> TAKE why
  <2> DEFINE x == Lev!Ev(0, "file", 0, "unparsed.record", Null, Lev!NoStamp, why)
  <2>1. Lev!Note(why) = <<x>> /\ x.loc[1] = 0
    BY DEF Lev!Note, Lev!Ev
  <2> HIDE DEF x
  <2> QED
    BY <2>1
<1> HIDE DEF last, one, two
<1>5. Distinct(evs \o last.events) /\ Range(evs \o last.events) = Range(evs) \cup Range(last.events)
  <2>1. Apart(evs, last.events)
    BY <1>2 DEF Apart, Identity
  <2> QED
    BY <1>2, <2>1, DistinctJoin
<1>6. IsList(evs) /\ IsList(last.events) /\ IsList(one) /\ IsList(two)
  <2>1. IsList(<<>>) /\ \A why : IsList(Lev!Note(why))
    BY <1>4, ShortLists
  <2> QED
    BY <1>2, <1>3, <2>1 DEF Distinct
<1>7. \A why : ~last.carried.said => Distinct((evs \o last.events) \o Lev!Note(why))
  <2> SUFFICES ASSUME NEW why, ~last.carried.said PROVE Distinct((evs \o last.events) \o Lev!Note(why))
    OBVIOUS
  <2>1. PICK x : Lev!Note(why) = <<x>> /\ x.loc[1] = 0
    BY <1>4
  <2>2. \A e \in Range(evs \o last.events) : e.loc[1] # 0
    BY <1>2, <1>5 DEF LogSound
  <2>3. Apart(evs \o last.events, <<x>>)
    BY <2>1, <2>2, ShortLists DEF Apart, Identity
  <2> QED
    BY <1>5, <2>1, <2>3, OneIsDistinct, DistinctJoin
<1>8. evs \o ((last.events \o one) \o two) = ((evs \o last.events) \o one) \o two
  <2> DEFINE those == last.events
  <2>0. IsList(those)
    BY <1>6
  <2> HIDE DEF those
  <2> DEFINE firsts == those \o one
  <2>5. IsList(evs) /\ IsList(one)
    BY <1>6
  <2>1. evs \o firsts = (evs \o those) \o one
    <3>1. evs \o (those \o one) = (evs \o those) \o one
      BY ONLY <2>0, <2>5, JoinAssociates
    <3> QED
      BY <3>1
  <2>3. IsList(firsts)
    BY <1>6, <2>0, ListsJoin
  <2> HIDE DEF firsts
  <2>4. IsList(evs) /\ IsList(two)
    BY <1>6
  <2>2. evs \o (firsts \o two) = (evs \o firsts) \o two
    BY ONLY <2>3, <2>4, JoinAssociates
  <2> QED
    BY <2>1, <2>2 DEF those, firsts
<1>9. \A s : IsList(s) => s \o <<>> = s
  BY ShortLists, ListsJoin
<1>10. IsList(evs \o last.events) /\ \A why : IsList((evs \o last.events) \o Lev!Note(why))
  BY <1>4, <1>6, ShortLists, ListsJoin
<1> QED
  BY <1>1, <1>3, <1>5, <1>7, <1>8, <1>9, <1>10

(* A block of a table: its entries are numbered on from those before.      *)
LEMMA BlockTells ==
    ASSUME NEW evs, Distinct(evs), NEW n \in Nat \ {0}, NEW c, TableSound(c, evs, n),
           NEW block, IsList(block.entries),
           NEW result, result = Lev!TakeBlock(n, block, c)
    PROVE  Distinct(evs \o result.events) /\ TableSound(result.carried, evs \o result.events, n + 1)
<1> DEFINE room == MaxRecords - c.seen
           read == IF Len(block.entries) <= room THEN block.entries ELSE SubSeq(block.entries, 1, room)
           seen == c.seen + Len(read)
           u == [i \in DOMAIN read |-> <<Lev!Ev(n, "key", c.seen + (i - 1) + 1, "unparsed.record", read[i], Lev!NoStamp, "put")>>]
<1>0. 0..(n - 1) \subseteq 0..(n + 1 - 1) /\ 0 \in 0..(n + 1 - 1) /\ n \in 0..(n + 1 - 1) /\ n # 0 /\ n \notin 0..(n - 1)
  OBVIOUS
<1>1. CASE c.done
  <2>1. result = [carried |-> c, events |-> <<>>]
    BY <1>1 DEF Lev!TakeBlock
  <2>2. evs \o <<>> = evs
    BY ShortLists, ListsJoin DEF Distinct
  <2> QED
    BY <1>0, <2>1, <2>2 DEF TableSound
<1>2. CASE ~c.done /\ ~block.expands
  <2> DEFINE note == Lev!Ev(0, "file", 0, "unparsed.record", Null, Lev!NoStamp, "stopped")
             d == [c EXCEPT !.done = TRUE, !.said = TRUE]
  <2>1. result = [carried |-> d, events |-> <<note>>]
    BY <1>2 DEF Lev!TakeBlock, Lev!Note
  <2>2. result.carried = d /\ result.events = <<note>>
    BY <2>1
  <2>3. note.loc[1] = 0
    BY DEF Lev!Ev
  <2>4. DOMAIN d = {"seen", "done", "said"} /\ d.seen = c.seen
    BY DEF TableSound
  <2>5. d.said /\ d.done
    BY DEF TableSound
  <2>6. c.seen \in 0..MaxRecords /\ \A e \in Range(evs) : e.loc[1] \in 0..(n - 1) /\ e.loc[1] # 0
    BY <1>2 DEF TableSound
  <2> HIDE DEF note, d
  <2>7. Apart(evs, <<note>>)
    BY <2>3, <2>6, ShortLists DEF Apart, Identity
  <2>8. Distinct(evs \o <<note>>) /\ Range(evs \o <<note>>) = Range(evs) \cup {note}
    BY <2>7, OneIsDistinct, DistinctJoin, ShortLists
  <2>9. \A e \in Range(evs \o <<note>>) : e.loc[1] \in 0..(n + 1 - 1)
    BY <1>0, <2>3, <2>6, <2>8
  <2>10. TableSound(d, evs \o <<note>>, n + 1)
    BY <2>4, <2>5, <2>6, <2>9 DEF TableSound
  <2> QED
    BY <2>2, <2>8, <2>10
<1>3. CASE ~c.done /\ block.expands
  <2> DEFINE d == [c EXCEPT !.seen = seen, !.done = Len(read) < Len(block.entries)]
  <2>1. result.events = FlattenSeq(u) /\ result.carried = d
    <3>1. result = [carried |-> d, events |-> FlattenSeq(u)]
      BY <1>3, LogsFlatten, Zenon DEF Lev!TakeBlock, Lev!Each
    <3> HIDE DEF d, u
    <3> QED
      BY <3>1
  <2>2. MaxRecords \in Nat /\ c.seen \in Nat /\ room \in Nat
    BY Bounds DEF TableSound
  <2>3. IsList(read) /\ Len(read) \in 0..room
    <3> QED
      BY <2>2, RoomFor
  <2>4. seen \in 0..MaxRecords
    <3>1. Len(read) \in 0..(MaxRecords - c.seen)
      BY <2>3
    <3> HIDE DEF read
    <3> QED
      BY <2>2, <3>1
  <2> HIDE DEF read
  <2>5. DOMAIN d = {"seen", "done", "said"} /\ d.seen = seen
    <3> HIDE DEF seen
    <3> QED
      BY DEF TableSound
  <2>6. d.said = c.said /\ ~c.said
    <3> HIDE DEF seen
    <3> QED
      BY <1>3 DEF TableSound
  <2>7. Tells(FlattenSeq(u), n, {"key"}, Lev!NoStamp)
    <3> DEFINE num == [i \in 1..Len(read) |-> c.seen + (i - 1) + 1]
    <3>1. DOMAIN read = 1..Len(read) /\ Len(read) \in Nat
      BY <2>3, ListFacts
    <3>2. ASSUME NEW i \in 1..Len(read)
          PROVE  TellsOf(u[i], n, {"key"}, num[i], Lev!NoStamp)
      <4>1. u[i] = <<Ev(n, "key", num[i], "unparsed.record", read[i], Lev!NoStamp, "put")>>
        BY <3>1 DEF Lev!Ev, Ev
      <4> HIDE DEF u, num
      <4> QED
        BY <4>1, EvTells
    <3>3. u = [i \in 1..Len(read) |-> u[i]]
      BY <3>1, Zenon
    <3>4. \A i, j \in 1..Len(read) : i < j => num[i] # num[j]
      BY <2>2, <3>1
    <3> HIDE DEF u, num
    <3>5. IsList(u) /\ Len(u) = Len(read)
      BY <3>1, <3>3, MadeIsList
    <3> QED
      BY <3>2, <3>4, <3>5, TellsEach
  <2> HIDE DEF u, d, seen
  <2>8. Distinct(FlattenSeq(u)) /\ \A e \in Range(FlattenSeq(u)) : e.loc[1] = n
    BY <2>7 DEF Tells, Own, Distinct
  <2>9. \A e \in Range(evs) : e.loc[1] \in 0..(n - 1) /\ e.loc[1] # 0
    BY <2>6 DEF TableSound
  <2>10. Apart(evs, FlattenSeq(u))
    <3>1. \A x \in Range(evs), y \in Range(FlattenSeq(u)) : x.loc[1] # y.loc[1]
      BY <1>0, <2>8, <2>9
    <3> QED
      BY <3>1 DEF Apart, Identity
  <2>11. Distinct(evs \o FlattenSeq(u)) /\ Range(evs \o FlattenSeq(u)) = Range(evs) \cup Range(FlattenSeq(u))
    BY <2>8, <2>10, DistinctJoin
  <2>12. \A e \in Range(evs \o FlattenSeq(u)) : e.loc[1] \in 0..(n + 1 - 1) /\ e.loc[1] # 0
    BY <1>0, <2>8, <2>9, <2>11
  <2>13. TableSound(d, evs \o FlattenSeq(u), n + 1)
    BY <2>4, <2>5, <2>6, <2>12 DEF TableSound
  <2> QED
    BY <2>1, <2>11, <2>13
<1> QED
  BY <1>1, <1>2, <1>3

(* The end of a table.                                                     *)
LEMMA TableFinishes ==
    ASSUME NEW evs, Distinct(evs), NEW n, NEW c, TableSound(c, evs, n)
    PROVE  Distinct(evs \o Lev!FinishTable(c))
<1> DEFINE note == Lev!Ev(0, "file", 0, "unparsed.record", Null, Lev!NoStamp, "truncated")
<1>1. \/ Lev!FinishTable(c) = <<>>
      \/ Lev!FinishTable(c) = <<note>> /\ ~c.said
  BY DEF Lev!FinishTable, Lev!When, Lev!Note
<1>2. note.loc[1] = 0
  BY DEF Lev!Ev
<1> HIDE DEF note
<1>3. evs \o <<>> = evs
  BY ShortLists, ListsJoin DEF Distinct
<1>4. ~c.said => Distinct(evs \o <<note>>)
  <2> SUFFICES ASSUME ~c.said PROVE Distinct(evs \o <<note>>)
    OBVIOUS
  <2>1. \A e \in Range(evs) : e.loc[1] # 0
    BY DEF TableSound
  <2>2. Apart(evs, <<note>>)
    BY <1>2, <2>1, ShortLists DEF Apart, Identity
  <2> QED
    BY <2>2, OneIsDistinct, DistinctJoin
<1> QED
  BY <1>1, <1>3, <1>4

(* What is read as it stands, or along with a count of what was read: no   *)
(* two events have one identity, and each is where something was read.     *)
AsItStands == Whole \cup {"log", "patterns", "leveldb_log", "leveldb_table"}

ReadAsItStands ==
    format \in AsItStands =>
        /\ Distinct(events)
        /\ format \in {"log", "patterns"} => \A e \in Range(events) : e.loc[1] \in 0..(at - 1)
        /\ format = "leveldb_log" /\ at \in 1..(Len(items) + 1) => LogSound(carried, events, at)
        /\ format = "leveldb_table" /\ at \in 1..(Len(items) + 1) => TableSound(carried, events, at)

(* The file is opened.                                                     *)
LEMMA OpensAsItStands ==
    ASSUME Open, format \in AsItStands
    PROVE  ReadAsItStands'
<1>1. at' = 1 /\ carried' = StartOf /\ events' = Preface /\ format' = format
  BY DEF Open
<1>2. Distinct(Preface) /\ (format \notin Whole => Preface = <<>>)
  <2>1. CASE format \in Whole
    BY <2>1, WholeIsDistinct
  <2>2. CASE format \notin Whole
    <3>1. Preface = <<>>
      BY <2>2 DEF Preface, AsItStands, Whole
    <3> QED
      BY <3>1, OneIsDistinct
  <2> QED
    BY <2>1, <2>2
<1>3. format = "leveldb_log" => LogSound(StartOf, <<>>, 1)
  <2> SUFFICES ASSUME format = "leveldb_log" PROVE LogSound(StartOf, <<>>, 1)
    OBVIOUS
  <2>1. StartOf = [pending |-> <<>>, started |-> 0, seen |-> 0, cut |-> FALSE, done |-> FALSE, said |-> FALSE]
    BY DEF StartOf, Lev!LogStart
  <2>2. /\ DOMAIN StartOf = LogFields /\ StartOf.seen = 0 /\ StartOf.pending = <<>>
        /\ ~StartOf.said
    BY <2>1 DEF LogFields
  <2>3. 0 \in 0..MaxRecords
    BY Bounds
  <2> QED
    BY <2>2, <2>3, ShortLists DEF LogSound
<1>4. format = "leveldb_table" => TableSound(StartOf, <<>>, 1)
  <2> SUFFICES ASSUME format = "leveldb_table" PROVE TableSound(StartOf, <<>>, 1)
    OBVIOUS
  <2>1. StartOf = [seen |-> 0, done |-> FALSE, said |-> FALSE]
    BY DEF StartOf, Lev!TableStart
  <2>2. DOMAIN StartOf = {"seen", "done", "said"} /\ StartOf.seen = 0 /\ ~StartOf.said
    BY <2>1
  <2>3. 0 \in 0..MaxRecords
    BY Bounds
  <2> QED
    BY <2>2, <2>3, ShortLists DEF TableSound
<1>5. format \in {"log", "patterns"} => \A e \in Range(events') : e.loc[1] \in 0..(at' - 1)
  BY <1>1, <1>2, ShortLists DEF Whole
<1>6. format = "leveldb_log" => LogSound(carried', events', at')
  BY <1>1, <1>2, <1>3 DEF Whole
<1>7. format = "leveldb_table" => TableSound(carried', events', at')
  BY <1>1, <1>2, <1>4 DEF Whole
<1>8. Distinct(events')
  BY <1>1, <1>2
<1>9. format' = format
  BY <1>1
<1> QED
  BY <1>5, <1>6, <1>7, <1>8, <1>9 DEF ReadAsItStands

(* An element of it is read.                                               *)
LEMMA GoesOnAsItStands ==
    ASSUME Opened, ReadAsItStands, Next, ~Open, ~Close, format \in AsItStands
    PROVE  ReadAsItStands'
<1>0. items = Items /\ at \in DOMAIN items /\ at \in Nat \ {0} /\ Onward
  <2>1. \E result : Read(result)
    BY StepsAre
  <2>2. at \in DOMAIN items /\ Onward
    BY <2>1 DEF Read, Onward
  <2> QED
    BY <2>2 DEF Opened
<1>1. /\ DOMAIN items = 1..Len(items) /\ Len(items) \in Nat
  BY ItemsList DEF AsItStands, Whole
<1>2. format \notin Whole
  BY <1>0, <1>1, ShortLists, WholeIsDistinct
<1>3. /\ at' = at + 1 /\ format' = format /\ at \in 1..(Len(items) + 1)
      /\ 0..(at - 1) \subseteq 0..(at + 1 - 1) /\ at \in 0..(at + 1 - 1) /\ at \notin 0..(at - 1)
  BY <1>0, <1>1 DEF Onward
<1>4. CASE format \in {"log", "patterns"}
  <2>0. ReadLog \/ ReadPatterns
    BY <1>4, ReaderIs
  <2>1. PICK kind : events' = events \o Flo!TakeText(at, Element, carried, kind).events
    BY <2>0, Zenon DEF ReadLog, ReadPatterns, Read, Flo!TakeLog, Flo!TakePattern
  <2> DEFINE told == Flo!TakeText(at, Element, carried, kind).events
  <2>2. told = <<>> \/ Tells1(told, at)
    BY TextTells
  <2> HIDE DEF told
  <2>3. Distinct(told) /\ \A e \in Range(told) : e.loc[1] = at
    BY <2>2, OneIsDistinct, ShortLists DEF Tells1, Own, Distinct
  <2>4. Distinct(events) /\ \A e \in Range(events) : e.loc[1] \in 0..(at - 1)
    BY <1>4 DEF ReadAsItStands
  <2>5. Apart(events, told)
    <3>1. \A x \in Range(events), y \in Range(told) : x.loc[1] # y.loc[1]
      BY <1>3, <2>3, <2>4
    <3> QED
      BY <3>1 DEF Apart, Identity
  <2>6. Distinct(events \o told) /\ Range(events \o told) = Range(events) \cup Range(told)
    BY <2>3, <2>4, <2>5, DistinctJoin
  <2>7. \A e \in Range(events \o told) : e.loc[1] \in 0..(at + 1 - 1)
    BY <1>3, <2>3, <2>4, <2>6
  <2>8. Distinct(events') /\ \A e \in Range(events') : e.loc[1] \in 0..(at' - 1)
    BY <1>3, <2>1, <2>6, <2>7 DEF told
  <2> QED
    BY <1>3, <1>4, <2>8 DEF ReadAsItStands
<1>5. CASE format = "leveldb_log"
  <2> DEFINE result == Lev!TakeFragment(at, Element, carried)
  <2>1. carried' = result.carried /\ events' = events \o result.events
    <3>1. ReadLevelLog
      BY <1>5, ReaderIs
    <3> HIDE DEF result
    <3> QED
      BY <3>1 DEF ReadLevelLog, Read, result
  <2> HIDE DEF result
  <2>2. Element \notin {Blank, Torn} /\ Fits("leveldb_log", Element)
    BY <1>0, <1>5, ElementIs DEF Documents
  <2>3. /\ IsList(Element.body)
        /\ Element.kind \in {"full", "first", "middle", "last", "unknown"}
    BY <2>2 DEF Fits, IsList
  <2>4. Distinct(events) /\ LogSound(carried, events, at)
    BY <1>3, <1>5 DEF ReadAsItStands, AsItStands
  <2>5. Distinct(events \o result.events) /\ LogSound(result.carried, events \o result.events, at + 1)
    BY <1>0, <2>3, <2>4, FragmentTells DEF result
  <2>6. Distinct(events') /\ LogSound(carried', events', at')
    BY <1>3, <2>1, <2>5
  <2> QED
    BY <1>3, <1>5, <2>6 DEF ReadAsItStands
<1>6. CASE format = "leveldb_table"
  <2> DEFINE result == Lev!TakeBlock(at, Element, carried)
  <2>1. carried' = result.carried /\ events' = events \o result.events
    <3>1. ReadTable
      BY <1>6, ReaderIs
    <3> HIDE DEF result
    <3> QED
      BY <3>1 DEF ReadTable, Read, result
  <2> HIDE DEF result
  <2>2. Element \notin {Blank, Torn} /\ Fits("leveldb_table", Element)
    BY <1>0, <1>6, ElementIs DEF Documents
  <2>3. IsList(Element.entries)
    BY <2>2 DEF Fits, IsList
  <2>4. Distinct(events) /\ TableSound(carried, events, at)
    BY <1>3, <1>6 DEF ReadAsItStands, AsItStands
  <2>5. Distinct(events \o result.events) /\ TableSound(result.carried, events \o result.events, at + 1)
    BY <1>0, <2>3, <2>4, BlockTells DEF result
  <2>6. Distinct(events') /\ TableSound(carried', events', at')
    BY <1>3, <2>1, <2>5
  <2> QED
    BY <1>3, <1>6, <2>6 DEF ReadAsItStands
<1> QED
  BY <1>2, <1>4, <1>5, <1>6 DEF AsItStands

(* It is closed.                                                           *)
LEMMA EndsAsItStands ==
    ASSUME Opened, ReadAsItStands, Close, format \in AsItStands
    PROVE  ReadAsItStands'
<1>1. /\ at = Len(items) + 1 /\ at' = Len(items) + 2 /\ events' = events \o Finish
      /\ format' = format /\ items' = items /\ carried' = carried
  BY DEF Close
<1>2. Len(items) \in Nat
  BY ItemsList DEF AsItStands, Whole
<1>3. at \in Nat \ {0} /\ at \in 1..(Len(items) + 1) /\ ~(at' \in 1..(Len(items') + 1)) /\ 0..(at - 1) \subseteq 0..(at' - 1)
  BY <1>1, <1>2
<1>4. Distinct(events)
  BY DEF ReadAsItStands
<1>5. events \o <<>> = events
  BY <1>4, ShortLists, ListsJoin DEF Distinct
<1>6. CASE format \in Whole
  <2>1. Distinct(events')
    BY <1>1, <1>4, <1>5, <1>6, WholeIsDistinct
  <2> QED
    BY <1>1, <1>6, <2>1 DEF ReadAsItStands, Whole
<1>7. CASE format \in {"log", "patterns"}
  <2>1. Finish = <<>>
    BY <1>7 DEF Finish
  <2>2. events' = events /\ \A e \in Range(events) : e.loc[1] \in 0..(at' - 1)
    BY <1>1, <1>3, <1>5, <1>7, <2>1 DEF ReadAsItStands
  <2> QED
    BY <1>1, <1>4, <1>7, <2>2 DEF ReadAsItStands
<1>8. CASE format = "leveldb_log"
  <2>1. Finish = Lev!FinishLog(carried)
    BY <1>8 DEF Finish
  <2>2. LogSound(carried, events, at)
    BY <1>3, <1>8 DEF ReadAsItStands
  <2>3. Distinct(events')
    BY <1>1, <1>3, <1>4, <2>1, <2>2, LogFinishes
  <2> QED
    BY <1>1, <1>3, <1>8, <2>3 DEF ReadAsItStands
<1>9. CASE format = "leveldb_table"
  <2>1. Finish = Lev!FinishTable(carried)
    BY <1>9 DEF Finish
  <2>2. TableSound(carried, events, at)
    BY <1>3, <1>9 DEF ReadAsItStands
  <2>3. Distinct(events')
    BY <1>1, <1>4, <2>1, <2>2, TableFinishes
  <2> QED
    BY <1>1, <1>3, <1>9, <2>3 DEF ReadAsItStands
<1> QED
  BY <1>6, <1>7, <1>8, <1>9 DEF AsItStands

(* So what is told of such a file is always that.                          *)
LEMMA AlwaysAsItStands == Spec => []ReadAsItStands
<1>1. Init => ReadAsItStands
  <2> SUFFICES ASSUME Init PROVE ReadAsItStands
    OBVIOUS
  <2>1. events = <<>> /\ ~(at \in 1..(Len(items) + 1)) /\ Range(events) = {}
    BY ShortLists DEF Init
  <2> QED
    BY <2>1, OneIsDistinct DEF ReadAsItStands
<1>2. Opened /\ ReadAsItStands /\ [Next]_vars => ReadAsItStands'
  <2> SUFFICES ASSUME Opened, ReadAsItStands, [Next]_vars PROVE ReadAsItStands'
    OBVIOUS
  <2>1. CASE UNCHANGED vars
    BY <2>1 DEF ReadAsItStands, vars, AsItStands, Whole
  <2>2. CASE format \notin AsItStands
    <3>1. format' = format /\ AsItStands' = AsItStands
      BY FormatStays DEF AsItStands, Whole
    <3> QED
      BY <2>2, <3>1 DEF ReadAsItStands
  <2>3. CASE Next /\ format \in AsItStands
    BY <2>3, OpensAsItStands, EndsAsItStands, GoesOnAsItStands
  <2> QED
    BY <2>1, <2>2, <2>3
<1> QED
  BY <1>1, <1>2, FileOpened, PTL DEF Spec

(* ------------------------------------------------------------- a pack -- *)

(* The runs of a base and of the rest that a delta holds are its target.   *)
LEMMA GitFlattens == \A u : Git!Flattened(u) = FlattenSeq(u)
BY DEF Git!Flattened, FlattenSeq

(* What is made of a base and the delta of a target against it is the      *)
(* target, and that it is none is not said.                                *)
LEMMA DeltaApplies ==
    ASSUME NEW base, NEW target, IsList(base), IsList(target)
    PROVE  /\ Git!Runs(base, DeltaOf(base, target)) = target
           /\ Git!Applies(base, DeltaOf(base, target))
<1>1. PICK m \in 0..Len(base) :
              /\ m <= Len(target) /\ SameTo(base, target) = 1..m /\ Cardinality(SameTo(base, target)) = m
              /\ SubSeq(base, 1, m) = SubSeq(target, 1, m)
  BY SameToOne
<1> DEFINE delta == DeltaOf(base, target)
           copy == [is |-> "copy", from |-> 0, length |-> m]
           insert == [is |-> "insert", bytes |-> SubSeq(target, m + 1, Len(target))]
           Run(op) == IF op.is = "copy" THEN SubSeq(base, op.from + 1, op.from + op.length) ELSE op.bytes
           u == [i \in DOMAIN delta.ops |-> Run(delta.ops[i])]
<1>2. delta = [against |-> Len(base), size |-> Len(target), ops |-> <<copy, insert>>]
  BY <1>1 DEF DeltaOf, SameTo, Lesser
<1>3. Len(base) \in Nat /\ Len(target) \in Nat /\ m \in 0..Len(target)
  BY <1>1, ListFacts
<1> HIDE DEF delta
<1>4. /\ delta.against = Len(base) /\ delta.size = Len(target) /\ DOMAIN delta.ops = 1..2
      /\ delta.ops[1] = copy /\ delta.ops[2] = insert
  BY <1>2
<1>5. IsList(insert.bytes) /\ SubSeq(target, 1, m) \o insert.bytes = target
  BY <1>3, BeginningAndRest
<1>6. IsList(SubSeq(base, 1, m))
  BY BeginningOf
<1>7. Run(copy) = SubSeq(base, 1, m) /\ Run(insert) = insert.bytes
  <2>1. copy.from + 1 = 1 /\ copy.from + copy.length = m
    BY <1>1
  <2> QED
    BY <2>1
<1>8. u = [i \in 1..2 |-> u[i]] /\ u[1] = SubSeq(base, 1, m) /\ u[2] = insert.bytes
  <2>1. 1 \in 1..2 /\ 2 \in 1..2
    OBVIOUS
  <2> HIDE DEF Run, copy, insert
  <2> QED
    BY <1>4, <1>7, <2>1
<1>9. Git!Runs(base, delta) = FlattenSeq(u)
  BY GitFlattens, Zenon DEF Git!Runs
<1> HIDE DEF u
<1>10. Git!Runs(base, delta) = target
  BY <1>1, <1>5, <1>6, <1>8, <1>9, FlattenTwo
<1>11. \A i \in DOMAIN delta.ops :
          \/ delta.ops[i].is = "copy" /\ delta.ops[i].from + delta.ops[i].length <= Len(base)
          \/ delta.ops[i].is = "insert"
  <2>1. \A i \in 1..2 : i = 1 \/ i = 2
    OBVIOUS
  <2>2. copy.is = "copy" /\ copy.from + copy.length <= Len(base) /\ insert.is = "insert"
    BY <1>1, <1>3
  <2> HIDE DEF copy, insert
  <2> QED
    BY <1>4, <2>1, <2>2
<1>12. Git!Applies(base, delta)
  BY <1>4, <1>10, <1>11 DEF Git!Applies
<1> QED
  BY <1>10, <1>12 DEF delta

(* The objects of a pack that are read, in their order and from the first: *)
(* one that is torn, and those after it, are not among them.               *)
LEMMA ObjectsRead ==
    ASSUME IsList(lines), format = "git_pack", NEW taken, taken = Items
    PROVE  /\ IsList(taken) /\ Len(taken) \in Nat /\ Len(taken) <= Len(lines)
           /\ \A k \in 1..Len(taken) : taken[k].object = Packed(k) /\ taken[k].at = k /\ lines[k] # Torn
<1>1. taken = Git!PackItems(Pack)
  BY DEF Items, Whole
<1> DEFINE objects == Pack.objects
           bad == {i \in DOMAIN objects : Git!Broken(Pack, i) \/ i > MaxObjects}
           n == Git!ReadTo(Pack)
<1>2. Len(lines) \in Nat /\ DOMAIN lines = 1..Len(lines)
  BY ListFacts
<1>3. objects = [i \in 1..Len(lines) |-> objects[i]] /\ \A i \in 1..Len(lines) : objects[i] = Packed(i)
  BY <1>2 DEF Pack
<1>4. Len(objects) = Len(lines) /\ DOMAIN objects = 1..Len(lines)
  <2> HIDE DEF objects
  <2>1. IsList(objects) /\ Len(objects) = Len(lines)
    BY <1>2, <1>3, MadeIsList
  <2> QED
    BY <1>3, <2>1
<1>5. n = IF bad = {} THEN Len(lines) ELSE (CHOOSE i \in bad : \A j \in bad : i <= j) - 1
  <2>1. n = IF bad = {} THEN Len(objects) ELSE (CHOOSE i \in bad : \A j \in bad : i <= j) - 1
    BY DEF Git!ReadTo
  <2> HIDE DEF n, bad, objects
  <2> QED
    BY <1>4, <2>1
<1>6. bad \subseteq 1..Len(lines)
  BY <1>4
<1>7. n \in 0..Len(lines) /\ \A k \in 1..n : k \notin bad
  <2> HIDE DEF bad, n
  <2>1. CASE bad = {}
    BY <1>2, <1>5, <2>1
  <2>2. CASE bad # {}
    <3> DEFINE least == CHOOSE i \in bad : \A j \in bad : i <= j
    <3>1. \E i \in bad : \A j \in bad : i <= j
      <4>1. bad \in SUBSET Nat
        BY <1>2, <1>6
      <4> QED
        BY <2>2, <4>1, LeastOf
    <3>2. least \in bad /\ \A j \in bad : least <= j
      BY <3>1
    <3>3. n = least - 1
      BY <1>5, <2>2
    <3> HIDE DEF least
    <3>4. least \in 1..Len(lines)
      BY <1>6, <3>2
    <3>5. n \in 0..Len(lines) /\ \A k \in 1..n : ~(least <= k)
      BY <1>2, <3>3, <3>4
    <3> QED
      BY <3>2, <3>5
  <2> QED
    BY <2>1, <2>2
<1>8. \A k \in 1..n : lines[k] # Torn
  <2> SUFFICES ASSUME NEW k \in 1..n, lines[k] = Torn PROVE FALSE
    OBVIOUS
  <2>1. k \in 1..Len(lines)
    <3> HIDE DEF n
    <3> QED
      BY <1>2, <1>7
  <2>2. Packed(k) = Torn
    BY DEF Packed
  <2>3. Git!Broken(Pack, k)
    <3>1. Pack.objects[k] = Torn
      BY <1>3, <2>1, <2>2
    <3> QED
      BY <3>1 DEF Git!Broken
  <2>4. k \in bad
    BY <1>4, <2>1, <2>3
  <2> QED
    BY <1>7, <2>4
<1>9. CASE Pack = Torn
  <2>1. taken = <<>>
    BY <1>1, <1>9 DEF Git!PackItems
  <2> QED
    BY <1>2, <2>1, ShortLists
<1>10. CASE Pack # Torn
  <2>1. taken = [i \in 1..n |-> [object |-> objects[i], at |-> i]]
    BY <1>1, <1>10 DEF Git!PackItems
  <2> HIDE DEF n, bad
  <2>2. n \in Nat /\ \A k \in 1..n : k \in 1..Len(lines)
    BY <1>2, <1>7
  <2>3. taken = [i \in 1..n |-> taken[i]]
    BY <2>1
  <2>4. IsList(taken) /\ Len(taken) = n
    BY <2>2, <2>3, MadeIsList
  <2>5. \A k \in 1..n : taken[k].object = objects[k] /\ taken[k].at = k
    BY <2>1
  <2> HIDE DEF objects
  <2> QED
    BY <1>2, <1>3, <1>7, <1>8, <2>2, <2>4, <2>5
<1> QED
  BY <1>9, <1>10

(* What may have been packed, and where the base of an offset is.          *)
ObjectFits(rec) ==
    /\ rec.kind \in Git!Whole /\ IsList(rec.body) /\ IsList(rec.base)
    /\ rec.how \in {"whole", "offset", "reference"} /\ rec.back \in Nat

Linked ==
    \A i \in DOMAIN lines : lines[i] # Torn /\ lines[i].how = "offset" =>
        i > lines[i].back /\ lines[i - lines[i].back] # Torn
        /\ lines[i - lines[i].back].kind = lines[i].kind

(* An object that was packed is one.                                       *)
LEMMA ObjectIs ==
    ASSUME Opened, format = "git_pack", NEW k \in 1..Len(lines), lines[k] # Torn
    PROVE  ObjectFits(lines[k])
<1>1. lines[k] \in Range(Elements["git_pack"]) /\ "git_pack" \in DOMAIN Elements
  <2>1. lines[k] \in Range(lines)
    BY ListFacts DEF Opened, OnDisk
  <2> QED
    BY <2>1 DEF Opened, OnDisk
<1>2. PICK i \in DOMAIN Elements["git_pack"] : lines[k] = Elements["git_pack"][i]
  BY <1>1 DEF Range
<1>3. Fits("git_pack", lines[k])
  BY <1>1, <1>2, ElementsFit DEF Documents
<1>4. /\ lines[k].kind \in Git!Whole
      /\ lines[k].body \in Seq(Range(lines[k].body)) /\ lines[k].base \in Seq(Range(lines[k].base))
      /\ lines[k].how \in {"whole", "offset", "reference"} /\ lines[k].back \in Nat
  BY <1>3 DEF Fits
<1> QED
  BY <1>4 DEF ObjectFits, IsList

(* The base of a delta is before it, is expanded and is the one it names.  *)
LEMMA BaseIs ==
    ASSUME NEW c, IsList(c), NEW object, NEW n, NEW base, base = Git!BaseOf(object, n, c), base # 0
    PROVE  /\ base \in 1..Len(c) /\ c[base].problem = Null
           /\ object.kind = "offset" => base = n - object.back
           /\ object.kind # "offset" => <<c[base].kind, c[base].body>> = object.ref
<1> DEFINE earlier == {i \in DOMAIN c :
                          /\ c[i].problem = Null
                          /\ IF object.kind = "offset" THEN i = n - object.back
                             ELSE <<c[i].kind, c[i].body>> = object.ref}
<1>1. base = IF earlier = {} THEN 0 ELSE CHOOSE i \in earlier : \A j \in earlier : j <= i
  BY DEF Git!BaseOf
<1>2. Len(c) \in Nat /\ DOMAIN c = 1..Len(c)
  BY ListFacts
<1>3. earlier \in SUBSET (1..Len(c)) /\ earlier # {}
  <2>1. earlier \in SUBSET (1..Len(c))
    BY <1>2
  <2> HIDE DEF earlier
  <2> QED
    BY <1>1, <2>1
<1>4. base \in earlier
  <2> HIDE DEF earlier
  <2>1. \E m \in earlier : \A j \in earlier : j <= m
    BY <1>2, <1>3, LargestOf
  <2> QED
    BY <1>1, <1>3, <2>1
<1> QED
  BY <1>2, <1>4

(* What becomes of a delta.                                                *)
LEMMA ResolveDelta ==
    ASSUME NEW object, object.kind \in {"offset", "reference"}, NEW n, NEW c,
           NEW base, base = Git!BaseOf(object, n, c), NEW found, found = Git!Resolve(object, n, c)
    PROVE  \/ base = 0 /\ found.problem \in {"unexpanded", "baseless"}
           \/ base # 0 /\ c[base].depth >= MaxDepth /\ found.problem = "deep"
           \/ base # 0 /\ ~Git!Applies(c[base].body, object.body) /\ found.problem = "unapplied"
           \/ /\ base # 0 /\ found.problem = Null /\ found.kind = c[base].kind
              /\ found.body = Git!Runs(c[base].body, object.body)
<1>1. object.kind \notin Git!Whole
  BY DEF Git!Whole
<1> DEFINE as(kind, body, depth, problem) == [kind |-> kind, body |-> body, depth |-> depth, problem |-> problem]
           unresolved == object.kind = "offset" /\ (n - object.back) \in DOMAIN c
<1>2. found = IF base = 0 THEN as(object.kind, object.body, 0, IF unresolved THEN "unexpanded" ELSE "baseless")
              ELSE IF c[base].depth >= MaxDepth THEN as(object.kind, object.body, c[base].depth + 1, "deep")
              ELSE IF ~Git!Applies(c[base].body, object.body)
                   THEN as(object.kind, object.body, c[base].depth + 1, "unapplied")
              ELSE as(c[base].kind, Git!Runs(c[base].body, object.body), c[base].depth + 1, Null)
  BY <1>1 DEF Git!Resolve
<1> QED
  BY <1>2

(* What is expanded of an object is that object, and one that is not has   *)
(* no base, or one at the end of too long a chain.                         *)
Expanded(c, k) ==
    LET base == Git!BaseOf(Pack.objects[k], k, SubSeq(c, 1, k - 1))
    IN  /\ c[k].problem = Null => lines[k] # Torn /\ c[k].kind = lines[k].kind /\ c[k].body = lines[k].body
        /\ c[k].problem # Null => base = 0 \/ c[base].depth >= MaxDepth

(* The next object of the pack.                                            *)
LEMMA ResolveIs ==
    ASSUME Opened, format = "git_pack", Linked, NEW c, IsList(c), NEW n \in 1..Len(lines), n = Len(c) + 1,
           lines[n] # Torn, \A k \in 1..Len(c) : Expanded(c, k),
           NEW found, found = Git!Resolve(Packed(n), n, c),
           NEW base, base = Git!BaseOf(Packed(n), n, c)
    PROVE  /\ found.problem = Null => found.kind = lines[n].kind /\ found.body = lines[n].body
           /\ found.problem # Null => base = 0 \/ c[base].depth >= MaxDepth
<1> DEFINE object == Packed(n)
           line == lines[n]
<1>1. ObjectFits(line)
  BY ObjectIs
<1>2. Null \notin {"unexpanded", "baseless", "deep", "unapplied"}
  BY Marks
<1>3. Len(lines) \in Nat /\ Len(c) \in Nat /\ DOMAIN lines = 1..Len(lines)
  BY ListFacts DEF Opened, OnDisk
<1>4. CASE line.how = "whole"
  <2>1. object = [kind |-> line.kind, body |-> line.body]
    BY <1>4 DEF Packed
  <2>2. object.kind = line.kind /\ object.body = line.body /\ object.kind \in Git!Whole
    BY <1>1, <2>1 DEF ObjectFits
  <2> HIDE DEF object, line
  <2>3. found = [kind |-> object.kind, body |-> object.body, depth |-> 0, problem |-> Null]
    BY <2>2 DEF Git!Resolve, object
  <2> QED
    BY <2>2, <2>3 DEF line
<1>5. CASE line.how = "offset"
  <2> DEFINE p == n - line.back
  <2>1. object = [kind |-> "offset", back |-> line.back, body |-> DeltaOf(lines[p].body, line.body)]
    BY <1>5 DEF Packed
  <2>2. object.kind = "offset" /\ object.back = line.back /\ object.body = DeltaOf(lines[p].body, line.body)
    BY <2>1
  <2>3. lines[p].kind = line.kind /\ lines[p] # Torn
    BY <1>3, <1>5 DEF Linked
  <2> HIDE DEF object, line
  <2>4. base = Git!BaseOf(object, n, c) /\ found = Git!Resolve(object, n, c)
    BY DEF object
  <2>5. base # 0 => base \in 1..Len(c) /\ c[base].problem = Null /\ base = p
    BY <2>2, <2>4, BaseIs
  <2>6. base # 0 => p \in 1..Len(lines) /\ c[p].kind = line.kind /\ c[p].body = lines[p].body
    <3> SUFFICES ASSUME base # 0 PROVE p \in 1..Len(lines) /\ c[p].kind = line.kind /\ c[p].body = lines[p].body
      OBVIOUS
    <3>1. Expanded(c, p) /\ c[p].problem = Null
      BY <2>5
    <3>2. c[p].kind = lines[p].kind /\ c[p].body = lines[p].body
      BY <3>1 DEF Expanded
    <3>3. p \in 1..Len(lines)
      BY <1>3, <2>5
    <3> QED
      BY <2>3, <3>2, <3>3
  <2>7. base # 0 => Git!Applies(c[p].body, object.body) /\ Git!Runs(c[p].body, object.body) = line.body
    <3> SUFFICES ASSUME base # 0
                 PROVE  Git!Applies(c[p].body, object.body) /\ Git!Runs(c[p].body, object.body) = line.body
      OBVIOUS
    <3>1. ObjectFits(lines[p])
      BY <2>3, <2>6, ObjectIs
    <3>2. IsList(lines[p].body) /\ IsList(line.body)
      BY <1>1, <3>1 DEF ObjectFits
    <3> QED
      BY <2>2, <2>6, <3>2, DeltaApplies
  <2> HIDE DEF p
  <2>8. \/ base = 0 /\ found.problem \in {"unexpanded", "baseless"}
        \/ base # 0 /\ c[base].depth >= MaxDepth /\ found.problem = "deep"
        \/ base # 0 /\ ~Git!Applies(c[base].body, object.body) /\ found.problem = "unapplied"
        \/ /\ base # 0 /\ found.problem = Null /\ found.kind = c[base].kind
           /\ found.body = Git!Runs(c[base].body, object.body)
    BY <2>2, <2>4, ResolveDelta
  <2> QED
    BY <1>2, <2>5, <2>6, <2>7, <2>8 DEF line
<1>6. CASE line.how = "reference"
  <2>1. object = [kind |-> "reference", ref |-> <<line.kind, line.base>>, body |-> DeltaOf(line.base, line.body)]
    BY <1>6 DEF Packed
  <2>2. object.kind = "reference" /\ object.ref = <<line.kind, line.base>> /\ object.body = DeltaOf(line.base, line.body)
    BY <2>1
  <2> HIDE DEF object, line
  <2>4. base = Git!BaseOf(object, n, c) /\ found = Git!Resolve(object, n, c)
    BY DEF object
  <2>5. base # 0 => <<c[base].kind, c[base].body>> = object.ref
    <3>1. object.kind # "offset"
      BY <2>2
    <3> QED
      BY <2>4, <3>1, BaseIs
  <2>6. base # 0 => c[base].kind = line.kind /\ c[base].body = line.base
    BY <2>2, <2>5
  <2>7. base # 0 => Git!Applies(c[base].body, object.body) /\ Git!Runs(c[base].body, object.body) = line.body
    <3>1. IsList(line.base) /\ IsList(line.body)
      BY <1>1 DEF ObjectFits
    <3> QED
      BY <2>2, <2>6, <3>1, DeltaApplies
  <2>8. \/ base = 0 /\ found.problem \in {"unexpanded", "baseless"}
        \/ base # 0 /\ c[base].depth >= MaxDepth /\ found.problem = "deep"
        \/ base # 0 /\ ~Git!Applies(c[base].body, object.body) /\ found.problem = "unapplied"
        \/ /\ base # 0 /\ found.problem = Null /\ found.kind = c[base].kind
           /\ found.body = Git!Runs(c[base].body, object.body)
    BY <2>2, <2>4, ResolveDelta
  <2> QED
    BY <1>2, <2>6, <2>7, <2>8 DEF line
<1> QED
  BY <1>1, <1>4, <1>5, <1>6 DEF ObjectFits

(* Those before it stay what they were.                                    *)
LEMMA ExpandedMore ==
    ASSUME NEW c, IsList(c), NEW n \in 1..Len(lines), n = Len(c) + 1, lines[n] # Torn, IsList(lines),
           \A k \in 1..Len(c) : Expanded(c, k), NEW found, NEW base,
           base = Git!BaseOf(Pack.objects[n], n, c),
           found.problem = Null => found.kind = lines[n].kind /\ found.body = lines[n].body,
           found.problem # Null => base = 0 \/ c[base].depth >= MaxDepth,
           NEW d, d = Append(c, found)
    PROVE  \A k \in 1..Len(d) : Expanded(d, k)
<1>1. /\ IsList(d) /\ Len(d) = n /\ d[n] = found /\ Len(c) \in Nat
      /\ \A i \in 1..Len(c) : d[i] = c[i]
  <2>1. Len(c) \in Nat
    BY ListFacts
  <2>2. /\ IsList(Append(c, found)) /\ Len(Append(c, found)) = Len(c) + 1
        /\ Append(c, found)[Len(c) + 1] = found /\ \A i \in 1..Len(c) : Append(c, found)[i] = c[i]
    BY ListAppends, ZenonT(30)
  <2> QED
    BY <2>1, <2>2
<1>2. \A j \in 0..Len(c) : SubSeq(d, 1, j) = SubSeq(c, 1, j)
  <2> TAKE j \in 0..Len(c)
  <2>1. j \in 0..Len(d)
    BY <1>1
  <2>2. /\ IsList(SubSeq(d, 1, j)) /\ Len(SubSeq(d, 1, j)) = j /\ \A i \in 1..j : SubSeq(d, 1, j)[i] = d[i]
        /\ IsList(SubSeq(c, 1, j)) /\ Len(SubSeq(c, 1, j)) = j /\ \A i \in 1..j : SubSeq(c, 1, j)[i] = c[i]
    BY <1>1, <2>1, BeginningOf
  <2>3. \A i \in 1..j : d[i] = c[i]
    BY <1>1
  <2> QED
    BY <2>2, <2>3, SameLists
<1>3. SubSeq(c, 1, Len(c)) = c
  <2>1. Len(c) \in 0..Len(c)
    BY <1>1
  <2>2. /\ IsList(SubSeq(c, 1, Len(c))) /\ Len(SubSeq(c, 1, Len(c))) = Len(c)
        /\ \A i \in 1..Len(c) : SubSeq(c, 1, Len(c))[i] = c[i]
    BY <2>1, BeginningOf
  <2> QED
    BY <2>2, SameLists
<1>4. ASSUME NEW k \in 1..Len(c)
      PROVE  Expanded(d, k)
  <2> DEFINE under == SubSeq(c, 1, k - 1)
             b == Git!BaseOf(Pack.objects[k], k, under)
  <2>1. k - 1 \in 0..Len(c) /\ SubSeq(d, 1, k - 1) = under
    BY <1>1, <1>2
  <2>2. IsList(under) /\ Len(under) = k - 1
    BY <2>1, BeginningOf
  <2> HIDE DEF under
  <2>3. b # 0 => b \in 1..(k - 1)
    BY <2>2, BaseIs
  <2>4. b # 0 => d[b] = c[b]
    BY <1>1, <2>3
  <2>5. Expanded(c, k) /\ d[k] = c[k]
    BY <1>1
  <2>6. /\ c[k].problem = Null => lines[k] # Torn /\ c[k].kind = lines[k].kind /\ c[k].body = lines[k].body
        /\ c[k].problem # Null => b = 0 \/ c[b].depth >= MaxDepth
    BY <2>5 DEF Expanded, under
  <2>7. b = Git!BaseOf(Pack.objects[k], k, SubSeq(d, 1, k - 1))
    BY <2>1
  <2> HIDE DEF b
  <2> QED
    BY <2>4, <2>5, <2>6, <2>7 DEF Expanded
<1>5. Expanded(d, n)
  <2>1. n - 1 = Len(c)
    BY <1>1
  <2>2. SubSeq(d, 1, n - 1) = c
    <3>1. Len(c) \in 0..Len(c)
      BY <1>1
    <3> QED
      BY <1>2, <1>3, <2>1, <3>1
  <2>3. base = Git!BaseOf(Pack.objects[n], n, SubSeq(d, 1, n - 1))
    BY <2>2
  <2>4. base # 0 => base \in 1..Len(c)
    BY BaseIs
  <2>5. base # 0 => d[base] = c[base]
    BY <1>1, <2>4
  <2> QED
    BY <1>1, <2>3, <2>5 DEF Expanded
<1>6. \A k \in 1..n : k \in 1..Len(c) \/ k = n
  BY <1>1
<1> QED
  BY <1>1, <1>4, <1>5, <1>6

(* What is told of the objects that were expanded, and at the end of what  *)
(* was not read.                                                           *)
PackTold(evs, c, closed) ==
    \A e \in Range(evs) :
        \/ closed /\ e.loc[1] = <<"file", 0>>
        \/ \E k \in 1..Len(c) :
              /\ e.loc[1] = <<"offset", k>> /\ e.raw = [type |-> c[k].kind, content |-> c[k].body]
              /\ e.kind = "file.snapshot" <=> c[k].problem = Null /\ Git!Interprets(c[k].kind, c[k].body)

(* One more object is told of.                                             *)
LEMMA TellsObject ==
    ASSUME NEW evs, NEW c, IsList(c), Distinct(evs), PackTold(evs, c, FALSE), NEW n, n = Len(c) + 1,
           NEW found, NEW d, d = Append(c, found)
    PROVE  Distinct(evs \o Git!PackedEvent(n, found)) /\ PackTold(evs \o Git!PackedEvent(n, found), d, FALSE)
<1> DEFINE where == <<"offset", n>>
           told == Git!PackedEvent(n, found)
           interprets == Git!Interprets(found.kind, found.body)
<1>1. PICK e : /\ told = <<e>> /\ e.loc[1] = where /\ e.raw = [type |-> found.kind, content |-> found.body]
               /\ e.kind = "file.snapshot" <=> found.problem = Null /\ interprets
  <2> DEFINE says == [depth |-> found.depth, problem |-> found.problem]
             raw == [type |-> found.kind, content |-> found.body]
  <2>1. told = IF found.problem # Null \/ ~interprets
               THEN <<Git!Ev(where, "self", 0, "unparsed.record", raw, Git!NoStamp, says)>>
               ELSE <<Git!Ev(where, "self", 0, "file.snapshot", raw, Git!NoStamp, says)>>
    BY DEF Git!PackedEvent
  <2> HIDE DEF interprets, told, where, raw, says
  <2>2. \A kind : LET x == Git!Ev(where, "self", 0, kind, raw, Git!NoStamp, says)
                  IN  x.loc[1] = where /\ x.raw = raw /\ x.kind = kind
    BY DEF Git!Ev
  <2>3. CASE found.problem # Null \/ ~interprets
    <3> DEFINE x == Git!Ev(where, "self", 0, "unparsed.record", raw, Git!NoStamp, says)
    <3>1. told = <<x>> /\ x.loc[1] = where /\ x.raw = raw /\ x.kind # "file.snapshot"
      BY <2>1, <2>2, <2>3
    <3> HIDE DEF x
    <3> QED
      BY <2>3, <3>1 DEF raw
  <2>4. CASE found.problem = Null /\ interprets
    <3> DEFINE x == Git!Ev(where, "self", 0, "file.snapshot", raw, Git!NoStamp, says)
    <3>1. told = <<x>> /\ x.loc[1] = where /\ x.raw = raw /\ x.kind = "file.snapshot"
      BY <2>1, <2>2, <2>4
    <3> HIDE DEF x
    <3> QED
      BY <2>4, <3>1 DEF raw
  <2> QED
    BY <2>3, <2>4
<1> HIDE DEF told, where, interprets
<1>2. Len(c) \in Nat /\ IsList(d) /\ Len(d) = n /\ d[n] = found /\ \A k \in 1..Len(c) : d[k] = c[k]
  <2>1. Len(c) \in Nat
    BY ListFacts
  <2>2. /\ IsList(Append(c, found)) /\ Len(Append(c, found)) = Len(c) + 1
        /\ Append(c, found)[Len(c) + 1] = found /\ \A k \in 1..Len(c) : Append(c, found)[k] = c[k]
    BY ListAppends, ZenonT(30)
  <2> QED
    BY <2>1, <2>2
<1>3. \A k \in 1..Len(c) : k \in 1..n /\ k # n
  BY <1>2
<1>4. Apart(evs, <<e>>)
  <2> SUFFICES ASSUME NEW x \in Range(evs) PROVE Identity(x) # Identity(e)
    BY ShortLists DEF Apart
  <2>1. PICK k \in 1..Len(c) : x.loc[1] = <<"offset", k>>
    BY DEF PackTold
  <2>2. x.loc[1] # e.loc[1]
    BY <1>1, <1>3, <2>1 DEF where
  <2> QED
    BY <2>2 DEF Identity
<1>5. Distinct(evs \o told) /\ Range(evs \o told) = Range(evs) \cup {e}
  BY <1>1, <1>4, OneIsDistinct, DistinctJoin, ShortLists
<1>6. PackTold(evs \o told, d, FALSE)
  <2> SUFFICES ASSUME NEW x \in Range(evs \o told)
               PROVE  \E k \in 1..n :
                         /\ x.loc[1] = <<"offset", k>> /\ x.raw = [type |-> d[k].kind, content |-> d[k].body]
                         /\ x.kind = "file.snapshot" <=> d[k].problem = Null /\ Git!Interprets(d[k].kind, d[k].body)
    BY <1>2 DEF PackTold
  <2>1. CASE x = e
    <3>1. n \in 1..n
      BY <1>2
    <3> WITNESS n \in 1..n
    <3> QED
      BY <1>1, <1>2, <2>1 DEF where, interprets
  <2>2. CASE x \in Range(evs)
    <3>1. PICK k \in 1..Len(c) :
              /\ x.loc[1] = <<"offset", k>> /\ x.raw = [type |-> c[k].kind, content |-> c[k].body]
              /\ x.kind = "file.snapshot" <=> c[k].problem = Null /\ Git!Interprets(c[k].kind, c[k].body)
      BY <2>2 DEF PackTold
    <3>2. k \in 1..n /\ d[k] = c[k]
      BY <1>2, <1>3
    <3> WITNESS k \in 1..n
    <3> QED
      BY <3>1, <3>2
  <2> QED
    BY <1>5, <2>1, <2>2
<1> QED
  BY <1>5, <1>6 DEF told

(* And of what was not read.                                               *)
LEMMA PackFinishes ==
    ASSUME NEW evs, NEW c, Distinct(evs), PackTold(evs, c, FALSE), NEW pack
    PROVE  Distinct(evs \o Git!FinishPack(pack)) /\ PackTold(evs \o Git!FinishPack(pack), c, TRUE)
<1> DEFINE told == Git!FinishPack(pack)
<1>1. told = <<>> \/ \E e : told = <<e>> /\ e.loc[1] = <<"file", 0>>
  <2>1. \A reason : Git!FileNote(reason).loc[1] = <<"file", 0>>
    BY DEF Git!FileNote, Git!FileOf, Git!Unparsed, Git!Ev
  <2>2. told \in {<<>>, <<Git!FileNote("pack")>>, <<Git!FileNote("nothing")>>, <<Git!FileNote("stopped")>>}
    BY DEF Git!FinishPack
  <2> QED
    BY <2>1, <2>2
<1> HIDE DEF told
<1>2. Distinct(told) /\ \A e \in Range(told) : e.loc[1] = <<"file", 0>>
  BY <1>1, OneIsDistinct, ShortLists
<1>3. Apart(evs, told)
  <2> SUFFICES ASSUME NEW x \in Range(evs), NEW y \in Range(told) PROVE Identity(x) # Identity(y)
    BY DEF Apart
  <2>1. PICK k \in 1..Len(c) : x.loc[1] = <<"offset", k>>
    BY DEF PackTold
  <2>2. x.loc[1] # y.loc[1]
    BY <1>2, <2>1
  <2> QED
    BY <2>2 DEF Identity
<1>4. Distinct(evs \o told) /\ Range(evs \o told) = Range(evs) \cup Range(told)
  BY <1>2, <1>3, DistinctJoin
<1>5. PackTold(evs \o told, c, TRUE)
  BY <1>2, <1>4 DEF PackTold
<1> QED
  BY <1>4, <1>5 DEF told

(* What is expanded of the objects that were read, and what is told.       *)
ReadInPack ==
    format = "git_pack" =>
        /\ Linked /\ Distinct(events)
        /\ at > 0 =>
              /\ at \in 1..(Len(items) + 2)
              /\ IsList(carried) /\ Len(carried) = Lesser(at - 1, Len(items))
              /\ \A k \in 1..Len(carried) : Expanded(carried, k)
              /\ PackTold(events, carried, at = Len(items) + 2)

(* The pack is opened.                                                     *)
LEMMA OpensPack ==
    ASSUME Opened, ReadInPack, Open, format = "git_pack"
    PROVE  ReadInPack'
<1>1. at = 0 /\ at' = 1 /\ carried' = StartOf /\ events' = Preface /\ format' = format /\ lines' = lines
  BY DEF Open
<1>2. StartOf = <<>> /\ Preface = <<>>
  BY DEF StartOf, Preface, Whole
<1>3. Len(items') \in Nat
  <2>1. items' = Items /\ IsList(lines)
    BY DEF Open, Opened, OnDisk
  <2> QED
    BY <2>1, ObjectsRead
<1>4. at' \in 1..(Len(items') + 2) /\ Lesser(at' - 1, Len(items')) = 0 /\ at' # Len(items') + 2
  BY <1>1, <1>3 DEF Lesser
<1>5. IsList(carried') /\ Len(carried') = 0 /\ Range(events') = {} /\ Distinct(events')
  BY <1>1, <1>2, ShortLists, OneIsDistinct
<1>6. Linked'
  BY <1>1 DEF ReadInPack, Linked
<1>7. PackTold(events', carried', at' = Len(items') + 2) /\ \A k \in 1..Len(carried') : FALSE
  BY <1>5 DEF PackTold
<1> QED
  BY <1>1, <1>4, <1>5, <1>6, <1>7 DEF ReadInPack

(* An object of it is read.                                                *)
LEMMA GoesOnInPack ==
    ASSUME Opened, ReadInPack, Next, ~Open, ~Close, format = "git_pack"
    PROVE  ReadInPack'
<1> DEFINE result == Git!TakeObject(Element, carried)
<1>1. /\ at \in DOMAIN items /\ at' = at + 1 /\ carried' = result.carried /\ events' = events \o result.events
      /\ format' = format /\ file' = file /\ lines' = lines /\ items' = items
  <2>1. ReadPack
    BY ReaderIs
  <2> HIDE DEF result
  <2> QED
    BY <2>1 DEF ReadPack, Read, result
<1>2. at # 0 /\ at \in Nat
  BY <1>1 DEF Opened
<1>3. at > 0
  BY <1>2
<1>4. /\ IsList(items) /\ Len(items) \in Nat /\ Len(items) <= Len(lines) /\ DOMAIN items = 1..Len(items)
      /\ \A k \in 1..Len(items) : items[k].object = Packed(k) /\ items[k].at = k /\ lines[k] # Torn
  <2>1. items = Items /\ IsList(lines)
    BY <1>3 DEF Opened, OnDisk
  <2> QED
    BY <2>1, ObjectsRead, ListFacts
<1>5. Element.object = Packed(at) /\ Element.at = at /\ lines[at] # Torn /\ at \in 1..Len(items)
  BY <1>1, <1>4 DEF Element
<1>6. Len(lines) \in Nat /\ IsList(lines) /\ DOMAIN lines = 1..Len(lines)
  BY ListFacts DEF Opened, OnDisk
<1>7. at \in 1..Len(lines) /\ at <= Len(items) /\ Lesser(at - 1, Len(items)) = at - 1
      /\ Lesser(at' - 1, Len(items')) = at /\ at # Len(items) + 2 /\ at' # Len(items') + 2
      /\ at' \in 1..(Len(items') + 2)
  BY <1>1, <1>2, <1>4, <1>5, <1>6 DEF Lesser
<1>8. /\ Linked /\ Distinct(events) /\ IsList(carried) /\ Len(carried) = at - 1
      /\ \A k \in 1..Len(carried) : Expanded(carried, k)
      /\ PackTold(events, carried, FALSE)
  BY <1>3, <1>7 DEF ReadInPack
<1>9. at = Len(carried) + 1
  BY <1>2, <1>8
<1> DEFINE found == Git!Resolve(Packed(at), at, carried)
           base == Git!BaseOf(Packed(at), at, carried)
           d == Append(carried, found)
<1>10. carried' = d /\ events' = events \o Git!PackedEvent(at, found)
  <2>1. result = [carried |-> d, events |-> Git!PackedEvent(at, found)]
    BY <1>5 DEF Git!TakeObject
  <2> HIDE DEF result, d, found
  <2> QED
    BY <1>1, <2>1
<1> HIDE DEF result, found, base, d
<1>11. Pack.objects[at] = Packed(at)
  BY <1>6, <1>7 DEF Pack
<1>12. /\ found.problem = Null => found.kind = lines[at].kind /\ found.body = lines[at].body
       /\ found.problem # Null => base = 0 \/ carried[base].depth >= MaxDepth
  BY <1>5, <1>7, <1>8, <1>9, ResolveIs DEF found, base
<1>13. \A k \in 1..Len(d) : Expanded(d, k)
  <2>1. base = Git!BaseOf(Pack.objects[at], at, carried) /\ d = Append(carried, found)
    BY <1>11 DEF base, d
  <2> QED
    BY <1>5, <1>6, <1>7, <1>8, <1>9, <1>12, <2>1, ExpandedMore
<1>14. Distinct(events') /\ PackTold(events', d, FALSE)
  <2>1. d = Append(carried, found)
    BY DEF d
  <2> QED
    BY <1>8, <1>9, <1>10, <2>1, TellsObject
<1>15. IsList(d) /\ Len(d) = at
  <2>1. IsList(Append(carried, found)) /\ Len(Append(carried, found)) = Len(carried) + 1
    BY <1>8, ListAppends
  <2> QED
    BY <1>9, <2>1 DEF d
<1>16. Linked'
  BY <1>1, <1>8 DEF Linked
<1>17. (\A k \in 1..Len(carried) : Expanded(carried, k))'
  <2>1. Pack' = Pack
    BY <1>1 DEF Pack, Packed
  <2> QED
    BY <1>1, <1>10, <1>13, <2>1 DEF Expanded
<1>18. /\ IsList(carried') /\ Len(carried') = Lesser(at' - 1, Len(items'))
       /\ PackTold(events', carried', at' = Len(items') + 2)
  <2>1. IsList(carried') /\ Len(carried') = at
    BY <1>10, <1>15
  <2>2. PackTold(events', carried', FALSE) /\ (at' = Len(items') + 2) = FALSE
    BY <1>7, <1>10, <1>14
  <2> QED
    BY <1>7, <2>1, <2>2
<1> QED
  BY <1>7, <1>14, <1>16, <1>17, <1>18 DEF ReadInPack

(* It is closed.                                                           *)
LEMMA EndsPack ==
    ASSUME Opened, ReadInPack, Close, format = "git_pack"
    PROVE  ReadInPack'
<1>1. /\ at = Len(items) + 1 /\ at' = Len(items) + 2 /\ events' = events \o Finish
      /\ format' = format /\ file' = file /\ lines' = lines /\ items' = items /\ carried' = carried
  BY DEF Close
<1>2. at > 0
  <2>1. at = 0 => Len(items) = 0
    BY ShortLists DEF Opened
  <2> QED
    BY <1>1, <2>1 DEF Opened
<1>3. Len(items) \in Nat
  <2>1. items = Items /\ IsList(lines)
    BY <1>2 DEF Opened, OnDisk
  <2> QED
    BY <2>1, ObjectsRead
<1>4. at' \in 1..(Len(items') + 2) /\ Lesser(at' - 1, Len(items')) = Len(items) /\ Lesser(at - 1, Len(items)) = Len(items)
      /\ at # Len(items) + 2
  BY <1>1, <1>3 DEF Lesser
<1>5. /\ Linked /\ Distinct(events) /\ IsList(carried) /\ Len(carried) = Len(items)
      /\ \A k \in 1..Len(carried) : Expanded(carried, k)
      /\ PackTold(events, carried, FALSE)
  BY <1>2, <1>4 DEF ReadInPack
<1>6. Finish = Git!FinishPack(Pack)
  BY DEF Finish
<1>7. Distinct(events') /\ PackTold(events', carried', TRUE)
  BY <1>1, <1>5, <1>6, PackFinishes
<1>8. Linked'
  BY <1>1, <1>5 DEF Linked
<1>9. (\A k \in 1..Len(carried) : Expanded(carried, k))'
  <2>1. Pack' = Pack
    BY <1>1 DEF Pack, Packed
  <2> QED
    BY <1>1, <1>5, <2>1 DEF Expanded
<1>10. IsList(carried') /\ Len(carried') = Lesser(at' - 1, Len(items')) /\ (at' = Len(items') + 2) = TRUE
  BY <1>1, <1>4, <1>5
<1>11. PackTold(events', carried', at' = Len(items') + 2)
  BY <1>7, <1>10
<1> QED
  BY <1>4, <1>7, <1>8, <1>9, <1>10, <1>11 DEF ReadInPack

(* So it is always what was packed that is told.                           *)
LEMMA AlwaysInPack == Spec => []ReadInPack
<1>1. Init => ReadInPack
  <2> SUFFICES ASSUME Init PROVE ReadInPack
    OBVIOUS
  <2>1. events = <<>> /\ ~(at > 0) /\ (format = "git_pack" => Linked)
    BY DEF Init, Writable, Linked
  <2> QED
    BY <2>1, OneIsDistinct DEF ReadInPack
<1>2. Opened /\ ReadInPack /\ [Next]_vars => ReadInPack'
  <2> SUFFICES ASSUME Opened, ReadInPack, [Next]_vars PROVE ReadInPack'
    OBVIOUS
  <2>1. CASE UNCHANGED vars
    <3>1. /\ format' = format /\ file' = file /\ lines' = lines /\ items' = items /\ at' = at
          /\ carried' = carried /\ events' = events
      BY <2>1 DEF vars
    <3>2. Pack' = Pack
      BY <3>1 DEF Pack, Packed
    <3>3. (\A k \in 1..Len(carried) : Expanded(carried, k)) => (\A k \in 1..Len(carried) : Expanded(carried, k))'
      BY <3>1, <3>2 DEF Expanded
    <3>4. Linked => Linked'
      BY <3>1 DEF Linked
    <3> QED
      BY <3>1, <3>3, <3>4 DEF ReadInPack
  <2>2. CASE format # "git_pack"
    BY <2>2, FormatStays DEF ReadInPack
  <2>3. CASE Next /\ format = "git_pack"
    BY <2>3, OpensPack, EndsPack, GoesOnInPack
  <2> QED
    BY <2>1, <2>2, <2>3
<1> QED
  BY <1>1, <1>2, FileOpened, PTL DEF Spec

(* What a pack's event says that an object is, is what was packed, and one *)
(* is left unexpanded for want of a base, for the length of its chain or   *)
(* because it is no tree although it says so (git_pack.py, _resolve).      *)
THEOREM AlwaysExpandedIsWhatWasPacked == Spec => []ExpandedIsWhatWasPacked
<1>1. Opened /\ ReadInPack => ExpandedIsWhatWasPacked
  <2> SUFFICES ASSUME Opened, ReadInPack, format = "git_pack", NEW i \in DOMAIN events,
                      events[i].loc[1][1] = "offset",
                      NEW e, e = events[i], NEW n, n = e.loc[1][2],
                      NEW base, base = Git!BaseOf(Pack.objects[n], n, SubSeq(carried, 1, n - 1))
               PROVE  /\ e.kind = "file.snapshot" => e.raw = [type |-> lines[n].kind, content |-> lines[n].body]
                      /\ e.kind # "file.snapshot" =>
                            \/ base = 0 \/ carried[base].depth >= MaxDepth
                            \/ ~Git!Interprets(lines[n].kind, lines[n].body)
    BY DEF ExpandedIsWhatWasPacked
  <2>1. at > 0
    BY ShortLists DEF Opened
  <2>2. e \in Range(events)
    BY DEF Range
  <2>3. ~(e.loc[1] = <<"file", 0>>)
    OBVIOUS
  <2>4. PICK k \in 1..Len(carried) :
            /\ e.loc[1] = <<"offset", k>> /\ e.raw = [type |-> carried[k].kind, content |-> carried[k].body]
            /\ e.kind = "file.snapshot" <=> carried[k].problem = Null /\ Git!Interprets(carried[k].kind, carried[k].body)
    BY <2>1, <2>2, <2>3 DEF ReadInPack, PackTold
  <2>5. n = k
    BY <2>4
  <2>6. Expanded(carried, n)
    BY <2>1, <2>5 DEF ReadInPack
  <2>7. /\ carried[n].problem = Null => carried[n].kind = lines[n].kind /\ carried[n].body = lines[n].body
        /\ carried[n].problem # Null => base = 0 \/ carried[base].depth >= MaxDepth
    BY <2>6 DEF Expanded
  <2> QED
    BY <2>4, <2>5, <2>7
<1> QED
  BY <1>1, FileOpened, AlwaysInPack, PTL

(* ------------------------------------------------------- identities -- *)

(* Of every format but the four of SharesPlaces (Cline's messages and      *)
(* hooks, the server registries and the index of a repository, of which    *)
(* parse_identities shows that it fails), no two events of a file have one *)
(* identity, so that none is dropped when a case is filled (model/event.py,*)
(* event_id).                                                              *)
THEOREM AlwaysIdentitiesDistinct == Spec => []IdentitiesDistinct
<1>1. Opened /\ ReadByElement /\ ReadInEntries /\ ReadAsItStands /\ ReadInPack => IdentitiesDistinct
  <2> SUFFICES ASSUME Opened, ReadByElement, ReadInEntries, ReadAsItStands, ReadInPack, format \notin SharesPlaces
               PROVE  EveryEventIsItsOwn
    BY DEF IdentitiesDistinct
  <2>1. ASSUME Distinct(events)
        PROVE  EveryEventIsItsOwn
    <3>1. DOMAIN events = 1..Len(events)
      BY <2>1, ListFacts DEF Distinct
    <3> QED
      BY <2>1, <3>1 DEF Distinct, EveryEventIsItsOwn, EventId, Identity
  <2>2. CASE format \in ByElement
    BY <2>1, <2>2 DEF ReadByElement
  <2>3. CASE format \in Gathered
    <3>1. CASE at = 0
      <4>1. events = <<>>
        BY <3>1 DEF Opened
      <4> QED
        BY <2>1, <4>1, OneIsDistinct
    <3>2. CASE at # 0
      <4>1. Alone(events)
        BY <2>3, <3>2 DEF ReadInEntries, Opened
      <4>2. ASSUME NEW i \in 1..Len(events), NEW j \in 1..Len(events), i < j
            PROVE  Identity(events[i]) # Identity(events[j])
        <5>1. events[i].loc[1] # events[j].loc[1]
          BY <4>1, <4>2 DEF Alone
        <5> QED
          BY <5>1 DEF Identity
      <4> QED
        BY <2>1, <4>1, <4>2 DEF Alone, Distinct
    <3> QED
      BY <3>1, <3>2
  <2>4. CASE format \in AsItStands
    BY <2>1, <2>4 DEF ReadAsItStands
  <2>5. CASE format = "git_pack"
    BY <2>1, <2>5 DEF ReadInPack
  <2>6. format \in ByElement \cup Gathered \cup AsItStands \cup {"git_pack"}
    BY DEF Opened, OnDisk, ByElement, AsItStands, SharesPlaces
  <2> QED
    BY <2>2, <2>3, <2>4, <2>5, <2>6
<1> QED
  BY <1>1, FileOpened, AlwaysByElement, AlwaysInEntries, AlwaysAsItStands, AlwaysInPack, PTL

(* ------------------------------------------------ the batches of a log -- *)

(* The events at a place. *)
ToldAt(evs, i) == Those(evs, LAMBDA e : e.loc[1] = i)

(* Those of what is told first come first; of what is elsewhere there are  *)
(* none, and of what is all there it is all of them.                       *)
LEMMA ToldFacts ==
    ASSUME NEW i
    PROVE  /\ \A s : IsList(s) => IsList(ToldAt(s, i))
           /\ \A s, t : IsList(s) /\ IsList(t) => ToldAt(s \o t, i) = ToldAt(s, i) \o ToldAt(t, i)
           /\ \A s : IsList(s) /\ (\A e \in Range(s) : e.loc[1] # i) => ToldAt(s, i) = <<>>
           /\ \A s : IsList(s) /\ (\A e \in Range(s) : e.loc[1] = i) => ToldAt(s, i) = s
<1> DEFINE Picked(e) == When(e.loc[1] = i, <<e>>)
           made(s) == [k \in DOMAIN s |-> Picked(s[k])]
<1>0. \A s : ToldAt(s, i) = FlattenSeq(made(s))
  BY ReadersFlatten DEF ToldAt, Those
<1>1. \A e : /\ IsList(Picked(e)) /\ (e.loc[1] = i => Picked(e) = <<e>>) /\ (e.loc[1] # i => Picked(e) = <<>>)
  <2> TAKE e
  <2>1. CASE e.loc[1] = i
    BY <2>1, ShortLists DEF When
  <2>2. CASE e.loc[1] # i
    BY <2>2, ShortLists DEF When
  <2> QED
    BY <2>1, <2>2
<1> HIDE DEF Picked
<1>2. ASSUME NEW s, NEW t, IsList(s), IsList(t)
      PROVE  AreLists(made(s)) /\ FlattenSeq(made(s \o t)) = FlattenSeq(made(s)) \o FlattenSeq(made(t))
  <2> DEFINE g == [x \in Range(s) \cup Range(t) |-> Picked(x)]
             st == s \o t
  <2>1. \A x \in Range(s) \cup Range(t) : g[x] = Picked(x)
    OBVIOUS
  <2>2. /\ \A k \in DOMAIN s : s[k] \in Range(s)
        /\ \A k \in DOMAIN t : t[k] \in Range(t)
    BY DEF Range
  <2>3. Range(st) = Range(s) \cup Range(t)
    BY <1>2, ListsJoin
  <2> HIDE DEF g, st
  <2>4. \A k \in DOMAIN st : st[k] \in Range(st)
    BY DEF Range
  <2>5. made(s) = Made(g, s) /\ made(t) = Made(g, t) /\ made(st) = Made(g, st)
    BY <2>1, <2>2, <2>3, <2>4 DEF Made
  <2>6. \A x \in Range(s) \cup Range(t) : IsList(g[x])
    BY <1>1, <2>1
  <2> HIDE DEF made
  <2>7. AreLists(Made(g, s)) /\ FlattenSeq(Made(g, st)) = FlattenSeq(Made(g, s)) \o FlattenSeq(Made(g, t))
    BY <1>2, <2>6, EachOfJoin DEF st
  <2> QED
    BY <2>5, <2>7 DEF st
<1>3. ASSUME NEW s, IsList(s)
      PROVE  IsList(FlattenSeq(made(s)))
  <2>1. AreLists(made(s))
    BY <1>2, <1>3
  <2> HIDE DEF made
  <2> QED
    BY <2>1, FlattenFacts
<1>4. ASSUME NEW s, IsList(s), \A e \in Range(s) : e.loc[1] # i
      PROVE  FlattenSeq(made(s)) = <<>>
  <2> DEFINE u == made(s)
  <2>1. AreLists(u)
    BY <1>2, <1>4
  <2>2. \A k \in DOMAIN s : s[k] \in Range(s)
    BY DEF Range
  <2>3. \A k \in DOMAIN u : u[k] = <<>>
    BY <1>1, <1>4, <2>2
  <2> HIDE DEF u
  <2>4. \A k \in 1..Len(u) : Range(u[k]) = {}
    <3>1. DOMAIN u = 1..Len(u)
      BY <2>1, ListFacts DEF AreLists
    <3> QED
      BY <2>3, <3>1, ShortLists
  <2>5. IsList(FlattenSeq(u)) /\ Range(FlattenSeq(u)) = {}
    BY <2>1, <2>4, FlattenFacts
  <2>6. FlattenSeq(u) = <<>>
    BY <2>5, ListFacts
  <2> QED
    BY <2>6 DEF u
<1>5. ASSUME NEW s, IsList(s), \A e \in Range(s) : e.loc[1] = i
      PROVE  FlattenSeq(made(s)) = s
  <2>1. \A k \in DOMAIN s : s[k] \in Range(s)
    BY DEF Range
  <2>2. made(s) = [k \in DOMAIN s |-> <<s[k]>>]
    BY <1>1, <1>5, <2>1
  <2> HIDE DEF made
  <2> QED
    BY <1>5, <2>2, SinglesFlatten
<1> HIDE DEF made
<1> QED
  BY <1>0, <1>2, <1>3, <1>4, <1>5

(* What events keep. *)
RawsOf(evs) == [n \in DOMAIN evs |-> evs[n].raw]

(* The same of what the events at a place keep.                            *)
LEMMA RawsFacts ==
    ASSUME NEW i
    PROVE  /\ \A s, t : IsList(s) /\ IsList(t) => RawsAt(s \o t, i) = RawsAt(s, i) \o RawsAt(t, i)
           /\ \A s : IsList(s) /\ (\A e \in Range(s) : e.loc[1] # i) => RawsAt(s, i) = <<>>
           /\ \A s : IsList(s) /\ (\A e \in Range(s) : e.loc[1] = i) => RawsAt(s, i) = RawsOf(s)
           /\ \A s : IsList(s) => IsList(RawsAt(s, i))
<1>0. \A s : RawsAt(s, i) = RawsOf(ToldAt(s, i))
  BY DEF RawsAt, RawsOf, ToldAt
<1>1. ASSUME NEW s, IsList(s)
      PROVE  /\ IsList(RawsOf(s)) /\ Len(RawsOf(s)) = Len(s)
             /\ \A k \in 1..Len(s) : RawsOf(s)[k] = s[k].raw
  <2>1. DOMAIN s = 1..Len(s) /\ Len(s) \in Nat
    BY <1>1, ListFacts
  <2> DEFINE r == RawsOf(s)
  <2>2. r = [k \in 1..Len(s) |-> r[k]] /\ \A k \in 1..Len(s) : r[k] = s[k].raw
    BY <2>1 DEF RawsOf
  <2> HIDE DEF r
  <2>3. IsList(r) /\ Len(r) = Len(s)
    BY <2>1, <2>2, MadeIsList
  <2> QED
    BY <2>2, <2>3 DEF r
<1>2. ASSUME NEW s, NEW t, IsList(s), IsList(t)
      PROVE  RawsOf(s \o t) = RawsOf(s) \o RawsOf(t)
  <2> DEFINE st == s \o t
             rs == RawsOf(s)
             rt == RawsOf(t)
             r == rs \o rt
  <2>1. /\ IsList(st) /\ Len(st) = Len(s) + Len(t)
        /\ \A k \in 1..Len(s) : st[k] = s[k]
        /\ \A k \in 1..Len(s) + Len(t) : k \in 1..Len(s) \/ (k - Len(s) \in 1..Len(t) /\ st[k] = t[k - Len(s)])
    BY <1>2, ListsJoin
  <2>2. /\ IsList(rs) /\ Len(rs) = Len(s) /\ \A k \in 1..Len(s) : rs[k] = s[k].raw
        /\ IsList(rt) /\ Len(rt) = Len(t) /\ \A k \in 1..Len(t) : rt[k] = t[k].raw
    BY <1>1, <1>2
  <2> HIDE DEF st, rs, rt
  <2>3. /\ IsList(r) /\ Len(r) = Len(s) + Len(t)
        /\ \A k \in 1..Len(s) : r[k] = rs[k]
        /\ \A k \in 1..Len(s) + Len(t) : k \in 1..Len(s) \/ (k - Len(s) \in 1..Len(t) /\ r[k] = rt[k - Len(s)])
    <3>1. IsList(rs) /\ IsList(rt)
      BY <2>2
    <3>2. /\ IsList(r) /\ Len(r) = Len(rs) + Len(rt)
          /\ \A k \in 1..Len(rs) : r[k] = rs[k]
          /\ \A k \in 1..Len(rs) + Len(rt) :
                k \in 1..Len(rs) \/ (k - Len(rs) \in 1..Len(rt) /\ r[k] = rt[k - Len(rs)])
      BY <3>1, ListsJoin
    <3>3. Len(rs) = Len(s) /\ Len(rt) = Len(t)
      BY <2>2
    <3> HIDE DEF r
    <3> QED
      BY <3>2, <3>3
  <2> HIDE DEF r
  <2> DEFINE q == RawsOf(st)
  <2>4. IsList(q) /\ Len(q) = Len(st) /\ \A k \in 1..Len(st) : q[k] = st[k].raw
    BY <1>1, <2>1
  <2> HIDE DEF q
  <2>5. \A k \in 1..Len(q) : q[k] = r[k]
    <3> TAKE k \in 1..Len(q)
    <3>1. CASE k \in 1..Len(s)
      BY <2>1, <2>2, <2>3, <2>4, <3>1
    <3>2. CASE k \notin 1..Len(s)
      BY <2>1, <2>2, <2>3, <2>4, <3>2
    <3> QED
      BY <3>1, <3>2
  <2>6. q = r
    BY <2>1, <2>3, <2>4, <2>5, SameLists
  <2> QED
    BY <2>6 DEF q, r, st, rs, rt
<1>3. RawsOf(<<>>) = <<>>
  BY DEF RawsOf
<1>4. /\ \A s : IsList(s) => IsList(ToldAt(s, i))
      /\ \A s, t : IsList(s) /\ IsList(t) => ToldAt(s \o t, i) = ToldAt(s, i) \o ToldAt(t, i)
      /\ \A s : IsList(s) /\ (\A e \in Range(s) : e.loc[1] # i) => ToldAt(s, i) = <<>>
      /\ \A s : IsList(s) /\ (\A e \in Range(s) : e.loc[1] = i) => ToldAt(s, i) = s
  BY ToldFacts
<1>5. ASSUME NEW s, NEW t, IsList(s), IsList(t)
      PROVE  RawsAt(s \o t, i) = RawsAt(s, i) \o RawsAt(t, i)
  <2> DEFINE a == ToldAt(s, i)
             b == ToldAt(t, i)
  <2>1. IsList(a) /\ IsList(b) /\ ToldAt(s \o t, i) = a \o b
    BY <1>4, <1>5
  <2>2. RawsAt(s \o t, i) = RawsOf(a \o b) /\ RawsAt(s, i) = RawsOf(a) /\ RawsAt(t, i) = RawsOf(b)
    BY <1>0, <2>1
  <2> HIDE DEF a, b
  <2>3. RawsOf(a \o b) = RawsOf(a) \o RawsOf(b)
    BY <1>2, <2>1
  <2> QED
    BY <2>2, <2>3
<1> QED
  BY <1>0, <1>1, <1>3, <1>4, <1>5

(* That reading ended before the file is said of the file, or else as much *)
(* was read as ever is, which is said when the file is closed.             *)
Stopped(c, evs) ==
    /\ c.said => \E e \in Range(evs) : e.loc[1] = 0 /\ e.says = "stopped"
    /\ ~c.said => ~c.cut /\ c.seen = MaxRecords

(* The entries of a record are told as they stand in it, and all of them   *)
(* unless reading ends there.                                              *)
Writes(batch, n, body) ==
    /\ IsList(batch.events)
    /\ IsPrefix(RawsAt(batch.events, n), body)
    /\ \A i : i # n /\ i # 0 => RawsAt(batch.events, i) = <<>>
    /\ ~batch.carried.done => RawsAt(batch.events, n) = Lev!EntriesOf(body)
    /\ batch.carried.done => Stopped(batch.carried, batch.events)

(* So are those of any.                                                    *)
LEMMA BatchWrites ==
    ASSUME NEW n, n # 0, NEW body, IsList(body), NEW complete, NEW c,
           DOMAIN c = LogFields, c.seen \in 0..MaxRecords,
           NEW batch, batch = Lev!Batch(n, body, complete, c)
    PROVE  Writes(batch, n, body)
<1> DEFINE room == MaxRecords - c.seen
           entries == Lev!EntriesOf(body)
           read == IF Len(entries) <= room THEN entries ELSE SubSeq(entries, 1, room)
           u == [i \in DOMAIN read |-> <<Lev!Ev(n, "record", i - 1, "unparsed.record", read[i], Lev!NoStamp, read[i].is)>>]
           t == [i \in DOMAIN read |-> Lev!Ev(n, "record", i - 1, "unparsed.record", read[i], Lev!NoStamp, read[i].is)]
           full == Len(entries) > room
           broken == ~full /\ Lev!Malformed(body, complete)
           note == Lev!When(broken, Lev!Note("stopped"))
<1>1. MaxRecords \in Nat /\ room \in Nat
  BY Bounds
<1>2. /\ IsList(entries) /\ Len(entries) <= Len(body) /\ Len(entries) \in Nat
      /\ \A j \in 1..Len(entries) : entries[j] = body[j]
  <2>1. /\ IsList(entries) /\ Len(entries) <= Len(body)
        /\ \A j \in 1..Len(entries) : entries[j] = body[j]
    BY EntriesList
  <2> HIDE DEF entries
  <2> QED
    BY <2>1, ListFacts
<1>3. /\ IsList(read) /\ Len(read) \in 0..room
      /\ Len(read) <= Len(entries) /\ \A j \in 1..Len(read) : read[j] = entries[j]
      /\ IF Len(entries) <= room THEN read = entries ELSE Len(read) = room
  <2> HIDE DEF entries, room
  <2> QED
    BY <1>1, <1>2, RoomFor
<1>4. /\ batch.events = FlattenSeq(u) \o note
      /\ batch.carried = [c EXCEPT !.seen = @ + Len(read), !.cut = ~full /\ (@ \/ ~complete),
                                   !.done = full \/ broken, !.said = broken]
  BY LogsFlatten, Zenon DEF Lev!Batch, Lev!Each
<1>5. IsPrefix(read, body)
  <2>1. IsList(read) /\ Len(read) <= Len(body) /\ \A j \in 1..Len(read) : read[j] = body[j]
    <3> HIDE DEF read, entries, room
    <3>1. Len(read) \in Nat /\ Len(body) \in Nat
      BY <1>3, ListFacts
    <3>2. Len(read) <= Len(body)
      BY <1>2, <1>3, <3>1
    <3>3. \A j \in 1..Len(read) : j \in 1..Len(entries)
      BY <1>2, <1>3, <3>1
    <3> QED
      BY <1>2, <1>3, <3>2, <3>3
  <2> HIDE DEF read
  <2> QED
    BY <2>1, PrefixOf
<1>6. IsList(t) /\ (\A e \in Range(t) : e.loc[1] = n) /\ RawsOf(t) = read
  <2> HIDE DEF read
  <2>1. DOMAIN read = 1..Len(read) /\ Len(read) \in Nat
    BY <1>3, ListFacts
  <2>2. t = [i \in 1..Len(read) |-> t[i]]
    BY <2>1
  <2>3. \A i \in 1..Len(read) : t[i].loc[1] = n /\ t[i].raw = read[i]
    BY <2>1 DEF Lev!Ev
  <2> HIDE DEF t
  <2>4. IsList(t) /\ Len(t) = Len(read)
    BY <2>1, <2>2, MadeIsList
  <2>5. \A e \in Range(t) : e.loc[1] = n
    BY <2>3, <2>4, ListFacts
  <2>6. RawsOf(t) = [i \in 1..Len(read) |-> read[i]]
    <3>1. DOMAIN t = 1..Len(read)
      BY <2>4, ListFacts
    <3> QED
      BY <2>3, <3>1 DEF RawsOf
  <2>7. [i \in 1..Len(read) |-> read[i]] = read
    <3>1. read \in Seq(Range(read))
      BY <1>3 DEF IsList
    <3> QED
      BY <3>1
  <2> QED
    BY <2>4, <2>5, <2>6, <2>7
<1>7. FlattenSeq(u) = t
  <2>1. u = [i \in DOMAIN t |-> <<t[i]>>]
    <3> HIDE DEF read
    <3> QED
      OBVIOUS
  <2> HIDE DEF u, t
  <2> QED
    BY <1>6, <2>1, SinglesFlatten
<1>8. IsList(note) /\ (\A e \in Range(note) : e.loc[1] = 0) /\ (broken => \E e \in Range(note) : e.says = "stopped")
  <2> DEFINE x == Lev!Ev(0, "file", 0, "unparsed.record", Null, Lev!NoStamp, "stopped")
  <2>1. x.loc[1] = 0 /\ x.says = "stopped"
    BY DEF Lev!Ev
  <2>2. note = IF broken THEN <<x>> ELSE <<>>
    BY DEF Lev!When, Lev!Note
  <2> HIDE DEF note, x, broken
  <2>3. CASE broken
    <3>1. note = <<x>>
      BY <2>2, <2>3
    <3>2. IsList(note) /\ Range(note) = {x}
      BY <3>1, ShortLists
    <3> QED
      BY <2>1, <3>2
  <2>4. CASE ~broken
    BY <2>2, <2>4, ShortLists
  <2> QED
    BY <2>3, <2>4
<1>9. /\ batch.carried.done => full \/ broken
      /\ ~batch.carried.done => ~full
      /\ batch.carried.said => broken
      /\ ~batch.carried.said => ~broken
      /\ full => ~batch.carried.cut
      /\ batch.carried.seen = c.seen + Len(read)
  <2> HIDE DEF read, full, broken
  <2>1. /\ batch.carried.done = (full \/ broken) /\ batch.carried.said = broken
        /\ batch.carried.seen = c.seen + Len(read)
    BY <1>4 DEF LogFields
  <2>2. full => batch.carried.cut = FALSE
    BY <1>4 DEF LogFields
  <2> QED
    BY <2>1, <2>2
<1> HIDE DEF read, u, t, note, broken
<1>10. /\ IsList(batch.events)
       /\ RawsAt(batch.events, n) = read
       /\ \A i : i # n /\ i # 0 => RawsAt(batch.events, i) = <<>>
  <2>1. batch.events = t \o note /\ IsList(t \o note)
    BY <1>4, <1>6, <1>7, <1>8, ListsJoin
  <2>2. RawsAt(t \o note, n) = read
    <3>1. \A e \in Range(note) : e.loc[1] # n
      BY <1>8
    <3>2. RawsAt(t \o note, n) = RawsAt(t, n) \o RawsAt(note, n)
      BY <1>6, <1>8, RawsFacts
    <3>3. RawsAt(note, n) = <<>>
      BY <1>8, <3>1, RawsFacts
    <3>4. RawsAt(t, n) = read
      BY <1>6, RawsFacts
    <3>5. read \o <<>> = read
      BY <1>3, ShortLists, ListsJoin
    <3> QED
      BY <3>2, <3>3, <3>4, <3>5
  <2>3. ASSUME NEW i, i # n, i # 0
        PROVE  RawsAt(t \o note, i) = <<>>
    <3>1. IsList(t \o note) /\ Range(t \o note) = Range(t) \cup Range(note)
      BY <1>6, <1>8, ListsJoin
    <3>2. \A e \in Range(t \o note) : e.loc[1] # i
      BY <1>6, <1>8, <2>3, <3>1
    <3> QED
      BY <3>1, <3>2, RawsFacts
  <2> QED
    BY <2>1, <2>2, <2>3
<1>11. ~batch.carried.done => read = entries
  <2>1. Len(entries) \in Nat /\ room \in Nat
    BY <1>1, <1>2
  <2> HIDE DEF entries, room
  <2> QED
    BY <1>3, <1>9, <2>1
<1>12. batch.carried.done => Stopped(batch.carried, batch.events)
  <2> SUFFICES ASSUME batch.carried.done PROVE Stopped(batch.carried, batch.events)
    OBVIOUS
  <2>1. ASSUME batch.carried.said
        PROVE  \E e \in Range(batch.events) : e.loc[1] = 0 /\ e.says = "stopped"
    <3>1. PICK e \in Range(note) : e.says = "stopped"
      BY <1>8, <1>9, <2>1
    <3>2. e.loc[1] = 0
      BY <1>8
    <3>3. Range(t \o note) = Range(t) \cup Range(note)
      BY <1>6, <1>8, ListsJoin
    <3>4. e \in Range(batch.events)
      BY <1>4, <1>7, <3>3
    <3> QED
      BY <3>1, <3>2, <3>4
  <2>2. ASSUME ~batch.carried.said
        PROVE  ~batch.carried.cut /\ batch.carried.seen = MaxRecords
    <3>1. full
      BY <1>9, <2>2
    <3>2. Len(read) = room
      <4>1. Len(entries) \in Nat /\ room \in Nat
        BY <1>1, <1>2
      <4>2. ~(Len(entries) <= room)
        BY <3>1, <4>1
      <4> QED
        BY <1>3, <4>2
    <3>3. c.seen + room = MaxRecords
      BY <1>1
    <3> QED
      BY <1>9, <3>1, <3>2, <3>3
  <2> QED
    BY <2>1, <2>2 DEF Stopped
<1> QED
  BY <1>5, <1>10, <1>11, <1>12 DEF Writes, entries

(* Where the records of a log begin, which fragments go on with one, and   *)
(* what a log is as its writers leave it.                                  *)
Heads == {i \in 1..Len(lines) : lines[i].kind \in {"full", "first"}}
Continues(k) == lines[k].kind \in {"middle", "last"}

LogAsLeft ==
    /\ IsList(lines)
    /\ \A i \in 1..Len(lines) :
          /\ lines[i].kind \in {"full", "first", "middle", "last", "unknown"} /\ IsList(lines[i].body)
          /\ lines[i].kind \in {"middle", "last"} => i > 1 /\ lines[i - 1].kind \in {"first", "middle"}
          /\ ~lines[i].whole => i = Len(lines)

(* A record ends with the last of the fragments that go on with it.        *)
LEMMA RunEnds ==
    ASSUME LogAsLeft, NEW i \in 1..Len(lines)
    PROVE  /\ LastOf(i) \in i..Len(lines)
           /\ \A k \in (i + 1)..LastOf(i) : Continues(k)
           /\ LastOf(i) = Len(lines) \/ ~Continues(LastOf(i) + 1)
<1> DEFINE n == Len(lines)
           S == {j \in i..n : j = n \/ ~Continues(j + 1)}
           Ends(j) == (\A k \in (i + 1)..j : lines[k].kind \in {"middle", "last"}) /\ (j = n \/ lines[j + 1].kind \notin {"middle", "last"})
<1>1. n \in Nat
  BY ListFacts DEF LogAsLeft
<1>2. n \in S /\ S \in SUBSET Nat
  BY <1>1
<1>3. PICK j \in S : \A k \in S : j <= k
  <2> HIDE DEF S
  <2> QED
    BY <1>2, LeastOf
<1>4. \A k \in (i + 1)..j : Continues(k)
  <2> TAKE k \in (i + 1)..j
  <2>1. k - 1 \in i..n /\ k - 1 < j /\ (k - 1) + 1 = k
    BY <1>1
  <2>2. k - 1 \notin S
    <3> HIDE DEF S
    <3> QED
      BY <1>2, <1>3, <2>1
  <2> QED
    BY <2>1, <2>2
<1>5. j \in i..n /\ Ends(j)
  BY <1>4 DEF Continues
<1>6. LastOf(i) = CHOOSE x \in i..n : Ends(x)
  BY DEF LastOf
<1> HIDE DEF Ends
<1>7. LastOf(i) \in i..n /\ Ends(LastOf(i))
  BY <1>5, <1>6
<1> QED
  BY <1>7 DEF Ends, Continues

(* No record goes on beyond the beginning of another, one of a full        *)
(* fragment is that fragment, and none goes on after a last one.           *)
LEMMA RunFacts ==
    ASSUME LogAsLeft
    PROVE  /\ Len(lines) \in Nat
           /\ \A i \in 1..Len(lines) : \A n \in i..Len(lines) :
                 (\A k \in (i + 1)..n : Continues(k)) => n <= LastOf(i)
           /\ \A i, j \in Heads : i < j => LastOf(i) < j
           /\ \A i \in Heads : lines[i].kind = "full" => LastOf(i) = i
           /\ \A i \in 1..Len(lines) : \A n \in i..LastOf(i) : lines[n].kind = "last" => n = LastOf(i)
           /\ \A i \in Heads : lines[LastOf(i)].kind \in {"first", "middle"} \/ lines[LastOf(i)].kind \in {"full", "last"}
<1>0. Len(lines) \in Nat
  BY ListFacts DEF LogAsLeft
<1>1. ASSUME NEW i \in 1..Len(lines), NEW n \in i..Len(lines), \A k \in (i + 1)..n : Continues(k)
      PROVE  n <= LastOf(i)
  <2> DEFINE m == LastOf(i)
  <2>1. m \in i..Len(lines) /\ (m = Len(lines) \/ ~Continues(m + 1))
    BY RunEnds
  <2> HIDE DEF m
  <2>2. CASE m < n
    <3>1. m + 1 \in (i + 1)..n /\ m # Len(lines)
      BY <1>0, <2>1, <2>2
    <3> QED
      BY <1>1, <2>1, <3>1
  <2>3. m < n \/ n <= m
    BY <1>0, <2>1
  <2> QED
    BY <2>2, <2>3 DEF m
<1>2. ASSUME NEW i \in Heads, NEW j \in Heads, i < j
      PROVE  LastOf(i) < j
  <2> DEFINE m == LastOf(i)
  <2>1. i \in 1..Len(lines) /\ j \in 1..Len(lines) /\ ~Continues(j)
    BY DEF Heads, Continues
  <2>2. m \in i..Len(lines) /\ \A k \in (i + 1)..m : Continues(k)
    BY <2>1, RunEnds
  <2> HIDE DEF m
  <2>3. j <= m => j \in (i + 1)..m
    BY <1>0, <1>2, <2>1, <2>2
  <2>4. ~(j <= m) => m < j
    BY <1>0, <2>1, <2>2
  <2> QED
    BY <2>1, <2>2, <2>3, <2>4 DEF m
<1>3. ASSUME NEW i \in 1..Len(lines), NEW n \in i..LastOf(i), n # LastOf(i)
      PROVE  lines[n].kind \in {"first", "middle"}
  <2> DEFINE m == LastOf(i)
  <2>1. m \in i..Len(lines) /\ \A k \in (i + 1)..m : Continues(k)
    BY RunEnds
  <2>2. n \in i..m /\ n # m
    BY <1>3
  <2> HIDE DEF m
  <2>3. n + 1 \in (i + 1)..m /\ n + 1 \in 1..Len(lines) /\ (n + 1) - 1 = n
    BY <1>0, <2>1, <2>2
  <2> QED
    BY <2>1, <2>3 DEF LogAsLeft, Continues
<1>4. \A i \in Heads : lines[i].kind = "full" => LastOf(i) = i
  <2> SUFFICES ASSUME NEW i \in Heads, lines[i].kind = "full", LastOf(i) # i PROVE FALSE
    OBVIOUS
  <2>1. i \in 1..Len(lines)
    BY DEF Heads
  <2>2. LastOf(i) \in i..Len(lines)
    BY <2>1, RunEnds
  <2>3. i \in i..LastOf(i)
    BY <1>0, <2>1, <2>2
  <2> QED
    BY <1>3, <2>1, <2>3
<1>5. \A i \in 1..Len(lines) : \A n \in i..LastOf(i) : lines[n].kind = "last" => n = LastOf(i)
  BY <1>3
<1>6. \A i \in Heads : lines[LastOf(i)].kind \in {"first", "middle"} \/ lines[LastOf(i)].kind \in {"full", "last"}
  <2> TAKE i \in Heads
  <2>1. i \in 1..Len(lines)
    BY DEF Heads
  <2> DEFINE m == LastOf(i)
  <2>2. m \in i..Len(lines) /\ \A k \in (i + 1)..m : Continues(k)
    BY <2>1, RunEnds
  <2> HIDE DEF m
  <2>3. m = i \/ m \in (i + 1)..m
    BY <1>0, <2>1, <2>2
  <2> QED
    BY <2>2, <2>3 DEF Heads, Continues, m
<1> QED
  BY <1>0, <1>1, <1>2, <1>4, <1>5, <1>6

(* What goes on with a record is one's that began before.                  *)
LEMMA RunBegins ==
    ASSUME LogAsLeft, NEW n \in 1..Len(lines), Continues(n)
    PROVE  \E s \in Heads : s < n /\ n <= LastOf(s) /\ lines[s].kind = "first"
<1> DEFINE T == {j \in 1..n : ~Continues(j)}
<1>0. Len(lines) \in Nat /\ n \in Nat
  BY ListFacts DEF LogAsLeft
<1>1. 1 \in T
  <2>1. 1 \in 1..n /\ 1 \in 1..Len(lines) /\ ~(1 > 1)
    BY <1>0
  <2> QED
    BY <2>1 DEF LogAsLeft, Continues
<1>2. PICK m \in T : \A j \in T : j <= m
  <2>1. T \in SUBSET (1..n) /\ T # {}
    BY <1>1
  <2> HIDE DEF T
  <2> QED
    BY <1>0, <2>1, LargestOf
<1>3. m \in 1..n /\ ~Continues(m) /\ m # n
  OBVIOUS
<1>4. \A k \in (m + 1)..n : Continues(k)
  <2> TAKE k \in (m + 1)..n
  <2>1. k \in 1..n /\ ~(k <= m)
    BY <1>3
  <2>2. k \notin T
    <3> HIDE DEF T
    <3> QED
      BY <1>2, <2>1
  <2> QED
    BY <2>1, <2>2
<1>5. m + 1 \in (m + 1)..n /\ m + 1 \in 1..Len(lines) /\ (m + 1) - 1 = m /\ m \in 1..Len(lines) /\ n \in m..Len(lines) /\ m < n
  BY <1>0, <1>3
<1>6. lines[m].kind \in {"first", "middle"}
  BY <1>4, <1>5 DEF LogAsLeft, Continues
<1>7. lines[m].kind = "first"
  BY <1>3, <1>6 DEF Continues
<1>8. n <= LastOf(m)
  BY <1>4, <1>5, RunFacts
<1> QED
  BY <1>5, <1>7, <1>8 DEF Heads

(* What fragments hold is a list, and grows by what the next one holds.    *)
LEMMA SpanGrows ==
    ASSUME LogAsLeft, NEW i \in 1..Len(lines)
    PROVE  /\ \A m \in i..Len(lines) : IsList(Span(i, m))
           /\ Span(i, i) = lines[i].body
           /\ \A n \in (i + 1)..Len(lines) : Span(i, n) = Span(i, n - 1) \o lines[n].body
<1> DEFINE u(m) == [k \in 1..(m - i + 1) |-> lines[i + k - 1].body]
<1>0. Len(lines) \in Nat
  BY ListFacts DEF LogAsLeft
<1>1. ASSUME NEW m \in i..Len(lines)
      PROVE  AreLists(u(m)) /\ Len(u(m)) = m - i + 1 /\ \A k \in 1..(m - i + 1) : u(m)[k] = lines[i + k - 1].body
  <2> DEFINE v == u(m)
  <2>1. m - i + 1 \in Nat /\ \A k \in 1..(m - i + 1) : i + k - 1 \in 1..Len(lines)
    BY <1>0
  <2>2. v = [k \in 1..(m - i + 1) |-> v[k]] /\ \A k \in 1..(m - i + 1) : v[k] = lines[i + k - 1].body
    OBVIOUS
  <2> HIDE DEF v
  <2>3. IsList(v) /\ Len(v) = m - i + 1
    BY <2>1, <2>2, MadeIsList
  <2>4. \A k \in 1..(m - i + 1) : IsList(v[k])
    <3>1. \A j \in 1..Len(lines) : IsList(lines[j].body)
      BY DEF LogAsLeft
    <3> TAKE k \in 1..(m - i + 1)
    <3>2. IsList(lines[i + k - 1].body)
      BY <2>1, <3>1
    <3> QED
      BY <2>2, <3>2
  <2>5. AreLists(v)
    BY <2>3, <2>4 DEF AreLists
  <2> QED
    BY <2>2, <2>3, <2>5 DEF v
<1>2. \A m : Span(i, m) = FlattenSeq(u(m))
  BY DEF Span
<1> HIDE DEF u
<1>3. \A m \in i..Len(lines) : IsList(Span(i, m))
  BY <1>1, <1>2, FlattenFacts
<1>4. Span(i, i) = lines[i].body
  <2> DEFINE b == lines[i].body
             v == u(i)
             one == <<b>>
  <2>1. i \in i..Len(lines) /\ i - i + 1 = 1 /\ i + 1 - 1 = i /\ 1 \in 1..(i - i + 1)
    BY <1>0
  <2>2. AreLists(v) /\ Len(v) = 1 /\ v[1] = b
    <3>1. AreLists(v) /\ Len(v) = i - i + 1 /\ v[1] = lines[i + 1 - 1].body
      BY <1>1, <2>1
    <3> HIDE DEF v
    <3> QED
      BY <2>1, <3>1
  <2>3. IsList(b)
    BY DEF LogAsLeft
  <2> HIDE DEF v, b
  <2>4. IsList(one) /\ Len(one) = 1 /\ one[1] = b
    BY ShortLists
  <2> HIDE DEF one
  <2>5. v = one
    <3>1. \A k \in 1..1 : k = 1
      OBVIOUS
    <3>2. IsList(v)
      BY <2>2 DEF AreLists
    <3> QED
      BY <2>2, <2>4, <3>1, <3>2, SameLists
  <2>6. FlattenSeq(<<b>>) = b
    BY <2>3, FlattenShort
  <2> QED
    BY <1>2, <2>5, <2>6 DEF v, b, one
<1>5. ASSUME NEW n \in (i + 1)..Len(lines)
      PROVE  Span(i, n) = Span(i, n - 1) \o lines[n].body
  <2> DEFINE b == lines[n].body
             v == u(n - 1)
             w == u(n)
             one == <<b>>
             vb == v \o one
  <2>1. n - 1 \in i..Len(lines) /\ n \in i..Len(lines) /\ n \in 1..Len(lines) /\ (n - 1) - i + 1 = n - i /\ n - i \in Nat
        /\ n - i + 1 \in 1..(n - i + 1) /\ i + (n - i + 1) - 1 = n
    BY <1>0
  <2>2. AreLists(v) /\ Len(v) = n - i /\ \A k \in 1..(n - i) : v[k] = lines[i + k - 1].body
    BY <1>1, <2>1
  <2>3. AreLists(w) /\ Len(w) = n - i + 1 /\ \A k \in 1..(n - i + 1) : w[k] = lines[i + k - 1].body
    BY <1>1, <2>1
  <2>4. IsList(b)
    BY <2>1 DEF LogAsLeft
  <2>5. w[n - i + 1] = b
    BY <2>1, <2>3
  <2> HIDE DEF v, w, b
  <2>6. IsList(v) /\ IsList(w) /\ IsList(one) /\ Len(one) = 1 /\ one[1] = b
    BY <2>2, <2>3, ShortLists DEF AreLists
  <2> HIDE DEF one
  <2>7. /\ IsList(vb) /\ Len(vb) = Len(v) + 1
        /\ \A k \in 1..Len(v) : vb[k] = v[k]
        /\ \A k \in 1..Len(one) : vb[Len(v) + k] = one[k]
    <3>1. IsList(v) /\ IsList(one)
      BY <2>6
    <3>2. /\ IsList(vb) /\ Len(vb) = Len(v) + Len(one)
          /\ \A k \in 1..Len(v) : vb[k] = v[k]
          /\ \A k \in 1..Len(one) : vb[Len(v) + k] = one[k]
      BY <3>1, ListsJoin
    <3> HIDE DEF vb
    <3> QED
      BY <2>6, <3>2
  <2> HIDE DEF vb
  <2>8. vb[n - i + 1] = b
    <3>1. 1 \in 1..Len(one)
      BY <2>6
    <3>2. vb[Len(v) + 1] = one[1]
      BY <2>7, <3>1
    <3> QED
      BY <2>2, <2>6, <3>2
  <2>9. \A k \in 1..(n - i + 1) : w[k] = vb[k]
    <3> TAKE k \in 1..(n - i + 1)
    <3>1. CASE k \in 1..(n - i)
      BY <2>2, <2>3, <2>7, <3>1
    <3>2. CASE k = n - i + 1
      BY <2>5, <2>8, <3>2
    <3>3. k \in 1..(n - i) \/ k = n - i + 1
      BY <2>1
    <3> QED
      BY <3>1, <3>2, <3>3
  <2>10. w = vb
    BY <2>2, <2>3, <2>6, <2>7, <2>9, SameLists
  <2>11. FlattenSeq(vb) = FlattenSeq(v) \o b
    <3>1. AreLists(<<b>>) /\ FlattenSeq(<<b>>) = b
      BY <2>4, FlattenShort
    <3>2. AreLists(one) /\ FlattenSeq(one) = b
      BY <3>1 DEF one
    <3> QED
      BY <2>2, <3>2, FlattenOfJoin DEF vb
  <2>12. Span(i, n) = FlattenSeq(w) /\ Span(i, n - 1) = FlattenSeq(v)
    BY <1>2 DEF v, w
  <2> QED
    BY <2>10, <2>11, <2>12 DEF b
<1> QED
  BY <1>3, <1>4, <1>5

(* What a record of a log holds, and whether it was ended, or is cut by    *)
(* the end of the file.                                                    *)
BodyOf(i) == Span(i, LastOf(i))
Ended(i) == lines[LastOf(i)].kind \in {"full", "last"} \/ LastOf(i) = Len(lines)

(* What is gathered is the beginning of a record, as far as it was read,   *)
(* and of a record that goes on there always is one.                       *)
Gathers(c, n) ==
    /\ c.pending # <<>> =>
          /\ c.started \in Heads /\ c.started < n
          /\ c.pending = Span(c.started, Lesser(n - 1, LastOf(c.started)))
          /\ LastOf(c.started) < n => lines[LastOf(c.started)].kind \notin {"full", "last"}
    /\ \A i \in Heads : i < n /\ n <= LastOf(i) => c.pending # <<>> /\ c.started = i

(* What is told of a log that is read up to a fragment.                    *)
LogWritten(c, evs, n) ==
    /\ \A i \in Heads : IsPrefix(RawsAt(evs, i), BodyOf(i))
    /\ c.done => Stopped(c, evs)
    /\ ~c.done =>
          /\ Gathers(c, n)
          /\ \A i \in Heads : LastOf(i) < n /\ Ended(i) =>
                RawsAt(evs, i) = Lev!EntriesOf(BodyOf(i)) \/ (c.pending # <<>> /\ c.started = i)

(* What a record adds to what was told: its own entries and no others.     *)
Adds(result, evs, s) ==
    /\ \A i \in Heads : IsPrefix(RawsAt(evs \o result.events, i), BodyOf(i))
    /\ result.carried.done => Stopped(result.carried, evs \o result.events)
    /\ ~result.carried.done => RawsAt(evs \o result.events, s) = Lev!EntriesOf(BodyOf(s))
    /\ \A i \in Heads : i # s => RawsAt(evs \o result.events, i) = RawsAt(evs, i)

(* A record of which nothing was told yet.                                 *)
LEMMA BatchAdds ==
    ASSUME LogAsLeft, NEW evs, IsList(evs), \A i \in Heads : IsPrefix(RawsAt(evs, i), BodyOf(i)),
           NEW s \in Heads, \A e \in Range(evs) : e.loc[1] # s,
           NEW complete, NEW c, DOMAIN c = LogFields, c.seen \in 0..MaxRecords,
           NEW result, result = Lev!Batch(s, BodyOf(s), complete, c)
    PROVE  Adds(result, evs, s)
<1>0. Len(lines) \in Nat /\ s \in 1..Len(lines) /\ s # 0 /\ \A i \in Heads : i # 0
  BY RunFacts DEF Heads
<1>1. IsList(BodyOf(s))
  <2>1. LastOf(s) \in s..Len(lines)
    BY <1>0, RunEnds
  <2> QED
    BY <1>0, <2>1, SpanGrows DEF BodyOf
<1>2. Writes(result, s, BodyOf(s))
  BY <1>0, <1>1, BatchWrites
<1>3. /\ IsList(result.events)
      /\ IsPrefix(RawsAt(result.events, s), BodyOf(s))
      /\ \A i \in Heads : i # s => RawsAt(result.events, i) = <<>>
      /\ ~result.carried.done => RawsAt(result.events, s) = Lev!EntriesOf(BodyOf(s))
      /\ result.carried.done => Stopped(result.carried, result.events)
  BY <1>0, <1>2 DEF Writes
<1>4. \A i : RawsAt(evs \o result.events, i) = RawsAt(evs, i) \o RawsAt(result.events, i)
  BY <1>3, RawsFacts
<1>5. RawsAt(evs \o result.events, s) = RawsAt(result.events, s)
  <2>1. RawsAt(evs, s) = <<>> /\ IsList(RawsAt(result.events, s))
    BY <1>3, RawsFacts
  <2>2. <<>> \o RawsAt(result.events, s) = RawsAt(result.events, s)
    BY <2>1, ShortLists, ListsJoin
  <2> QED
    BY <1>4, <2>1, <2>2
<1>6. ASSUME NEW i \in Heads, i # s
      PROVE  RawsAt(evs \o result.events, i) = RawsAt(evs, i)
  <2>1. IsList(RawsAt(evs, i))
    BY RawsFacts
  <2>2. RawsAt(evs, i) \o <<>> = RawsAt(evs, i)
    BY <2>1, ShortLists, ListsJoin
  <2> QED
    BY <1>3, <1>4, <1>6, <2>2
<1>7. Range(result.events) \subseteq Range(evs \o result.events)
  <2>1. Range(evs \o result.events) = Range(evs) \cup Range(result.events)
    BY <1>3, ListsJoin
  <2> QED
    BY <2>1
<1>8. result.carried.done => Stopped(result.carried, evs \o result.events)
  BY <1>3, <1>7 DEF Stopped
<1>9. \A i \in Heads : IsPrefix(RawsAt(evs \o result.events, i), BodyOf(i))
  <2> TAKE i \in Heads
  <2>1. CASE i = s
    BY <1>3, <1>5, <2>1
  <2>2. CASE i # s
    BY <1>6, <2>2
  <2> QED
    BY <2>1, <2>2
<1>10. ~result.carried.done => RawsAt(evs \o result.events, s) = Lev!EntriesOf(BodyOf(s))
  BY <1>3, <1>5
<1> QED
  BY <1>6, <1>8, <1>9, <1>10 DEF Adds

(* Where records begin and end, as numbers.                                *)
LEMMA RunNumbers ==
    ASSUME LogAsLeft
    PROVE  /\ Len(lines) \in Nat
           /\ \A i \in Heads : /\ i \in 1..Len(lines) /\ i \in Nat /\ LastOf(i) \in Nat
                                /\ i <= LastOf(i) /\ LastOf(i) <= Len(lines)
           /\ \A i, j \in Heads : i < j => LastOf(i) < j
<1>1. Len(lines) \in Nat
  BY RunFacts
<1>2. ASSUME NEW i \in Heads
      PROVE  /\ i \in 1..Len(lines) /\ i \in Nat /\ LastOf(i) \in Nat
             /\ i <= LastOf(i) /\ LastOf(i) <= Len(lines)
  <2>1. i \in 1..Len(lines)
    BY DEF Heads
  <2>2. LastOf(i) \in i..Len(lines)
    BY <2>1, RunEnds
  <2> QED
    BY <1>1, <2>1, <2>2
<1> QED
  BY <1>1, <1>2, RunFacts

(* A record of one fragment, or the first one of a record that is cut.     *)
LEMMA BatchAtOnce ==
    ASSUME LogAsLeft, NEW evs, IsList(evs), NEW n \in Heads, \A e \in Range(evs) : e.loc[1] # n,
           NEW c, ~c.done, LogWritten(c, evs, n), LastOf(n) = n,
           NEW result, Adds(result, evs, n),
           \/ result.carried.pending = <<>>
           \/ result.carried.pending = c.pending /\ result.carried.started = c.started
    PROVE  LogWritten(result.carried, evs \o result.events, n + 1)
<1> DEFINE d == result.carried
           all == evs \o result.events
<1>0. /\ Len(lines) \in Nat
      /\ \A i \in Heads : i \in 1..Len(lines) /\ i \in Nat /\ LastOf(i) \in Nat /\ i <= LastOf(i) /\ LastOf(i) <= Len(lines)
      /\ \A i \in Heads : i < n => LastOf(i) < n
  BY RunNumbers
<1>1. /\ Gathers(c, n)
      /\ \A i \in Heads : LastOf(i) < n /\ Ended(i) =>
            RawsAt(evs, i) = Lev!EntriesOf(BodyOf(i)) \/ (c.pending # <<>> /\ c.started = i)
  BY DEF LogWritten
<1>2. /\ \A i \in Heads : IsPrefix(RawsAt(all, i), BodyOf(i))
      /\ d.done => Stopped(d, all)
      /\ ~d.done => RawsAt(all, n) = Lev!EntriesOf(BodyOf(n))
      /\ \A i \in Heads : i # n => RawsAt(all, i) = RawsAt(evs, i)
  BY DEF Adds
<1>3. d.pending = <<>> \/ (d.pending = c.pending /\ d.started = c.started)
  OBVIOUS
<1> HIDE DEF d, all
<1>4. Gathers(d, n + 1)
  <2>1. ASSUME d.pending # <<>>
        PROVE  /\ d.started \in Heads /\ d.started < n + 1
               /\ d.pending = Span(d.started, Lesser((n + 1) - 1, LastOf(d.started)))
               /\ LastOf(d.started) < n + 1 => lines[LastOf(d.started)].kind \notin {"full", "last"}
    <3> DEFINE s == d.started
    <3>1. /\ s \in Heads /\ s < n /\ d.pending = Span(s, Lesser(n - 1, LastOf(s)))
          /\ LastOf(s) < n => lines[LastOf(s)].kind \notin {"full", "last"}
      BY <1>1, <1>3, <2>1 DEF Gathers
    <3> HIDE DEF s
    <3>2. LastOf(s) < n /\ LastOf(s) \in Nat /\ n \in Nat /\ s \in Nat
      BY <1>0, <3>1
    <3>3. Lesser(n - 1, LastOf(s)) = LastOf(s) /\ Lesser((n + 1) - 1, LastOf(s)) = LastOf(s) /\ s < n + 1
      BY <3>1, <3>2 DEF Lesser
    <3> QED
      BY <3>1, <3>2, <3>3 DEF s
  <2>2. ASSUME NEW i \in Heads, i < n + 1, n + 1 <= LastOf(i)
        PROVE  FALSE
    <3>1. i \in Nat /\ n \in Nat /\ LastOf(i) \in Nat
      BY <1>0
    <3>2. i = n \/ i < n
      BY <2>2, <3>1
    <3>3. CASE i = n
      BY <2>2, <3>1, <3>3
    <3>4. CASE i < n
      <4>1. LastOf(i) < n
        BY <1>0, <3>4
      <4> QED
        BY <2>2, <3>1, <4>1
    <3> QED
      BY <3>2, <3>3, <3>4
  <2>3. \A i \in Heads : ~(i < n + 1 /\ n + 1 <= LastOf(i))
    BY <2>2
  <2>4. d.pending # <<>> =>
          /\ d.started \in Heads /\ d.started < n + 1
          /\ d.pending = Span(d.started, Lesser((n + 1) - 1, LastOf(d.started)))
          /\ LastOf(d.started) < n + 1 => lines[LastOf(d.started)].kind \notin {"full", "last"}
    BY <2>1
  <2> QED
    BY <2>3, <2>4, Zenon DEF Gathers
<1>5. ASSUME ~d.done, NEW i \in Heads, LastOf(i) < n + 1, Ended(i)
      PROVE  RawsAt(all, i) = Lev!EntriesOf(BodyOf(i))
  <2>1. i \in Nat /\ n \in Nat /\ LastOf(i) \in Nat /\ i <= LastOf(i)
    BY <1>0
  <2>2. i = n \/ i < n
    BY <1>5, <2>1
  <2>3. CASE i = n
    BY <1>2, <1>5, <2>3
  <2>4. CASE i < n
    <3>1. LastOf(i) < n /\ i # n
      BY <1>0, <2>1, <2>4
    <3>2. ~(c.pending # <<>> /\ c.started = i)
      <4>1. SUFFICES ASSUME c.pending # <<>>, c.started = i PROVE FALSE
        OBVIOUS
      <4>2. lines[LastOf(i)].kind \notin {"full", "last"}
        BY <1>1, <3>1, <4>1 DEF Gathers
      <4>3. LastOf(i) = Len(lines) /\ n <= Len(lines)
        BY <1>0, <1>5, <4>2 DEF Ended
      <4> QED
        BY <1>0, <2>1, <3>1, <4>3
    <3>3. RawsAt(evs, i) = Lev!EntriesOf(BodyOf(i))
      BY <1>1, <1>5, <3>1, <3>2
    <3> QED
      BY <1>2, <3>1, <3>3
  <2> QED
    BY <2>2, <2>3, <2>4
<1> QED
  BY <1>2, <1>4, <1>5 DEF LogWritten, d, all

(* The last fragment of a record, or one at which the file ends.           *)
LEMMA BatchEnds ==
    ASSUME LogAsLeft, NEW evs, NEW n \in 1..Len(lines), n \notin Heads, NEW s \in Heads, s < n, LastOf(s) = n,
           NEW c, ~c.done, LogWritten(c, evs, n),
           NEW result, Adds(result, evs, s), result.carried.pending = <<>>
    PROVE  LogWritten(result.carried, evs \o result.events, n + 1)
<1> DEFINE d == result.carried
           all == evs \o result.events
<1>0. /\ Len(lines) \in Nat /\ n \in Nat
      /\ \A i \in Heads : i \in 1..Len(lines) /\ i \in Nat /\ LastOf(i) \in Nat /\ i <= LastOf(i) /\ LastOf(i) <= Len(lines)
  BY RunNumbers
<1>1. /\ \A i \in Heads : i < n /\ n <= LastOf(i) => c.pending # <<>> /\ c.started = i
      /\ \A i \in Heads : LastOf(i) < n /\ Ended(i) =>
            RawsAt(evs, i) = Lev!EntriesOf(BodyOf(i)) \/ (c.pending # <<>> /\ c.started = i)
  BY DEF LogWritten, Gathers
<1>2. /\ \A i \in Heads : IsPrefix(RawsAt(all, i), BodyOf(i))
      /\ d.done => Stopped(d, all)
      /\ ~d.done => RawsAt(all, s) = Lev!EntriesOf(BodyOf(s))
      /\ \A i \in Heads : i # s => RawsAt(all, i) = RawsAt(evs, i)
  BY DEF Adds
<1>3. d.pending = <<>>
  OBVIOUS
<1> HIDE DEF d, all
<1>4. c.started = s
  BY <1>0, <1>1
<1>5. \A i \in Heads : i < n /\ n <= LastOf(i) => i = s
  BY <1>1, <1>4
<1>6. Gathers(d, n + 1)
  <2>1. ASSUME NEW i \in Heads, i < n + 1, n + 1 <= LastOf(i)
        PROVE  FALSE
    <3>1. i \in Nat /\ LastOf(i) \in Nat /\ i # n
      BY <1>0
    <3>2. i < n /\ n <= LastOf(i)
      BY <1>0, <2>1, <3>1
    <3>3. i = s
      BY <1>5, <3>2
    <3> QED
      BY <1>0, <2>1, <3>3
  <2> QED
    BY <1>3, <2>1 DEF Gathers
<1>7. ASSUME ~d.done, NEW i \in Heads, LastOf(i) < n + 1, Ended(i)
      PROVE  RawsAt(all, i) = Lev!EntriesOf(BodyOf(i))
  <2>1. i \in Nat /\ LastOf(i) \in Nat /\ i <= LastOf(i) /\ i # n
    BY <1>0
  <2>2. LastOf(i) = n \/ LastOf(i) < n
    BY <1>0, <1>7, <2>1
  <2>3. CASE LastOf(i) = n
    <3>1. i < n /\ n <= LastOf(i)
      BY <1>0, <2>1, <2>3
    <3>2. i = s
      BY <1>5, <3>1
    <3> QED
      BY <1>2, <1>7, <3>2
  <2>4. CASE LastOf(i) < n
    <3>1. i # s
      BY <1>0, <2>1, <2>4
    <3> QED
      BY <1>1, <1>2, <1>4, <1>7, <2>4, <3>1
  <2> QED
    BY <2>2, <2>3, <2>4
<1> QED
  BY <1>2, <1>6, <1>7 DEF LogWritten, d, all

(* The first fragment of a record that goes on.                            *)
LEMMA RecordBegins ==
    ASSUME LogAsLeft, NEW evs, NEW n \in Heads, lines[n].body # <<>>, lines[n].kind = "first",
           NEW c, ~c.done, LogWritten(c, evs, n),
           NEW d, d.pending = lines[n].body, d.started = n, ~d.done
    PROVE  LogWritten(d, evs, n + 1)
<1>0. /\ Len(lines) \in Nat
      /\ \A i \in Heads : i \in 1..Len(lines) /\ i \in Nat /\ LastOf(i) \in Nat /\ i <= LastOf(i) /\ LastOf(i) <= Len(lines)
      /\ \A i \in Heads : i < n => LastOf(i) < n
  BY RunNumbers
<1>1. /\ Gathers(c, n)
      /\ \A i \in Heads : IsPrefix(RawsAt(evs, i), BodyOf(i))
      /\ \A i \in Heads : LastOf(i) < n /\ Ended(i) =>
            RawsAt(evs, i) = Lev!EntriesOf(BodyOf(i)) \/ (c.pending # <<>> /\ c.started = i)
  BY DEF LogWritten
<1>2. n \in Nat /\ n \in 1..Len(lines) /\ LastOf(n) \in Nat /\ n <= LastOf(n)
  BY <1>0
<1>3. Gathers(d, n + 1)
  <2>1. d.started \in Heads /\ d.started < n + 1
    BY <1>2
  <2>2. d.pending = Span(d.started, Lesser((n + 1) - 1, LastOf(d.started)))
    <3>1. Lesser((n + 1) - 1, LastOf(n)) = n
      BY <1>2 DEF Lesser
    <3>2. Span(n, n) = lines[n].body
      BY <1>2, SpanGrows
    <3> QED
      BY <3>1, <3>2
  <2>3. LastOf(d.started) < n + 1 => lines[LastOf(d.started)].kind \notin {"full", "last"}
    <3> SUFFICES ASSUME LastOf(n) < n + 1 PROVE lines[LastOf(n)].kind \notin {"full", "last"}
      OBVIOUS
    <3>1. LastOf(n) = n
      BY <1>2
    <3> QED
      BY <3>1
  <2>4. \A i \in Heads : i < n + 1 /\ n + 1 <= LastOf(i) => d.started = i
    <3> SUFFICES ASSUME NEW i \in Heads, i < n + 1, n + 1 <= LastOf(i), i # n PROVE FALSE
      OBVIOUS
    <3>1. i < n
      BY <1>0, <1>2
    <3>2. LastOf(i) < n /\ LastOf(i) \in Nat
      BY <1>0, <3>1
    <3> QED
      BY <1>2, <3>2
  <2>5. d.pending # <<>>
    OBVIOUS
  <2> QED
    BY <2>1, <2>2, <2>3, <2>4, <2>5 DEF Gathers
<1>4. ASSUME NEW i \in Heads, LastOf(i) < n + 1, Ended(i), d.started # i
      PROVE  RawsAt(evs, i) = Lev!EntriesOf(BodyOf(i))
  <2>1. i \in Nat /\ LastOf(i) \in Nat /\ i <= LastOf(i) /\ i # n
    BY <1>0, <1>4
  <2>2. i < n
    BY <1>2, <1>4, <2>1
  <2>3. LastOf(i) < n
    BY <1>0, <2>2
  <2>4. ~(c.pending # <<>> /\ c.started = i)
    <3>1. SUFFICES ASSUME c.pending # <<>>, c.started = i PROVE FALSE
      OBVIOUS
    <3>2. lines[LastOf(i)].kind \notin {"full", "last"}
      BY <1>1, <2>3, <3>1 DEF Gathers
    <3>3. LastOf(i) = Len(lines) /\ n <= Len(lines)
      BY <1>0, <1>2, <1>4, <3>2 DEF Ended
    <3> QED
      BY <1>2, <2>1, <2>3, <3>3
  <2> QED
    BY <1>1, <1>4, <2>3, <2>4
<1>5. \A i \in Heads : LastOf(i) < n + 1 /\ Ended(i) =>
          RawsAt(evs, i) = Lev!EntriesOf(BodyOf(i)) \/ (d.pending # <<>> /\ d.started = i)
  BY <1>4
<1> QED
  BY <1>1, <1>3, <1>5 DEF LogWritten

(* A fragment in the midst of a record.                                    *)
LEMMA RecordGoesOn ==
    ASSUME LogAsLeft, NEW evs, NEW n \in 1..Len(lines), lines[n].kind = "middle",
           NEW c, ~c.done, LogWritten(c, evs, n), c.pending # <<>>,
           NEW d, d.pending = c.pending \o lines[n].body, d.started = c.started, ~d.done
    PROVE  LogWritten(d, evs, n + 1)
<1>0. /\ Len(lines) \in Nat /\ n \in Nat
      /\ \A i \in Heads : i \in 1..Len(lines) /\ i \in Nat /\ LastOf(i) \in Nat /\ i <= LastOf(i) /\ LastOf(i) <= Len(lines)
  BY RunNumbers
<1>1. /\ Gathers(c, n)
      /\ \A i \in Heads : IsPrefix(RawsAt(evs, i), BodyOf(i))
      /\ \A i \in Heads : LastOf(i) < n /\ Ended(i) =>
            RawsAt(evs, i) = Lev!EntriesOf(BodyOf(i)) \/ (c.pending # <<>> /\ c.started = i)
  BY DEF LogWritten
<1>2. Continues(n) /\ n \notin Heads
  BY DEF Continues, Heads
<1>3. PICK s \in Heads : s < n /\ n <= LastOf(s)
  BY <1>2, RunBegins
<1>4. c.started = s /\ \A i \in Heads : i < n /\ n <= LastOf(i) => i = s
  BY <1>1, <1>3 DEF Gathers
<1>5. s \in 1..Len(lines) /\ s \in Nat /\ LastOf(s) \in Nat
  BY <1>0
<1>6. c.pending = Span(s, n - 1)
  <2>1. c.pending = Span(s, Lesser(n - 1, LastOf(s)))
    BY <1>1, <1>4 DEF Gathers
  <2>2. Lesser(n - 1, LastOf(s)) = n - 1
    BY <1>0, <1>3, <1>5 DEF Lesser
  <2> QED
    BY <2>1, <2>2
<1>7. n \in (s + 1)..Len(lines) /\ n - 1 \in s..Len(lines)
  BY <1>0, <1>3, <1>5
<1>8. Span(s, n) = c.pending \o lines[n].body
  BY <1>5, <1>6, <1>7, SpanGrows
<1>9. d.pending # <<>>
  <2>1. IsList(c.pending) /\ IsList(lines[n].body)
    <3>1. IsList(Span(s, n - 1))
      BY <1>5, <1>7, SpanGrows
    <3> QED
      BY <1>6, <3>1 DEF LogAsLeft
  <2>2. Len(c.pending) \in Nat /\ Len(c.pending) # 0 /\ Len(lines[n].body) \in Nat
    BY <2>1, ListFacts
  <2> DEFINE both == c.pending \o lines[n].body
  <2>3. IsList(both) /\ Len(both) = Len(c.pending) + Len(lines[n].body)
    BY <2>1, ListsJoin
  <2> HIDE DEF both
  <2>4. Len(both) # 0
    <3>1. \A a, b \in Nat : a # 0 => a + b # 0
      OBVIOUS
    <3> QED
      BY <2>2, <2>3, <3>1
  <2>5. both # <<>>
    BY <2>3, <2>4, ListFacts
  <2> QED
    BY <2>5 DEF both
<1>10. Gathers(d, n + 1)
  <2>1. d.started \in Heads /\ d.started < n + 1
    BY <1>0, <1>3, <1>4, <1>5
  <2>2. d.pending = Span(d.started, Lesser((n + 1) - 1, LastOf(d.started)))
    <3>1. Lesser((n + 1) - 1, LastOf(s)) = n
      BY <1>0, <1>3, <1>5 DEF Lesser
    <3> QED
      BY <1>4, <1>8, <3>1
  <2>3. LastOf(d.started) < n + 1 => lines[LastOf(d.started)].kind \notin {"full", "last"}
    <3> SUFFICES ASSUME LastOf(s) < n + 1 PROVE lines[LastOf(s)].kind \notin {"full", "last"}
      BY <1>4
    <3>1. LastOf(s) = n
      BY <1>0, <1>3, <1>5
    <3> QED
      BY <3>1
  <2>4. \A i \in Heads : i < n + 1 /\ n + 1 <= LastOf(i) => d.started = i
    <3> SUFFICES ASSUME NEW i \in Heads, i < n + 1, n + 1 <= LastOf(i) PROVE d.started = i
      OBVIOUS
    <3>1. i < n /\ n <= LastOf(i)
      <4>1. i # n
        BY <1>2
      <4> QED
        BY <1>0, <4>1
    <3> QED
      BY <1>4, <3>1
  <2> QED
    BY <1>9, <2>1, <2>2, <2>3, <2>4 DEF Gathers
<1>11. ASSUME NEW i \in Heads, LastOf(i) < n + 1, Ended(i), d.started # i
       PROVE  RawsAt(evs, i) = Lev!EntriesOf(BodyOf(i))
  <2>1. i \in Nat /\ LastOf(i) \in Nat /\ i <= LastOf(i) /\ i # n /\ i # s
    BY <1>0, <1>2, <1>4, <1>11
  <2>2. ~(i < n /\ n <= LastOf(i))
    BY <1>4, <2>1
  <2>3. LastOf(i) < n
    BY <1>0, <1>11, <2>1, <2>2
  <2> QED
    BY <1>1, <1>4, <1>11, <2>1, <2>3
<1>12. \A i \in Heads : LastOf(i) < n + 1 /\ Ended(i) =>
          RawsAt(evs, i) = Lev!EntriesOf(BodyOf(i)) \/ (d.pending # <<>> /\ d.started = i)
  BY <1>9, <1>11
<1> QED
  BY <1>1, <1>10, <1>12 DEF LogWritten


(* Each first fragment of a log holds something.                           *)
HeadsFilled == \A i \in 1..Len(lines) : lines[i].kind = "first" => lines[i].body # <<>>

(* A fragment at which reading ends.                                       *)
LEMMA ReadingEnds ==
    ASSUME LogAsLeft, NEW evs, IsList(evs), NEW n, NEW c, LogWritten(c, evs, n),
           NEW note, note.loc[1] = 0, note.says = "stopped", NEW d, d.done, d.said, NEW m
    PROVE  LogWritten(d, evs \o <<note>>, m)
<1>1. IsList(<<note>>) /\ Range(<<note>>) = {note}
  BY ShortLists
<1>2. \A i \in Heads : i # 0
  BY DEF Heads
<1>3. ASSUME NEW i \in Heads
      PROVE  RawsAt(evs \o <<note>>, i) = RawsAt(evs, i)
  <2>1. RawsAt(evs \o <<note>>, i) = RawsAt(evs, i) \o RawsAt(<<note>>, i)
    BY <1>1, RawsFacts
  <2>2. RawsAt(<<note>>, i) = <<>> /\ IsList(RawsAt(evs, i))
    BY <1>1, <1>2, RawsFacts
  <2>3. RawsAt(evs, i) \o <<>> = RawsAt(evs, i)
    BY <2>2, ShortLists, ListsJoin
  <2> QED
    BY <2>1, <2>2, <2>3
<1>4. note \in Range(evs \o <<note>>)
  <2>1. Range(evs \o <<note>>) = Range(evs) \cup Range(<<note>>)
    BY <1>1, ListsJoin
  <2> QED
    BY <1>1, <2>1
<1>5. Stopped(d, evs \o <<note>>)
  BY <1>4 DEF Stopped
<1> QED
  BY <1>3, <1>5 DEF LogWritten

(* What is told of a log keeps so with any fragment that is read.          *)
LEMMA FragmentWrites ==
    ASSUME LogAsLeft, HeadsFilled, NEW evs, Distinct(evs), NEW n \in 1..Len(lines),
           NEW c, LogSound(c, evs, n), LogWritten(c, evs, n),
           NEW result, result = Lev!TakeFragment(n, lines[n], c)
    PROVE  LogWritten(result.carried, evs \o result.events, n + 1)
<1> DEFINE fragment == lines[n]
           body == fragment.body
           gathered == c.pending \o body
           closed == [c EXCEPT !.pending = <<>>]
<1>0. n \in Nat \ {0} /\ Len(lines) \in Nat
  BY RunFacts
<1>1. /\ fragment.kind \in {"full", "first", "middle", "last", "unknown"} /\ IsList(body)
      /\ ~fragment.whole => n = Len(lines)
  BY DEF LogAsLeft
<1>2. IsList(evs) /\ evs \o <<>> = evs
  BY ShortLists, ListsJoin DEF Distinct
<1>3. DOMAIN closed = LogFields /\ closed.seen \in 0..MaxRecords /\ closed.pending = <<>>
  BY DEF LogSound, LogFields
<1>4. DOMAIN c = LogFields /\ c.seen \in 0..MaxRecords /\ IsList(c.pending)
  BY DEF LogSound
<1>5. /\ \A e \in Range(evs) : e.loc[1] # n
      /\ c.pending # <<>> => c.started # 0 /\ \A e \in Range(evs) : e.loc[1] # c.started
  BY <1>0 DEF LogSound
<1>6. \A i \in Heads : IsPrefix(RawsAt(evs, i), BodyOf(i))
  BY DEF LogWritten
<1>7. CASE c.done
  <2>1. result = [carried |-> c, events |-> <<>>]
    BY <1>7 DEF Lev!TakeFragment
  <2>2. result.carried = c /\ evs \o result.events = evs
    BY <1>2, <2>1
  <2>3. LogWritten(c, evs, n + 1)
    BY <1>7 DEF LogWritten
  <2> QED
    BY <2>2, <2>3
<1>8. CASE ~c.done /\ fragment.kind = "full"
  <2>1. result = Lev!Batch(n, body, fragment.whole, c)
    BY <1>8 DEF Lev!TakeFragment
  <2>2. n \in Heads
    BY <1>8 DEF Heads
  <2>3. LastOf(n) = n
    BY <1>8, <2>2, RunFacts
  <2>4. BodyOf(n) = body
    BY <2>3, SpanGrows DEF BodyOf
  <2> HIDE DEF body, fragment
  <2>5. Adds(result, evs, n)
    BY <1>2, <1>4, <1>5, <1>6, <2>1, <2>2, <2>4, BatchAdds
  <2>6. BatchAt(result, n, fragment.whole, c)
    BY <1>0, <1>1, <1>4, <2>1, BatchTells
  <2>7. result.carried.pending = c.pending /\ result.carried.started = c.started
    BY <2>6 DEF BatchAt
  <2> QED
    BY <1>2, <1>5, <1>8, <2>2, <2>3, <2>5, <2>7, BatchAtOnce
<1>9. CASE ~c.done /\ fragment.kind = "first" /\ fragment.whole
  <2> DEFINE d == [c EXCEPT !.pending = body, !.started = n]
  <2>1. result = [carried |-> d, events |-> <<>>]
    BY <1>9 DEF Lev!TakeFragment
  <2>2. n \in Heads /\ body # <<>> /\ lines[n].kind = "first"
    BY <1>9 DEF Heads, HeadsFilled
  <2>3. d.pending = lines[n].body /\ d.started = n
    BY <1>4 DEF LogFields
  <2>4. ~d.done
    BY <1>4, <1>9 DEF LogFields
  <2>5. result.carried = d /\ evs \o result.events = evs
    BY <1>2, <2>1
  <2> HIDE DEF d
  <2>6. LogWritten(d, evs, n + 1)
    BY <1>9, <2>2, <2>3, <2>4, RecordBegins
  <2> QED
    BY <2>5, <2>6
<1>10. CASE ~c.done /\ fragment.kind = "first" /\ ~fragment.whole
  <2>1. result = Lev!Batch(n, body, FALSE, closed)
    BY <1>10 DEF Lev!TakeFragment
  <2>2. n \in Heads
    BY <1>10 DEF Heads
  <2>3. LastOf(n) = n
    <3>1. LastOf(n) \in n..Len(lines) /\ n = Len(lines)
      BY <1>1, <1>10, RunEnds
    <3> QED
      BY <1>0, <3>1
  <2>4. BodyOf(n) = body
    BY <2>3, SpanGrows DEF BodyOf
  <2> HIDE DEF body, fragment, closed
  <2>5. Adds(result, evs, n)
    BY <1>2, <1>3, <1>5, <1>6, <2>1, <2>2, <2>4, BatchAdds
  <2>6. BatchAt(result, n, FALSE, closed)
    BY <1>0, <1>1, <1>3, <2>1, BatchTells
  <2>7. result.carried.pending = <<>>
    BY <1>3, <2>6 DEF BatchAt
  <2> QED
    BY <1>2, <1>5, <1>10, <2>2, <2>3, <2>5, <2>7, BatchAtOnce
<1>11. CASE ~c.done /\ fragment.kind = "unknown"
  <2> DEFINE note == Lev!Ev(0, "file", 0, "unparsed.record", Null, Lev!NoStamp, "stopped")
             d == [c EXCEPT !.done = TRUE, !.said = TRUE]
  <2>1. result = [carried |-> d, events |-> <<note>>]
    BY <1>11 DEF Lev!TakeFragment, Lev!Note
  <2>2. note.loc[1] = 0 /\ note.says = "stopped"
    BY DEF Lev!Ev
  <2>3. d.said /\ d.done
    BY <1>4 DEF LogFields
  <2>4. result.carried = d /\ result.events = <<note>>
    BY <2>1
  <2> HIDE DEF note, d
  <2> QED
    BY <1>2, <2>2, <2>3, <2>4, ReadingEnds
<1>12. CASE ~c.done /\ fragment.kind \in {"middle", "last"}
  <2>1. Continues(n) /\ n \notin Heads
    BY <1>12 DEF Continues, Heads
  <2>2. PICK s \in Heads : s < n /\ n <= LastOf(s)
    BY <2>1, RunBegins
  <2>3. c.pending # <<>> /\ c.started = s
    BY <1>12, <2>2 DEF LogWritten, Gathers
  <2>4. s \in 1..Len(lines) /\ s \in Nat /\ LastOf(s) \in Nat /\ LastOf(s) <= Len(lines)
    BY RunNumbers
  <2>5. CASE fragment.kind = "middle" /\ fragment.whole
    <3> DEFINE d == [c EXCEPT !.pending = gathered]
    <3>1. result = [carried |-> d, events |-> <<>>]
      BY <1>12, <2>3, <2>5 DEF Lev!TakeFragment
    <3>2. d.pending = c.pending \o lines[n].body /\ d.started = c.started
      BY <1>4 DEF LogFields
    <3>3. ~d.done
      BY <1>4, <1>12 DEF LogFields
    <3>4. result.carried = d /\ evs \o result.events = evs
      BY <1>2, <3>1
    <3>5. lines[n].kind = "middle"
      BY <2>5
    <3> HIDE DEF d
    <3>6. LogWritten(d, evs, n + 1)
      BY <1>12, <2>3, <3>2, <3>3, <3>5, RecordGoesOn
    <3> QED
      BY <3>4, <3>6
  <2>6. CASE ~(fragment.kind = "middle" /\ fragment.whole)
    <3>1. result = Lev!Batch(c.started, gathered, fragment.whole, closed)
      BY <1>12, <2>3, <2>6 DEF Lev!TakeFragment
    <3>2. LastOf(s) = n
      <4>1. CASE fragment.kind = "last"
        <5>1. n \in s..LastOf(s)
          BY <1>0, <2>2, <2>4
        <5> QED
          BY <2>4, <4>1, <5>1, RunFacts
      <4>2. CASE ~fragment.whole
        BY <1>0, <1>1, <2>2, <2>4, <4>2
      <4> QED
        BY <1>12, <2>6, <4>1, <4>2
    <3>3. gathered = BodyOf(s)
      <4>1. c.pending = Span(s, Lesser(n - 1, LastOf(s)))
        BY <1>12, <2>3 DEF LogWritten, Gathers
      <4>2. Lesser(n - 1, LastOf(s)) = n - 1 /\ n \in (s + 1)..Len(lines)
        BY <1>0, <2>2, <2>4, <3>2 DEF Lesser
      <4>3. Span(s, n) = Span(s, n - 1) \o body
        BY <2>4, <4>2, SpanGrows
      <4> QED
        BY <3>2, <4>1, <4>2, <4>3 DEF BodyOf
    <3> HIDE DEF fragment, body, gathered, closed
    <3>4. \A e \in Range(evs) : e.loc[1] # s
      BY <1>5, <2>3
    <3>5. result = Lev!Batch(s, BodyOf(s), fragment.whole, closed)
      BY <2>3, <3>1, <3>3
    <3>6. Adds(result, evs, s)
      BY <1>2, <1>3, <1>6, <3>4, <3>5, BatchAdds
    <3>7. IsList(BodyOf(s))
      <4>1. LastOf(s) \in s..Len(lines)
        BY <2>4, RunEnds
      <4> QED
        BY <2>4, <4>1, SpanGrows DEF BodyOf
    <3>8. BatchAt(result, s, fragment.whole, closed)
      BY <1>3, <2>4, <3>5, <3>7, BatchTells
    <3>9. result.carried.pending = <<>>
      BY <1>3, <3>8 DEF BatchAt
    <3> QED
      BY <1>12, <2>1, <2>2, <3>2, <3>6, <3>9, BatchEnds
  <2> QED
    BY <2>5, <2>6
<1> QED
  BY <1>1, <1>7, <1>8, <1>9, <1>10, <1>11, <1>12


(* What is told of a log when it is closed: all of each record that was    *)
(* ended or cut, unless it is said of the file that there may be more.     *)
Owned(evs) == \E e \in Range(evs) : e.loc[1] = 0 /\ e.says \in {"truncated", "stopped"}

LogClosed(evs) ==
    \A i \in Heads :
        /\ IsPrefix(RawsAt(evs, i), BodyOf(i))
        /\ Ended(i) => RawsAt(evs, i) = Lev!EntriesOf(BodyOf(i)) \/ Owned(evs)

(* What is said of the file at its end changes nothing of its records.     *)
LEMMA NotesAddNothing ==
    ASSUME LogAsLeft, NEW evs, IsList(evs), NEW tail, IsList(tail), \A e \in Range(tail) : e.loc[1] = 0
    PROVE  /\ \A i \in Heads : RawsAt(evs \o tail, i) = RawsAt(evs, i)
           /\ Owned(evs) \/ Owned(tail) => Owned(evs \o tail)
<1>1. ASSUME NEW i \in Heads
      PROVE  RawsAt(evs \o tail, i) = RawsAt(evs, i)
  <2>1. i # 0
    BY DEF Heads
  <2>2. RawsAt(evs \o tail, i) = RawsAt(evs, i) \o RawsAt(tail, i)
    BY RawsFacts
  <2>3. RawsAt(tail, i) = <<>> /\ IsList(RawsAt(evs, i))
    BY <2>1, RawsFacts
  <2>4. RawsAt(evs, i) \o <<>> = RawsAt(evs, i)
    BY <2>3, ShortLists, ListsJoin
  <2> QED
    BY <2>2, <2>3, <2>4
<1>2. Range(evs \o tail) = Range(evs) \cup Range(tail)
  BY ListsJoin
<1> QED
  BY <1>1, <1>2 DEF Owned

(* The end of a log.                                                       *)
LEMMA LogCloses ==
    ASSUME LogAsLeft, NEW evs, Distinct(evs), NEW c,
           LogSound(c, evs, Len(lines) + 1), LogWritten(c, evs, Len(lines) + 1)
    PROVE  LogClosed(evs \o Lev!FinishLog(c))
<1> DEFINE nothing == [carried |-> c, events |-> <<>>]
           last == IF c.pending # <<>> /\ ~c.done THEN Lev!Batch(c.started, c.pending, FALSE, c) ELSE nothing
           p == last.carried.cut /\ ~last.carried.said
           q == ~last.carried.cut /\ ~last.carried.said /\ last.carried.seen >= MaxRecords
           one == Lev!When(p, Lev!Note("cut"))
           two == Lev!When(q, Lev!Note("truncated"))
           tail == one \o two
<1>1. Lev!FinishLog(c) = (last.events \o one) \o two
  BY Zenon DEF Lev!FinishLog
<1>2. \A why : \E x : Lev!Note(why) = <<x>> /\ x.loc[1] = 0 /\ x.says = why
  <2> TAKE why
  <2> DEFINE x == Lev!Ev(0, "file", 0, "unparsed.record", Null, Lev!NoStamp, why)
  <2>1. Lev!Note(why) = <<x>> /\ x.loc[1] = 0 /\ x.says = why
    BY DEF Lev!Note, Lev!Ev
  <2> HIDE DEF x
  <2> QED
    BY <2>1
<1>3. Len(lines) \in Nat
  BY RunFacts
<1>4. /\ IsList(evs) /\ DOMAIN c = LogFields /\ c.seen \in 0..MaxRecords /\ IsList(c.pending)
      /\ c.pending # <<>> => c.started # 0 /\ \A e \in Range(evs) : e.loc[1] # c.started
  BY <1>3 DEF LogSound, Distinct
<1>5. /\ \A i \in Heads : IsPrefix(RawsAt(evs, i), BodyOf(i))
      /\ c.done => Stopped(c, evs)
      /\ ~c.done => \A i \in Heads : Ended(i) =>
            RawsAt(evs, i) = Lev!EntriesOf(BodyOf(i)) \/ (c.pending # <<>> /\ c.started = i)
  <2>1. \A i \in Heads : LastOf(i) < Len(lines) + 1
    <3> TAKE i \in Heads
    <3>1. LastOf(i) \in Nat /\ LastOf(i) <= Len(lines)
      BY RunNumbers
    <3> QED
      BY <1>3, <3>1
  <2> QED
    BY <2>1 DEF LogWritten
<1>6. /\ IsList(last.events)
      /\ \A i \in Heads : IsPrefix(RawsAt(evs \o last.events, i), BodyOf(i))
      /\ \/ Owned(evs \o last.events) \/ q
         \/ \A i \in Heads : Ended(i) => RawsAt(evs \o last.events, i) = Lev!EntriesOf(BodyOf(i))
  <2>1. CASE c.pending # <<>> /\ ~c.done
    <3> DEFINE s == c.started
               batch == Lev!Batch(s, c.pending, FALSE, c)
    <3>1. last = batch
      BY <2>1
    <3>2. s \in Heads /\ c.pending = Span(s, Lesser((Len(lines) + 1) - 1, LastOf(s)))
      BY <2>1 DEF LogWritten, Gathers
    <3>3. LastOf(s) \in Nat /\ LastOf(s) <= Len(lines)
      BY <3>2, RunNumbers
    <3>4. c.pending = BodyOf(s)
      <4>1. Lesser((Len(lines) + 1) - 1, LastOf(s)) = LastOf(s)
        BY <1>3, <3>3 DEF Lesser
      <4> QED
        BY <3>2, <4>1 DEF BodyOf
    <3>5. batch = Lev!Batch(s, BodyOf(s), FALSE, c)
      BY <3>4
    <3>6. BatchAt(batch, s, FALSE, c)
      BY <1>4, <2>1, BatchTells
    <3> HIDE DEF batch, last
    <3>7. Adds(batch, evs, s)
      BY <1>4, <1>5, <2>1, <3>2, <3>5, BatchAdds
    <3>8. ~batch.carried.said /\ IsList(batch.events)
      BY <3>6 DEF BatchAt, Distinct
    <3>9. batch.carried.done => q
      <4>1. batch.carried.done => ~batch.carried.cut /\ batch.carried.seen = MaxRecords
        BY <3>7, <3>8 DEF Adds, Stopped
      <4>2. MaxRecords >= MaxRecords
        BY Bounds
      <4> QED
        BY <3>1, <3>8, <4>1, <4>2
    <3>10. ASSUME ~batch.carried.done, NEW i \in Heads, Ended(i)
           PROVE  RawsAt(evs \o batch.events, i) = Lev!EntriesOf(BodyOf(i))
      <4>1. CASE i = s
        BY <3>7, <3>10, <4>1 DEF Adds
      <4>2. CASE i # s
        BY <1>5, <2>1, <3>7, <3>10, <4>2 DEF Adds
      <4> QED
        BY <4>1, <4>2
    <3>11. \A i \in Heads : IsPrefix(RawsAt(evs \o batch.events, i), BodyOf(i))
      BY <3>7 DEF Adds
    <3> HIDE DEF q
    <3> QED
      BY <3>1, <3>8, <3>9, <3>10, <3>11
  <2>2. CASE ~(c.pending # <<>> /\ ~c.done)
    <3>1. last = nothing
      BY <2>2
    <3> HIDE DEF last
    <3>2. last.carried = c /\ last.events = <<>>
      BY <3>1
    <3>3. evs \o last.events = evs /\ IsList(last.events)
      BY <1>4, <3>2, ShortLists, ListsJoin
    <3>4. c.done /\ c.said => Owned(evs)
      BY <1>5 DEF Stopped, Owned
    <3>5. c.done /\ ~c.said => q
      <4>1. MaxRecords >= MaxRecords
        BY Bounds
      <4> QED
        BY <1>5, <3>2, <4>1 DEF Stopped
    <3>6. ~c.done => c.pending = <<>>
      BY <2>2
    <3> HIDE DEF q
    <3> QED
      BY <1>5, <3>3, <3>4, <3>5, <3>6
  <2> QED
    BY <2>1, <2>2
<1> HIDE DEF last, p, q
<1>7. /\ IsList(one) /\ \A e \in Range(one) : e.loc[1] = 0
      /\ IsList(two) /\ \A e \in Range(two) : e.loc[1] = 0
      /\ q => Owned(two)
  <2>1. PICK x : Lev!Note("cut") = <<x>> /\ x.loc[1] = 0
    BY <1>2
  <2>2. PICK y : Lev!Note("truncated") = <<y>> /\ y.loc[1] = 0 /\ y.says = "truncated"
    BY <1>2
  <2>3. one = <<>> \/ one = <<x>>
    BY <2>1 DEF Lev!When
  <2>4. (two = <<>> /\ ~q) \/ two = <<y>>
    BY <2>2 DEF Lev!When
  <2> HIDE DEF one, two
  <2>5. /\ \A e : IsList(<<e>>) /\ Range(<<e>>) = {e}
        /\ IsList(<<>>) /\ Range(<<>>) = {}
    BY ShortLists
  <2>6. two = <<y>> => Owned(two)
    BY <2>2, <2>5 DEF Owned
  <2> QED
    BY <2>1, <2>2, <2>3, <2>4, <2>5, <2>6
<1> HIDE DEF one, two
<1>8. /\ IsList(tail) /\ \A e \in Range(tail) : e.loc[1] = 0
      /\ q => Owned(tail)
  <2>1. IsList(tail) /\ Range(tail) = Range(one) \cup Range(two)
    BY <1>7, ListsJoin
  <2> QED
    BY <1>7, <2>1 DEF Owned
<1> DEFINE told == evs \o last.events
<1>9. IsList(told)
  BY <1>4, <1>6, ListsJoin
<1>10. evs \o ((last.events \o one) \o two) = told \o tail
  <2> DEFINE those == last.events
  <2>1. IsList(evs) /\ IsList(those) /\ IsList(one) /\ IsList(two) /\ IsList(tail)
    BY <1>4, <1>6, <1>7, <1>8
  <2>2. (those \o one) \o two = those \o tail
    <3>1. those \o (one \o two) = (those \o one) \o two
      <4> HIDE DEF those
      <4> QED
        BY ONLY <2>1, JoinAssociates, SMTT(30)
    <3> QED
      BY <3>1
  <2>3. evs \o (those \o tail) = (evs \o those) \o tail
    <3> HIDE DEF those, tail
    <3> QED
      BY ONLY <2>1, JoinAssociates
  <2> QED
    BY <2>2, <2>3
<1>11. /\ \A i \in Heads : RawsAt(told \o tail, i) = RawsAt(told, i)
       /\ Owned(told) \/ Owned(tail) => Owned(told \o tail)
  <2> HIDE DEF told, tail
  <2> QED
    BY <1>8, <1>9, NotesAddNothing
<1>12. LogClosed(told \o tail)
  <2>1. /\ \A i \in Heads : IsPrefix(RawsAt(told, i), BodyOf(i))
        /\ \/ Owned(told) \/ q
           \/ \A i \in Heads : Ended(i) => RawsAt(told, i) = Lev!EntriesOf(BodyOf(i))
    BY <1>6
  <2> HIDE DEF told, tail
  <2> QED
    BY <1>8, <1>11, <2>1 DEF LogClosed
<1> QED
  BY <1>1, <1>10, <1>12


(* What a log is does not change while it is read. *)
LEMMA LogStays ==
    ASSUME lines' = lines
    PROVE  /\ LogAsLeft' <=> LogAsLeft
           /\ HeadsFilled' <=> HeadsFilled
           /\ LogWritten(carried, events, at)' <=> LogWritten(carried', events', at')
           /\ LogClosed(events)' <=> LogClosed(events')
<1>1. Heads' = Heads
  BY DEF Heads
<1>2. \A i : LastOf(i)' = LastOf(i)
  BY DEF LastOf
<1>3. \A i, m : Span(i, m)' = Span(i, m)
  BY DEF Span
<1>4. \A i : BodyOf(i)' = BodyOf(i)
  BY <1>2, <1>3 DEF BodyOf
<1>5. \A i : Ended(i)' <=> Ended(i)
  BY <1>2 DEF Ended
<1>6. LogAsLeft' <=> LogAsLeft
  BY DEF LogAsLeft
<1>7. HeadsFilled' <=> HeadsFilled
  BY DEF HeadsFilled
<1>8. LogWritten(carried, events, at)' <=> LogWritten(carried', events', at')
  <2>1. Gathers(carried, at)' <=> Gathers(carried', at')
    BY <1>1, <1>2, <1>3 DEF Gathers
  <2> QED
    BY <1>1, <1>2, <1>4, <1>5, <2>1, ZenonT(30) DEF LogWritten, Stopped, RawsAt, Those, Lev!EntriesOf
<1>9. LogClosed(events)' <=> LogClosed(events')
  BY <1>1, <1>4, <1>5 DEF LogClosed, RawsAt, Those, Lev!EntriesOf, Owned
<1> QED
  BY <1>6, <1>7, <1>8, <1>9


(* What is told of a log as far as it was read, and of all of it.          *)
ReadInBatches ==
    format = "leveldb_log" =>
        /\ at \in 0..(Len(items) + 2)
        /\ LogAsLeft
        /\ HeadsFilled =>
              /\ at \in 1..(Len(items) + 1) => LogWritten(carried, events, at)
              /\ at = Len(items) + 2 => LogClosed(events)

(* Of a log its fragments are what there is to take.                       *)
LEMMA LogItems ==
    ASSUME Opened, format = "leveldb_log", at > 0
    PROVE  items = lines /\ Len(lines) \in Nat /\ DOMAIN items = 1..Len(lines)
<1>1. items = lines
  BY DEF Opened, Items, Whole
<1> QED
  BY <1>1, ListFacts DEF Opened, OnDisk

(* Nothing is the beginning of any record.                                 *)
LEMMA NothingWritten ==
    ASSUME LogAsLeft, NEW i \in Heads
    PROVE  IsPrefix(RawsAt(<<>>, i), BodyOf(i))
<1>1. i \in 1..Len(lines)
  BY DEF Heads
<1>2. LastOf(i) \in i..Len(lines)
  BY <1>1, RunEnds
<1>3. IsList(BodyOf(i))
  BY <1>1, <1>2, SpanGrows DEF BodyOf
<1>4. IsList(<<>>) /\ Range(<<>>) = {} /\ Len(<<>>) = 0
  BY ShortLists
<1>5. RawsAt(<<>>, i) = <<>>
  BY <1>4, RawsFacts
<1>6. IsPrefix(<<>>, BodyOf(i))
  <2> DEFINE body == BodyOf(i)
  <2>1. IsList(body) /\ Len(body) \in Nat
    BY <1>3, ListFacts
  <2> HIDE DEF body
  <2>2. 0 <= Len(body) /\ \A k \in 1..Len(<<>>) : FALSE
    BY <1>4, <2>1
  <2>3. IsPrefix(<<>>, body)
    BY <1>4, <2>1, <2>2, PrefixOf
  <2> QED
    BY <2>3 DEF body
<1> QED
  BY <1>5, <1>6

(* A log is opened.                                                        *)
LEMMA OpensLog ==
    ASSUME Opened, ReadInBatches, Open, format = "leveldb_log"
    PROVE  ReadInBatches'
<1>1. at' = 1 /\ carried' = StartOf /\ events' = Preface /\ format' = format /\ lines' = lines
  BY DEF Open
<1>2. StartOf = Lev!LogStart /\ Preface = <<>> /\ items' = lines
  BY DEF StartOf, Preface, Open, Items, Whole
<1>3. StartOf.pending = <<>> /\ ~StartOf.done
  BY <1>2 DEF Lev!LogStart
<1>4. Len(lines) \in Nat /\ IsList(lines)
  BY ListFacts DEF Opened, OnDisk
<1>5. LogAsLeft /\ LogAsLeft'
  BY <1>1, LogStays DEF ReadInBatches
<1>6. \A i \in Heads : IsPrefix(RawsAt(<<>>, i), BodyOf(i))
  BY <1>5, NothingWritten
<1>7. LogWritten(StartOf, <<>>, 1)
  <2>1. \A i \in Heads : ~(i < 1) /\ ~(LastOf(i) < 1)
    <3> TAKE i \in Heads
    <3>1. i \in 1..Len(lines) /\ LastOf(i) \in Nat /\ i <= LastOf(i)
      BY <1>5, RunNumbers
    <3> QED
      BY <1>4, <3>1
  <2>2. Gathers(StartOf, 1)
    BY <1>3, <2>1 DEF Gathers
  <2> QED
    BY <1>3, <1>6, <2>1, <2>2 DEF LogWritten
<1>8. LogWritten(carried, events, at)'
  BY <1>1, <1>2, <1>7, LogStays
<1>9. at' \in 0..(Len(items') + 2) /\ at' # Len(items') + 2
  BY <1>1, <1>2, <1>4
<1> QED
  BY <1>5, <1>8, <1>9 DEF ReadInBatches

(* A fragment of it is read.                                               *)
LEMMA GoesOnInLog ==
    ASSUME Opened, ReadAsItStands, ReadInBatches, Next, ~Open, ~Close, format = "leveldb_log"
    PROVE  ReadInBatches'
<1> DEFINE result == Lev!TakeFragment(at, Element, carried)
<1>1. /\ at \in DOMAIN items /\ at' = at + 1 /\ carried' = result.carried /\ events' = events \o result.events
      /\ format' = format /\ lines' = lines /\ items' = items
  <2>1. ReadLevelLog
    BY ReaderIs
  <2> HIDE DEF result
  <2> QED
    BY <2>1 DEF ReadLevelLog, Read, result
<1>2. at > 0
  <2>1. at \in Nat /\ (at = 0 => items = <<>>)
    BY DEF Opened
  <2>2. at # 0
    BY <1>1, <2>1, ShortLists
  <2> QED
    BY <2>1, <2>2
<1>3. items = lines /\ Len(lines) \in Nat /\ at \in 1..Len(lines) /\ Element = lines[at]
  BY <1>1, <1>2, LogItems DEF Element
<1>4. /\ at \in 1..(Len(items) + 1) /\ at' \in 0..(Len(items') + 2) /\ at' # Len(items') + 2
  BY <1>1, <1>3
<1>5. Distinct(events) /\ LogSound(carried, events, at)
  BY <1>4 DEF ReadAsItStands, AsItStands
<1>6. LogAsLeft /\ LogAsLeft' /\ (HeadsFilled' => HeadsFilled)
  BY <1>1, LogStays DEF ReadInBatches
<1>7. HeadsFilled => LogWritten(carried, events, at)'
  <2> SUFFICES ASSUME HeadsFilled PROVE LogWritten(carried, events, at)'
    OBVIOUS
  <2>1. LogWritten(carried, events, at)
    BY <1>4 DEF ReadInBatches
  <2>2. result = Lev!TakeFragment(at, lines[at], carried)
    BY <1>3
  <2> HIDE DEF result
  <2>3. LogWritten(result.carried, events \o result.events, at + 1)
    BY <1>3, <1>5, <1>6, <2>1, <2>2, FragmentWrites
  <2>4. LogWritten(carried', events', at')
    BY <1>1, <2>3
  <2> QED
    BY <1>1, <2>4, LogStays
<1> QED
  BY <1>4, <1>6, <1>7 DEF ReadInBatches

(* It is closed.                                                           *)
LEMMA EndsLog ==
    ASSUME Opened, ReadAsItStands, ReadInBatches, Close, format = "leveldb_log"
    PROVE  ReadInBatches'
<1>1. /\ at = Len(items) + 1 /\ at' = Len(items) + 2 /\ events' = events \o Finish
      /\ format' = format /\ lines' = lines /\ items' = items
  BY DEF Close
<1>2. at > 0
  <2>1. at \in Nat /\ (at = 0 => items = <<>>)
    BY DEF Opened
  <2>2. at # 0
    BY <1>1, <2>1, ShortLists
  <2> QED
    BY <2>1, <2>2
<1>3. items = lines /\ Len(lines) \in Nat
  BY <1>2, LogItems
<1>4. at \in 1..(Len(items) + 1) /\ at' \in 0..(Len(items') + 2) /\ ~(at' \in 1..(Len(items') + 1))
  BY <1>1, <1>3
<1>5. Distinct(events) /\ LogSound(carried, events, Len(lines) + 1)
  BY <1>1, <1>3, <1>4 DEF ReadAsItStands, AsItStands
<1>6. LogAsLeft /\ LogAsLeft' /\ (HeadsFilled' => HeadsFilled)
  BY <1>1, LogStays DEF ReadInBatches
<1>7. HeadsFilled => LogClosed(events)'
  <2> SUFFICES ASSUME HeadsFilled PROVE LogClosed(events)'
    OBVIOUS
  <2>1. LogWritten(carried, events, Len(lines) + 1)
    BY <1>1, <1>3, <1>4 DEF ReadInBatches
  <2>2. LogClosed(events \o Lev!FinishLog(carried))
    BY <1>5, <1>6, <2>1, LogCloses
  <2>3. Finish = Lev!FinishLog(carried)
    BY DEF Finish
  <2> QED
    BY <1>1, <2>2, <2>3, LogStays
<1> QED
  BY <1>4, <1>6, <1>7 DEF ReadInBatches

(* A log is as its writers left it.                                        *)
LEMMA LogFound ==
    ASSUME Opened, Writable, format = "leveldb_log"
    PROVE  LogAsLeft
<1>1. IsList(lines) /\ DOMAIN lines = 1..Len(lines) /\ Range(lines) \subseteq Range(Elements[format])
      /\ format \in DOMAIN Elements
  BY ListFacts DEF Opened, OnDisk
<1>2. ASSUME NEW i \in 1..Len(lines)
      PROVE  lines[i].kind \in {"full", "first", "middle", "last", "unknown"} /\ IsList(lines[i].body)
  <2>1. lines[i] \in Range(Elements[format])
    BY <1>1 DEF Range
  <2>2. PICK k \in DOMAIN Elements[format] : lines[i] = Elements[format][k]
    BY <2>1 DEF Range
  <2>3. Fits("leveldb_log", lines[i])
    BY <1>1, <2>2, ElementsFit DEF Documents
  <2> QED
    BY <2>3 DEF Fits, IsList
<1> QED
  BY <1>1, <1>2 DEF Writable, LogAsLeft

(* So the records of a log are always told in that way.                    *)
LEMMA AlwaysInBatches == Spec => []ReadInBatches
<1>1. Init /\ Opened => ReadInBatches
  <2> SUFFICES ASSUME Init, Opened PROVE ReadInBatches
    OBVIOUS
  <2>1. at = 0 /\ items = <<>> /\ Writable
    BY DEF Init
  <2>2. Len(items) = 0
    BY <2>1, ShortLists
  <2>3. at \in 0..(Len(items) + 2) /\ ~(at \in 1..(Len(items) + 1)) /\ at # Len(items) + 2
    BY <2>1, <2>2
  <2> QED
    BY <2>1, <2>3, LogFound DEF ReadInBatches
<1>2. Opened /\ ReadAsItStands /\ ReadInBatches /\ [Next]_vars => ReadInBatches'
  <2> SUFFICES ASSUME Opened, ReadAsItStands, ReadInBatches, [Next]_vars PROVE ReadInBatches'
    OBVIOUS
  <2>1. CASE UNCHANGED vars
    <3>1. /\ format' = format /\ lines' = lines /\ items' = items /\ at' = at
          /\ carried' = carried /\ events' = events
      BY <2>1 DEF vars
    <3>2. /\ LogAsLeft => LogAsLeft'
          /\ HeadsFilled' => HeadsFilled
          /\ LogWritten(carried, events, at) => LogWritten(carried, events, at)'
          /\ LogClosed(events) => LogClosed(events)'
      BY <3>1, LogStays
    <3> QED
      BY <3>1, <3>2 DEF ReadInBatches
  <2>2. CASE format # "leveldb_log"
    BY <2>2, FormatStays DEF ReadInBatches
  <2>3. CASE Next /\ format = "leveldb_log"
    BY <2>3, OpensLog, EndsLog, GoesOnInLog
  <2> QED
    BY <2>1, <2>2, <2>3
<1> QED
  BY <1>1, <1>2, FileOpened, AlwaysAsItStands, PTL DEF Spec

(* Every put and delete of a log is told as it was written, the entries of *)
(* a batch in their order at the place where it begins, and all of one     *)
(* that was ended, or cut by the end of the file, unless it is said that   *)
(* reading stopped, provided that no record begins with a fragment of no   *)
(* bytes (leveldb.py, read_log).                                           *)
THEOREM AlwaysBatchesAsWritten == Spec => []BatchesAsWritten
<1>1. Opened /\ ReadInBatches => BatchesAsWritten
  <2> SUFFICES ASSUME Opened, ReadInBatches, format = "leveldb_log",
                      \A i \in DOMAIN lines : lines[i].kind # "first" \/ lines[i].body # <<>>,
                      NEW i \in DOMAIN lines, lines[i].kind \in {"full", "first"},
                      NEW raws, raws = RawsAt(events, i)
               PROVE  /\ IsPrefix(raws, RecordFrom(i).body)
                      /\ Closed /\ RecordFrom(i).ended =>
                            \/ raws = Lev!EntriesOf(RecordFrom(i).body)
                            \/ \E n \in DOMAIN events : events[n].loc[1] = 0 /\ events[n].says \in {"truncated", "stopped"}
    BY Zenon DEF BatchesAsWritten, EveryBatchIsTold
  <2>1. Len(lines) \in Nat /\ DOMAIN lines = 1..Len(lines) /\ LogAsLeft
    BY ListFacts DEF Opened, OnDisk, ReadInBatches
  <2>2. HeadsFilled /\ i \in Heads
    BY <2>1 DEF HeadsFilled, Heads
  <2>3. RecordFrom(i).body = BodyOf(i)
    BY DEF RecordFrom, BodyOf
  <2>4. RecordFrom(i).ended => Ended(i)
    <3>1. RecordFrom(i).ended = (lines[LastOf(i)].kind \in {"full", "last"} \/ LastOf(i) = Len(lines))
      BY DEF RecordFrom
    <3> QED
      BY <3>1 DEF Ended
  <2>5. at \in 0..(Len(items) + 2) /\ Len(items) \in Nat
    BY ItemsList DEF ReadInBatches
  <2>6. CASE at = 0
    <3>1. events = <<>> /\ ~Closed
      BY <2>5, <2>6 DEF Opened, Closed
    <3>2. IsPrefix(RawsAt(<<>>, i), BodyOf(i))
      BY <2>1, <2>2, NothingWritten
    <3> QED
      BY <2>3, <3>1, <3>2
  <2>7. CASE at \in 1..(Len(items) + 1)
    <3>1. LogWritten(carried, events, at) /\ ~Closed
      BY <2>2, <2>5, <2>7 DEF ReadInBatches, Closed
    <3>2. IsPrefix(RawsAt(events, i), BodyOf(i))
      BY <2>2, <3>1 DEF LogWritten
    <3> QED
      BY <2>3, <3>1, <3>2
  <2>8. CASE at = Len(items) + 2
    <3>1. LogClosed(events)
      BY <2>2, <2>8 DEF ReadInBatches
    <3>2. /\ IsPrefix(RawsAt(events, i), BodyOf(i))
          /\ Ended(i) => RawsAt(events, i) = Lev!EntriesOf(BodyOf(i)) \/ Owned(events)
      BY <2>2, <3>1 DEF LogClosed
    <3>3. Owned(events) => \E n \in DOMAIN events : events[n].loc[1] = 0 /\ events[n].says \in {"truncated", "stopped"}
      BY DEF Owned, Range
    <3> QED
      BY <2>3, <2>4, <3>2, <3>3
  <2>9. at = 0 \/ at \in 1..(Len(items) + 1) \/ at = Len(items) + 2
    BY <2>5
  <2> QED
    BY <2>6, <2>7, <2>8, <2>9
<1> QED
  BY <1>1, FileOpened, AlwaysInBatches, PTL
================================================================================
