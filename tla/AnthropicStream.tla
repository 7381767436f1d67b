--------------------------- MODULE AnthropicStream ---------------------------
(***************************************************************************)
(* The translation of OpenAI chunks into Anthropic stream events           *)
(* (anthropic.go), and the client that reads them.                         *)
(*                                                                         *)
(* A chunk is a sequence of pieces, the text first and then the tool       *)
(* calls, with a finish reason.  A piece of a tool call carries the index  *)
(* of the call and its name, its arguments, or both.  Pieces are numbered  *)
(* in the order the engine sends them; what a client or an audit record    *)
(* gets of them is a sequence of units <<"text" | "name" | "args", n>>.    *)
(***************************************************************************)
EXTENDS Integers, Sequences, SequencesExt

Text(n) == [kind |-> "text", index |-> 0, name |-> FALSE, args |-> FALSE, n |-> n]
ToolCall(i, name, args, n) == [kind |-> "tool", index |-> i, name |-> name, args |-> args, n |-> n]

NameUnit(p) == IF p.name THEN <<<<"name", p.n>>>> ELSE <<>>
DeltaUnit(p) == IF p.kind = "text" THEN <<<<"text", p.n>>>>
                ELSE IF p.args THEN <<<<"args", p.n>>>> ELSE <<>>

\* The text of deltaAuditText and metaFromChunk.
AuditTexts(pieces) ==
  LET text[i \in 0..Len(pieces)] ==
        IF i = 0 THEN <<>> ELSE text[i - 1] \o NameUnit(pieces[i]) \o DeltaUnit(pieces[i])
  IN text
AuditText(pieces) == AuditTexts(pieces)[Len(pieces)]

-----------------------------------------------------------------------------
(* The translator.                                                         *)

newAnthropicStream ==
  [open |-> "none", blockIndex |-> -1, toolIndex |-> 0, sawTool |-> FALSE, finish |-> ""]

Event(name, index, units) == [name |-> name, index |-> index, kind |-> "", units |-> units, stop |-> ""]
BlockStart(p, index) == [Event("content_block_start", index, NameUnit(p)) EXCEPT !.kind = p.kind]

\* Mutant: the block of the other kind stays open.
closeBlock_TextOnly(s) ==
  IF s.open # "text" THEN <<>> ELSE <<Event("content_block_stop", s.blockIndex, <<>>)>>

closeBlock(s) ==
  IF s.open = "none" THEN <<>> ELSE <<Event("content_block_stop", s.blockIndex, <<>>)>>

\* A piece that does not belong to the open block closes it and opens its own.
Opened(s, p) ==
  [s EXCEPT !.open = p.kind, !.blockIndex = @ + 1,
            !.toolIndex = IF p.kind = "tool" THEN p.index ELSE @,
            !.sawTool = @ \/ p.kind = "tool"]
Belongs(s, p) == s.open = p.kind /\ (p.kind = "tool" => s.toolIndex = p.index)

Translate(acc, p) ==
  LET s == IF Belongs(acc.s, p) THEN acc.s ELSE Opened(acc.s, p)
      start == IF Belongs(acc.s, p) THEN <<>>
               ELSE Append(closeBlock(acc.s), BlockStart(p, s.blockIndex))
      delta == IF DeltaUnit(p) = <<>> THEN <<>>
               ELSE <<Event("content_block_delta", s.blockIndex, DeltaUnit(p))>>
  IN [s |-> s, events |-> acc.events \o start \o delta]

Translated(s, pieces) ==
  LET run[i \in 0..Len(pieces)] ==
        IF i = 0 THEN [s |-> s, events |-> <<>>] ELSE Translate(run[i - 1], pieces[i])
  IN run

chunk(s, c) ==
  [Translated(s, c.pieces)[Len(c.pieces)] EXCEPT !.s.finish = IF c.finish = "" THEN @ ELSE c.finish]

stopReasonFromFinish(finish) ==
  CASE finish = "length" -> "max_tokens"
    [] finish \in {"tool_calls", "function_call"} -> "tool_use"
    [] OTHER -> "end_turn"

\* Mutant: the engine's finish reason is believed.
StopReason_AsReported(finish, sawTool) == stopReasonFromFinish(finish)

\* Some engines finish with "stop" after calling tools.
StopReason(finish, sawTool) == IF sawTool THEN "tool_use" ELSE stopReasonFromFinish(finish)

end(s) ==
  closeBlock(s) \o <<[Event("message_delta", 0, <<>>) EXCEPT !.stop = StopReason(s.finish, s.sawTool)],
                     Event("message_stop", 0, <<>>)>>

\* A whole reply as an Anthropic message.
openAIToAnthropic(c) ==
  [units |-> AuditText(c.pieces),
   stop |-> StopReason(c.finish, \E i \in DOMAIN c.pieces : c.pieces[i].kind = "tool")]

-----------------------------------------------------------------------------
(* What a client makes of the frames it gets.                              *)

\* phase: how far its parser is ("bad": the frames are not a stream).
NewClient(phase) == [phase |-> phase, next |-> 0, got |-> <<>>, stop |-> "", nameless |-> FALSE]

Bad(seen) == [seen EXCEPT !.phase = "bad"]
InStream == {"between", "text", "tool", "ending"}

ParseEvent(seen, ev) ==
  CASE ev.name = "message_start" /\ seen.phase = "waiting" -> [seen EXCEPT !.phase = "between"]
    [] ev.name = "content_block_start" /\ seen.phase = "between" /\ ev.index = seen.next ->
         [seen EXCEPT !.phase = ev.kind, !.got = @ \o ev.units,
                      !.nameless = @ \/ (ev.kind = "tool" /\ ev.units = <<>>)]
    [] ev.name = "content_block_delta" /\ seen.phase \in {"text", "tool"} /\ ev.index = seen.next
         /\ (seen.phase = "text") = (ev.units[1][1] = "text") -> [seen EXCEPT !.got = @ \o ev.units]
    [] ev.name = "content_block_stop" /\ seen.phase \in {"text", "tool"} /\ ev.index = seen.next ->
         [seen EXCEPT !.phase = "between", !.next = @ + 1]
    [] ev.name = "message_delta" /\ seen.phase = "between" -> [seen EXCEPT !.phase = "ending", !.stop = ev.stop]
    [] ev.name = "message_stop" /\ seen.phase = "ending" -> [seen EXCEPT !.phase = "ended"]
    [] ev.name = "error" /\ seen.phase \in InStream \cup {"waiting"} -> [seen EXCEPT !.phase = "failed"]
    [] OTHER -> Bad(seen)

\* The events of one write, in their order.
Parsed(seen, evs) ==
  LET run[i \in 0..Len(evs)] == IF i = 0 THEN seen ELSE ParseEvent(run[i - 1], evs[i])
  IN run
ParseEvents(seen, evs) == Parsed(seen, evs)[Len(evs)]

\* The frames of a chat completion: chunks, an error, [DONE].
ParseFrame(seen, f) ==
  CASE f.name = "chunk" /\ seen.phase = "open" ->
         [seen EXCEPT !.got = @ \o f.units, !.stop = IF f.stop = "" THEN @ ELSE f.stop]
    [] f.name = "error" /\ seen.phase \in {"open", "error"} -> [seen EXCEPT !.phase = "error"]
    [] f.name = "[DONE]" /\ seen.phase = "open" -> [seen EXCEPT !.phase = "ended"]
    [] f.name = "[DONE]" /\ seen.phase = "error" -> [seen EXCEPT !.phase = "failed"]
    [] OTHER -> Bad(seen)
=============================================================================
