------------------------------ MODULE Completion ------------------------------
(***************************************************************************)
(* One API request through the middleware chain (main.go, metrics.go) and  *)
(* the completion handlers (api_handlers.go), down to the engine's stream  *)
(* (engine.go) and up to the client that reads the answer.                 *)
(*                                                                         *)
(* The handler, the timer of the stream deadline, the engine and the       *)
(* client run concurrently.  Time is counted in ticks; it passes while the *)
(* engine is silent and while a slow client is written to.                 *)
(***************************************************************************)
EXTENDS AnthropicStream, FiniteSetsExt

CONSTANTS StreamIdle, StreamMax,  \* the two bounds of a stream, in ticks
          AuditLimit,             \* units a streamAudit keeps (MaxMsgLen)
          MaxPieces               \* bound on the content of one reply

ASSUME CompletionAssumption ==
  /\ StreamIdle \in Nat \ {0} /\ StreamMax \in Nat \ {0}
  /\ AuditLimit \in Nat /\ MaxPieces \in Nat

VARIABLES req,      \* the request: its route, its engine, and whether it streams
          pc,       \* where its handler is
          conn,     \* statusRecorder, and the status on the wire
          seen,     \* what the client made of the response
          gone,     \* the client has hung up
          engine,   \* the upstream stream as the adapter has read it
          deadline, \* streamDeadline
          payload,  \* the chunk read and not yet written
          tr,       \* anthropicStream
          handler,  \* the handler's locals and what it deferred
          log       \* the rows written and the metric counted

vars == <<req, pc, conn, seen, gone, engine, deadline, payload, tr, handler, log>>

Reqs == [route : {"chat", "messages"}, engine : {"ollama", "compat"}, stream : BOOLEAN]
          \cup {[route |-> "count", engine |-> "compat", stream |-> FALSE]}
NoReq == [route |-> "none", engine |-> "none", stream |-> FALSE]
Reasons == {"stop", "length"}
NoChunk == [pieces |-> <<>>, finish |-> ""]
NoRow == [status |-> 0, err |-> ""]
NoRecord == [text |-> <<>>, mark |-> "none"]

-----------------------------------------------------------------------------

NewConn == [status |-> 200, wrote |-> FALSE, sse |-> FALSE, sent |-> 0]
NewEngine == [first |-> TRUE, done |-> FALSE, calls |-> 0, sent |-> 0, last |-> -1,
              back |-> FALSE, reason |-> "", eof |-> FALSE, broke |-> "no"]
NewDeadline == [left |-> Min({StreamIdle, StreamMax}), life |-> 0, firing |-> FALSE,
                cause |-> "none"]
NewHandler == [logged |-> FALSE, slot |-> FALSE, audited |-> FALSE, panicking |-> FALSE,
               audit |-> <<>>, outcome |-> "", err |-> ""]
NewLog == [request |-> NoRow, interaction |-> NoRecord, metric |-> 0]

Init ==
  /\ req = NoReq /\ pc = "idle" /\ conn = NewConn /\ seen = NewClient("none")
  /\ gone = FALSE /\ engine = NewEngine /\ deadline = NewDeadline /\ payload = NoChunk
  /\ tr = newAnthropicStream /\ handler = NewHandler /\ log = NewLog

-----------------------------------------------------------------------------
(* Responses.                                                              *)

WriteHeader(c, code) ==
  [c EXCEPT !.status = IF c.wrote THEN @ ELSE code, !.wrote = TRUE,
            !.sent = IF @ = 0 THEN code ELSE @]

\* What a client that is still there reads.
Reads(s) == seen' = IF gone THEN seen ELSE s

jsonResponse(code) ==
  /\ conn' = WriteHeader(conn, code)
  /\ Reads([seen EXCEPT !.phase = IF code = 200 THEN "reply" ELSE "failed"])

Frame(name, c) == [name |-> name, units |-> AuditText(c.pieces), stop |-> c.finish]
ErrorFrame == Frame("error", NoChunk)
DoneFrame == Frame("[DONE]", NoChunk)

Streaming == pc \in {"start", "recv", "write", "interrupted", "finish"}

-----------------------------------------------------------------------------
(* streamDeadline.                                                         *)

until(d) == Min({StreamIdle, StreamMax - d.life})

\* Mutant: progress extends the overall ceiling as well.
touch_Unbounded(d) == [d EXCEPT !.left = StreamIdle]

\* Reset arms the timer again; it does not recall a fired() that has started.
touch(d) == [d EXCEPT !.left = until(d), !.firing = @ \/ until(d) = 0]

Armed == pc = "open" \/ Streaming

\* Time passes.  When the timer expires, fired starts on a goroutine of its own.
Tick ==
  /\ Armed /\ ~deadline.firing /\ deadline.cause = "none" /\ deadline.left > 0
  /\ deadline' = [deadline EXCEPT !.left = @ - 1, !.life = Min({StreamMax, @ + 1}),
                                  !.firing = deadline.left = 1]
  /\ UNCHANGED <<req, pc, conn, seen, gone, engine, payload, tr, handler, log>>

\* Mutant: the sooner bound is always taken for the idle one.
cancelCause_IdleOnly(d) == IF d.cause # "none" THEN d.cause ELSE "idle"

\* The first cancellation sticks.
cancelCause(d) ==
  IF d.cause # "none" THEN d.cause ELSE IF d.life >= StreamMax THEN "max" ELSE "idle"

fired ==
  /\ Armed /\ deadline.firing
  /\ deadline' = [deadline EXCEPT !.firing = FALSE, !.cause = cancelCause(deadline)]
  /\ UNCHANGED <<req, pc, conn, seen, gone, engine, payload, tr, handler, log>>

\* The client leaves; the request's context, and every one derived from it, is
\* cancelled.
HangUp ==
  /\ ~gone /\ pc \notin {"idle", "done"}
  /\ gone' = TRUE
  /\ deadline' = [deadline EXCEPT !.cause = IF @ = "none" THEN "client" ELSE @]
  /\ UNCHANGED <<req, pc, conn, seen, engine, payload, tr, handler, log>>

-----------------------------------------------------------------------------
(* The middleware chain on the way in.                                     *)

Arrive(r) ==
  /\ pc = "idle"
  /\ req' = r /\ pc' = "auth"
  /\ UNCHANGED <<conn, seen, gone, engine, deadline, payload, tr, handler, log>>

\* apiAuthMiddleware refuses before the request log, so no row is written.
Unauthorized ==
  /\ pc = "auth"
  /\ jsonResponse(401)
  /\ pc' = "unwind"
  /\ UNCHANGED <<req, gone, engine, deadline, payload, tr, handler, log>>

Authorized ==
  /\ pc = "auth"
  /\ pc' = "admit" /\ handler' = [handler EXCEPT !.logged = TRUE]
  /\ UNCHANGED <<req, conn, seen, gone, engine, deadline, payload, tr, log>>

-----------------------------------------------------------------------------
(* Admission.                                                              *)

\* The limit, the body, its fields, the model and the slot may refuse it.
Refusals == {429, 413, 400} \cup (IF req.route = "count" THEN {} ELSE {404, 502, 503})

Refuse(code) ==
  /\ pc = "admit"
  /\ jsonResponse(code)
  /\ pc' = "unwind"
  /\ UNCHANGED <<req, gone, engine, deadline, payload, tr, handler, log>>

handleCountTokens ==
  /\ pc = "admit" /\ req.route = "count"
  /\ jsonResponse(200)
  /\ pc' = "unwind"
  /\ UNCHANGED <<req, gone, engine, deadline, payload, tr, handler, log>>

\* acquireEngine takes a slot, and a streaming handler starts its deadline.
acquireEngine ==
  /\ pc = "admit" /\ req.route # "count"
  /\ handler' = [handler EXCEPT !.slot = TRUE]
  /\ pc' = IF req.stream THEN "open" ELSE "chat"
  /\ UNCHANGED <<req, conn, seen, gone, engine, deadline, payload, tr, log>>

-----------------------------------------------------------------------------
(* The engine.                                                             *)

\* Mutant: calls keep the number they have within their line.
CallIndex_PerLine(i) == i - 1

\* The i-th call of a line, numbered across the stream.
CallIndex(i) == engine.calls + i - 1

Calls(m, before) == [i \in 1..m |-> ToolCall(CallIndex(i), TRUE, TRUE, engine.sent + before + i)]

\* A line of Ollama as a chunk: the calls are whole, and the last line has a
\* reason and, unless it is the first too, no text.
ollamaChunk(line) ==
  LET text == IF line.text /\ (engine.first \/ ~line.done) THEN <<Text(engine.sent + 1)>> ELSE <<>>
  IN [pieces |-> text \o Calls(line.calls, Len(text)),
      finish |-> IF ~line.done THEN ""
                 ELSE IF engine.calls + line.calls > 0 THEN "tool_calls" ELSE line.reason]

OllamaLines == [text : BOOLEAN, calls : 0..2, done : {FALSE}, reason : {""}]
                 \cup [text : BOOLEAN, calls : 0..2, done : {TRUE}, reason : Reasons]

\* A chunk of an OpenAI-compatible engine, relayed as it is: text, a new call
\* (its name, with or without arguments) or more arguments of an earlier one.
CompatPieces ==
  {<<>>, <<Text(engine.sent + 1)>>}
    \cup {<<ToolCall(engine.calls, TRUE, args, engine.sent + 1)>> : args \in BOOLEAN}
    \cup {<<ToolCall(i, FALSE, TRUE, engine.sent + 1)>> : i \in 0..(engine.calls - 1)}
CompatChunks == [pieces : CompatPieces, finish : {""} \cup Reasons]

NewCalls(c) == Cardinality({i \in DOMAIN c.pieces : c.pieces[i].name})
CallOf(p) == IF p.kind = "text" THEN -1 ELSE p.index

\* The stream after chunk c.  back: a fragment continued a call that was not
\* the last thing sent.
After(c, done, reason) ==
  [engine EXCEPT !.first = FALSE, !.done = done, !.calls = @ + NewCalls(c),
                 !.sent = @ + Len(c.pieces),
                 !.last = IF c.pieces = <<>> THEN @ ELSE CallOf(Last(c.pieces)),
                 !.back = @ \/ \E p \in ToSet(c.pieces) :
                                 p.kind = "tool" /\ ~p.name /\ engine.last # p.index,
                 !.reason = IF reason = "" THEN @ ELSE reason]

CompatBodies == {text \o Calls(m, Len(text)) : text \in {<<>>, <<Text(1)>>}, m \in 0..2}

Replies ==
  IF req.engine = "ollama"
    THEN {ollamaChunk(line) : line \in {l \in OllamaLines : l.done}}
    ELSE [pieces : CompatBodies, finish : {""} \cup Reasons]

-----------------------------------------------------------------------------
(* Completions that do not stream.                                         *)

\* The answer is logged and written, translated for /v1/messages.
ChatAnswers(reply) ==
  LET units == AuditText(reply.pieces)
  IN /\ pc = "chat"
     /\ log' = [log EXCEPT !.interaction = [text |-> units, mark |-> ""]]
     /\ conn' = WriteHeader(conn, 200)
     /\ Reads([seen EXCEPT !.phase = "reply", !.got = units,
                           !.stop = IF req.route = "chat" THEN reply.finish
                                    ELSE openAIToAnthropic(reply).stop])
     /\ engine' = [After(reply, TRUE, reply.finish) EXCEPT !.eof = TRUE]
     /\ pc' = "unwind"
     /\ UNCHANGED <<req, gone, deadline, payload, tr, handler>>

\* A relayed body that is not a completion cannot be translated.
TranslateFails ==
  /\ pc = "chat" /\ req.route = "messages" /\ req.engine = "compat"
  /\ jsonResponse(502)
  /\ pc' = "unwind"
  /\ UNCHANGED <<req, gone, engine, deadline, payload, tr, handler, log>>

\* The engine cannot be reached, or not in time, by Chat or by StreamChat.  To
\* a client that has left nothing is said.
EngineFails ==
  /\ pc \in {"chat", "open"}
  /\ IF gone THEN UNCHANGED <<conn, seen, handler>>
     ELSE jsonResponse(502) /\ handler' = [handler EXCEPT !.err = "engine"]
  /\ pc' = "unwind"
  /\ UNCHANGED <<req, gone, engine, deadline, payload, tr, log>>

-----------------------------------------------------------------------------
(* Streams.                                                                *)

\* The engine accepts: the headers go out, and the interaction is logged
\* however the handler ends from here on.
StreamChat ==
  /\ pc = "open" /\ deadline.cause = "none"
  /\ conn' = [WriteHeader(conn, 200) EXCEPT !.sse = TRUE]
  /\ Reads(NewClient(IF req.route = "chat" THEN "open" ELSE "waiting"))
  /\ handler' = [handler EXCEPT !.audited = TRUE]
  /\ pc' = IF req.route = "chat" THEN "recv" ELSE "start"
  /\ UNCHANGED <<req, gone, engine, deadline, payload, tr, log>>

\* A write to a client that has left fails, sooner or later.
Abandon(outcome) ==
  /\ gone
  /\ handler' = [handler EXCEPT !.outcome = outcome] /\ pc' = "unwind"
  /\ UNCHANGED <<seen, tr>>

SendStart ==
  /\ pc = "start"
  /\ \/ /\ Reads(ParseEvent(seen, Event("message_start", 0, <<>>)))
        /\ pc' = "recv" /\ UNCHANGED <<tr, handler>>
     \/ Abandon("client disconnected")
  /\ UNCHANGED <<req, conn, gone, engine, deadline, payload, log>>

\* Recv returns a chunk, and the deadline is touched.  Lines that are blank or
\* do not parse are skipped and touch nothing.  What still comes once the
\* stream is cancelled had been read before, and carries content.
Received(c, done, reason) ==
  /\ pc = "recv" /\ ~engine.done
  /\ engine.sent + Len(c.pieces) <= MaxPieces
  /\ deadline.cause = "none" \/ c.pieces # <<>> \/ done
  /\ payload' = c /\ engine' = After(c, done, reason) /\ deadline' = touch(deadline)
  /\ pc' = "write"
  /\ UNCHANGED <<req, conn, seen, gone, tr, handler, log>>

RecvOllama(line) ==
  req.engine = "ollama" /\ Received(ollamaChunk(line), line.done, line.reason)
RecvCompat(c) == req.engine = "compat" /\ Received(c, FALSE, c.finish)

\* The engine's terminator, or just the end of its body.
RecvEOF ==
  /\ pc = "recv"
  /\ engine' = [engine EXCEPT !.eof = TRUE]
  /\ pc' = "finish"
  /\ UNCHANGED <<req, conn, seen, gone, deadline, payload, tr, handler, log>>

\* The connection breaks, a line is too long, or the context was cancelled.
RecvFails ==
  /\ pc = "recv" /\ ~engine.done
  /\ engine' = [engine EXCEPT !.broke = deadline.cause]
  /\ pc' = "interrupted"
  /\ UNCHANGED <<req, conn, seen, gone, deadline, payload, tr, handler, log>>

\* The deadline's cause replaces the read error, if it is the deadline's.
cause(d) == IF d.cause \in {"idle", "max"} THEN d.cause ELSE "engine"

\* Mutant: the stream just ends.
WithError_Silent(s) == s

WithError(s) ==
  IF req.route = "chat" THEN ParseFrame(s, ErrorFrame) ELSE ParseEvent(s, Event("error", 0, <<>>))

Interrupted ==
  /\ pc = "interrupted"
  /\ Reads(WithError(seen))
  /\ handler' = [handler EXCEPT !.outcome = "stream interrupted", !.err = cause(deadline)]
  /\ pc' = IF req.route = "chat" THEN "finish" ELSE "unwind"
  /\ UNCHANGED <<req, conn, gone, engine, deadline, payload, tr, log>>

\* Mutant: the audit has no limit.
auditWrite_Unlimited(audit, units) == audit \o units

\* streamAudit.write keeps what fits.
auditWrite(audit, units) ==
  audit \o SubSeq(units, 1, Min({Len(units), AuditLimit - Len(audit)}))

\* The chunk is written, translated for /v1/messages, and then recorded.
Relay ==
  /\ pc = "write"
  /\ \/ /\ \E t \in {chunk(tr, payload)} :
             /\ Reads(IF req.route = "chat" THEN ParseFrame(seen, Frame("chunk", payload))
                      ELSE ParseEvents(seen, t.events))
             /\ tr' = IF req.route = "chat" THEN tr ELSE t.s
        /\ handler' = [handler EXCEPT !.audit = auditWrite(@, AuditText(payload.pieces))]
        /\ pc' = "recv"
     \/ Abandon("client disconnected")
  /\ payload' = NoChunk
  /\ UNCHANGED <<req, conn, gone, engine, deadline, log>>

Finish ==
  /\ pc = "finish"
  /\ Reads(IF req.route = "chat" THEN ParseFrame(seen, DoneFrame)
           ELSE ParseEvents(seen, end(tr)))
  /\ pc' = "unwind"
  /\ UNCHANGED <<req, conn, gone, engine, deadline, payload, tr, handler, log>>

-----------------------------------------------------------------------------
(* The way out.                                                            *)

\* A handler may panic wherever it is.
Panic ==
  /\ pc \notin {"idle", "unwind", "done"}
  /\ handler' = [handler EXCEPT !.panicking = TRUE] /\ pc' = "unwind"
  /\ UNCHANGED <<req, conn, seen, gone, engine, deadline, payload, tr, log>>

\* Mutant: a panic is logged as a 500, whatever was written before it.
panicStatus_Always500(c) == 500

panicStatus(c) == IF c.wrote THEN c.status ELSE 500

RequestRow ==
  IF ~handler.logged THEN NoRow
  ELSE [status |-> IF handler.panicking THEN panicStatus(conn) ELSE conn.status,
        err |-> handler.err]

InteractionRow ==
  IF handler.audited THEN [text |-> handler.audit, mark |-> handler.outcome] ELSE log.interaction

\* recoveryMiddleware answers a panic: a 500 while it can, the error frame of a
\* chat stream once a stream is open, and otherwise nothing.
writePanicResponse ==
  IF ~conn.wrote THEN jsonResponse(500)
  ELSE /\ UNCHANGED conn
       /\ Reads(IF ~conn.sse THEN seen
                ELSE IF req.route = "chat" THEN ParseFrame(ParseFrame(seen, ErrorFrame), DoneFrame)
                ELSE Bad(seen))

\* Deferred calls run from the inside out: the interaction, the deadline, the
\* slot, the request row, recovery and the metrics.  net/http sends a 200 for
\* a handler that wrote nothing.
Unwind ==
  /\ pc = "unwind"
  /\ IF handler.panicking THEN writePanicResponse
     ELSE /\ conn' = [conn EXCEPT !.sent = IF @ = 0 THEN 200 ELSE @]
          /\ Reads(IF conn.wrote THEN seen ELSE [seen EXCEPT !.phase = "reply"])
  /\ log' = [request |-> RequestRow, interaction |-> InteractionRow, metric |-> conn'.status]
  /\ handler' = [handler EXCEPT !.slot = FALSE]
  /\ pc' = "done"
  /\ UNCHANGED <<req, gone, engine, deadline, payload, tr>>

NextRequest ==
  /\ pc = "done"
  /\ req' = NoReq /\ pc' = "idle" /\ conn' = NewConn /\ seen' = NewClient("none")
  /\ gone' = FALSE /\ engine' = NewEngine /\ deadline' = NewDeadline /\ payload' = NoChunk
  /\ tr' = newAnthropicStream /\ handler' = NewHandler /\ log' = NewLog

-----------------------------------------------------------------------------

Recv ==
  /\ pc = "recv"
  /\ \/ \E line \in OllamaLines : RecvOllama(line)
     \/ \E c \in CompatChunks : RecvCompat(c)
     \/ RecvEOF
     \/ RecvFails

Handle ==
  \/ Unauthorized \/ Authorized \/ handleCountTokens \/ acquireEngine
  \/ pc = "admit" /\ \E code \in Refusals : Refuse(code)
  \/ pc = "chat" /\ \E reply \in Replies : ChatAnswers(reply)
  \/ TranslateFails \/ EngineFails
  \/ StreamChat \/ SendStart \/ Interrupted \/ Relay \/ Finish
  \/ Unwind

Next ==
  \/ \E r \in Reqs : Arrive(r)
  \/ Handle \/ Recv \/ Tick \/ fired \/ HangUp \/ Panic \/ NextRequest

\* The handler goes on, the timer goroutine runs, time passes, and a read whose
\* context is cancelled returns.  Chat is bounded by upstreamChatTimeout and
\* StreamChat by the deadline's context; a write to the client is taken to end.
Fairness ==
  /\ WF_vars(Handle) /\ WF_vars(Tick) /\ WF_vars(fired)
  /\ WF_vars(deadline.cause # "none" /\ Recv)

Spec == Init /\ [][Next]_vars /\ Fairness

-----------------------------------------------------------------------------
(* Properties.                                                             *)

Units == {"text", "name", "args"} \X (0..MaxPieces + 3)

\* The response, the stream, its deadline and the records have their types; the
\* audit never outgrows its limit and the timer never outlives its bounds.
TypeOK ==
  /\ req \in Reqs \cup {NoReq} /\ gone \in BOOLEAN
  /\ conn.sent \in {0, 200, 400, 401, 404, 413, 429, 500, 502, 503}
  /\ engine.sent \in 0..MaxPieces + 3 /\ Len(payload.pieces) <= 3
  /\ deadline.left \in 0..StreamIdle /\ deadline.life \in 0..StreamMax
  /\ handler.audit \in Seq(Units) /\ Len(handler.audit) <= AuditLimit
  /\ seen.got \in Seq(Units)
  /\ log.metric \in {0, conn.sent}

\* The request row, the metric and the status on the wire are the same, however
\* a request ends: refused, answered, abandoned, or in a panic before or after
\* the response was committed.  Only a request refused by apiAuthMiddleware, or
\* in a panic there, has no row.
StatusAgrees ==
  pc = "done" => /\ log.metric = conn.sent
                 /\ log.request.status = IF handler.logged THEN conn.sent ELSE 0

Ended == pc = "done" /\ conn.sse /\ ~gone

\* A client that stays to the end of a stream learns how it ended: it sees the
\* end of a message exactly if the engine's stream was relayed to its end, and
\* an error in every other case; the one exception is a panic on /v1/messages.
ClientIsTold ==
  Ended => /\ (seen.phase = "ended") = (engine.eof /\ ~handler.panicking)
           /\ seen.phase \in {"ended", "failed"} \/ (handler.panicking /\ req.route = "messages")

\* In whatever order text and tool calls arrive, the events form a stream of
\* blocks opened and closed one at a time under consecutive indices, each delta
\* in a block of its kind; each tool call is one block that starts with its
\* name, unless the engine goes back to an earlier call.
StreamIsWellFormed ==
  /\ seen.phase = "bad" => handler.panicking /\ req.route = "messages"
  /\ seen.nameless => engine.back

CalledTools(units) == \E i \in DOMAIN units : units[i][1] = "name"

\* A reply that calls tools is never finished for any other reason, and one the
\* engine cut short is never taken for complete, whether it is streamed or not;
\* an OpenAI-compatible reply on /v1/chat/completions is relayed as it is.
StopReasonIsRight ==
  seen.stop # "" /\ pc = "done" /\ ~(req.route = "chat" /\ req.engine = "compat")
    => /\ CalledTools(seen.got) => seen.stop \in {"tool_calls", "tool_use"}
       /\ ~CalledTools(seen.got) /\ engine.reason = "length" => seen.stop \in {"length", "max_tokens"}

\* The interaction log holds what reached the client, up to its limit: all of
\* it if the client stayed, no less than it saw if it left.  It is unmarked
\* only if the engine's reply ended or the handler panicked.
AuditIsWhatClientGot ==
  LET row == log.interaction
      kept == IF conn.sse THEN SubSeq(seen.got, 1, Min({Len(seen.got), AuditLimit})) ELSE seen.got
  IN pc = "done" /\ row # NoRecord
       => /\ IsPrefix(kept, row.text) /\ (~gone => row.text = kept)
          /\ conn.sse /\ row.mark = "" => engine.eof \/ handler.panicking
          /\ row.mark = "client disconnected" => gone

\* A read that failed because the deadline had cancelled it is put down to the
\* bound that ran out; one that failed after the client left never is; and no
\* bound is blamed that had not run out, the ceiling only when all of the
\* stream's time was used.
InterruptionIsExplained ==
  /\ deadline.cause = "max" => deadline.life = StreamMax
  /\ deadline.cause = "idle" => deadline.life < StreamMax
  /\ pc = "done" /\ handler.outcome = "stream interrupted" =>
       /\ engine.broke \in {"idle", "max"} => handler.err = engine.broke
       /\ engine.broke = "client" => handler.err = "engine"
       /\ handler.err # "engine" => handler.err = deadline.cause

\* Every request ends, with its slot released: an engine that stalls runs into
\* the idle limit, and one that dribbles into the ceiling.
EveryRequestEnds == (pc = "auth") ~> (pc = "done" /\ ~handler.slot)
=============================================================================
