--------------------------- MODULE CompletionProofs ---------------------------
(***************************************************************************)
(* Proofs about Completion for every pair of stream bounds, every audit    *)
(* limit and every length of a reply.  StatusInv follows the status from   *)
(* the handler to the wire and into the records; CauseInv follows what     *)
(* cancelled a stream from the timer to the request row; StreamInv keeps   *)
(* the engine, the translator, the client and the audit in step.           *)
(***************************************************************************)
EXTENDS Completion, RecursionFacts, SequenceTheorems, FiniteSetTheorems, TLAPS

HandlerFields == {"logged", "slot", "audited", "panicking", "audit", "outcome", "err"}
EngineFields == {"first", "done", "calls", "sent", "last", "back", "reason", "eof", "broke"}
ConnTypes == [status : Nat \ {0}, wrote : BOOLEAN, sse : BOOLEAN, sent : Nat]
Causes == {"none", "idle", "max", "client"}
DeadlineTypes == [left : 0..StreamIdle, life : 0..StreamMax, firing : BOOLEAN, cause : Causes]

LEMMA MinOfTwo ==
  ASSUME NEW a \in Int, NEW b \in Int
  PROVE  Min({a, b}) = IF a <= b THEN a ELSE b
<1>1. CASE a <= b
  <2>1. a \in {a, b} /\ \A y \in {a, b} : a <= y
    BY <1>1
  <2>2. ASSUME NEW x \in {a, b}, \A y \in {a, b} : x <= y PROVE x = a
    BY <1>1, <2>2
  <2>3. QED
    BY <1>1, <2>1, <2>2 DEF Min
<1>2. CASE ~(a <= b)
  <2>1. b \in {a, b} /\ \A y \in {a, b} : b <= y
    BY <1>2
  <2>2. ASSUME NEW x \in {a, b}, \A y \in {a, b} : x <= y PROVE x = b
    BY <1>2, <2>2
  <2>3. QED
    BY <1>2, <2>1, <2>2 DEF Min
<1>3. QED
  BY <1>1, <1>2

-----------------------------------------------------------------------------
(* What the handlers and the timer do to the parts the invariants are      *)
(* about, whichever step they take.                                        *)

LEMMA NewShapes ==
  /\ DOMAIN NewHandler = HandlerFields /\ NewHandler.outcome # "stream interrupted"
  /\ DOMAIN NewEngine = EngineFields /\ NewEngine.broke = "no"
<1>1. DOMAIN NewHandler = HandlerFields
  BY DEF NewHandler, HandlerFields
<1>2. NewHandler.outcome # "stream interrupted"
  BY DEF NewHandler
<1>3. DOMAIN NewEngine = EngineFields
  BY DEF NewEngine, EngineFields
<1>4. NewEngine.broke = "no"
  BY DEF NewEngine
<1>5. QED
  BY <1>1, <1>2, <1>3, <1>4

\* Statuses.
Codes == {200, 400, 401, 404, 413, 429, 500, 502, 503}

\* A response goes through WriteHeader, or leaves the recorder alone.
ConnMoves ==
  \/ conn' = conn
  \/ \E code \in Codes : conn' = WriteHeader(conn, code)
  \/ conn' = [WriteHeader(conn, 200) EXCEPT !.sse = TRUE]

\* A step of a request under way, before its deferred calls run.
UnderWay == ConnMoves /\ pc # "done" /\ pc' # "done" /\ DOMAIN handler' = HandlerFields

LEMMA HandleMoves ==
  ASSUME DOMAIN handler = HandlerFields, pc # "done",
         \/ \E r \in Reqs : Arrive(r)
         \/ Unauthorized \/ Authorized \/ handleCountTokens \/ acquireEngine
         \/ \E code \in Refusals : Refuse(code)
         \/ \E reply \in Replies : ChatAnswers(reply)
         \/ TranslateFails \/ EngineFails
         \/ StreamChat \/ SendStart \/ Interrupted \/ Relay \/ Finish
         \/ Tick \/ fired \/ HangUp \/ Panic
         \/ RecvEOF \/ RecvFails
         \/ \E c, done, reason : Received(c, done, reason)
  PROVE  UnderWay
<1>1. ASSUME NEW code \in Codes, jsonResponse(code), pc' = "unwind", handler' = handler
      PROVE  UnderWay
  BY <1>1 DEF jsonResponse, UnderWay, ConnMoves
<1>2. ASSUME conn' = conn, pc' # "done", DOMAIN handler' = HandlerFields PROVE UnderWay
  BY <1>2 DEF UnderWay, ConnMoves
<1>3. CASE \E r \in Reqs : Arrive(r)
  BY <1>2, <1>3 DEF Arrive
<1>4. CASE Unauthorized
  BY <1>1, <1>4 DEF Unauthorized, Codes
<1>5. CASE Authorized \/ acquireEngine \/ Panic \/ Interrupted \/ SendStart
  BY <1>2, <1>5 DEF Authorized, acquireEngine, Panic, Interrupted, SendStart, Abandon, HandlerFields
<1>6. CASE \E code \in Refusals : Refuse(code)
  <2>1. PICK code \in Refusals : Refuse(code)
    BY <1>6
  <2>2. code \in Codes
    BY DEF Refusals, Codes
  <2>3. QED
    BY <1>1, <2>1, <2>2 DEF Refuse
<1>7. CASE handleCountTokens
  BY <1>1, <1>7 DEF handleCountTokens, Codes
<1>8. CASE \E reply \in Replies : ChatAnswers(reply)
  <2>1. conn' = WriteHeader(conn, 200) /\ pc' = "unwind" /\ handler' = handler
    BY <1>8 DEF ChatAnswers
  <2>2. QED
    BY <2>1 DEF UnderWay, ConnMoves, Codes
<1>9. CASE TranslateFails
  BY <1>1, <1>9 DEF TranslateFails, Codes
<1>10. CASE EngineFails
  <2>1. CASE gone
    BY <1>2, <1>10, <2>1 DEF EngineFails
  <2>2. CASE ~gone
    <3>1. conn' = WriteHeader(conn, 502) /\ pc' = "unwind"
          /\ handler' = [handler EXCEPT !.err = "engine"]
      BY <1>10, <2>2 DEF EngineFails, jsonResponse
    <3>2. QED
      BY <3>1 DEF UnderWay, ConnMoves, Codes, HandlerFields
  <2>3. QED
    BY <2>1, <2>2
<1>11. CASE StreamChat
  <2>1. /\ conn' = [WriteHeader(conn, 200) EXCEPT !.sse = TRUE] /\ pc' # "done"
        /\ handler' = [handler EXCEPT !.audited = TRUE]
    BY <1>11 DEF StreamChat
  <2>2. QED
    BY <2>1 DEF UnderWay, ConnMoves, HandlerFields
<1>12. CASE Relay
  <2>1. conn' = conn /\ pc' # "done"
    BY <1>12 DEF Relay, Abandon
  <2>2. \/ \E v : handler' = [handler EXCEPT !.audit = v]
        \/ handler' = [handler EXCEPT !.outcome = "client disconnected"]
    BY <1>12 DEF Relay, Abandon
  <2>3. QED
    BY <1>2, <2>1, <2>2 DEF HandlerFields
<1>13. CASE Finish \/ Tick \/ fired \/ HangUp \/ RecvEOF \/ RecvFails
  BY <1>2, <1>13 DEF Finish, Tick, fired, HangUp, RecvEOF, RecvFails
<1>14. CASE \E c, done, reason : Received(c, done, reason)
  BY <1>2, <1>14 DEF Received
<1>15. QED
  BY <1>3, <1>4, <1>5, <1>6, <1>7, <1>8, <1>9, <1>10, <1>11, <1>12, <1>13, <1>14

-----------------------------------------------------------------------------
(* One status.                                                             *)

\* Until the response is committed the recorder holds net/http's default, and
\* afterwards what went out.
Recorded ==
  /\ conn.wrote => conn.sent = conn.status
  /\ ~conn.wrote => conn.status = 200 /\ conn.sent = 0

StatusInv ==
  /\ conn \in ConnTypes /\ DOMAIN handler = HandlerFields
  /\ pc # "done" => Recorded
  /\ StatusAgrees

\* Only the first WriteHeader counts.
LEMMA WriteHeaderOnce ==
  ASSUME conn \in ConnTypes, Recorded, NEW code \in Nat \ {0}
  PROVE  LET c == WriteHeader(conn, code) IN
           /\ c \in ConnTypes /\ c.wrote /\ c.sent = c.status
           /\ ~conn.wrote => c.status = code
           /\ [c EXCEPT !.sse = TRUE] \in ConnTypes
           /\ [c EXCEPT !.sse = TRUE].wrote = c.wrote
           /\ [c EXCEPT !.sse = TRUE].sent = c.sent
           /\ [c EXCEPT !.sse = TRUE].status = c.status
  BY DEF WriteHeader, ConnTypes, Recorded

LEMMA MovesRecorded ==
  ASSUME conn \in ConnTypes, Recorded, ConnMoves
  PROVE  conn' \in ConnTypes /\ Recorded'
<1>1. CASE conn' = conn
  BY <1>1 DEF Recorded
<1>2. ASSUME NEW code \in Codes, conn' = WriteHeader(conn, code)
      PROVE  conn' \in ConnTypes /\ Recorded'
  <2>1. code \in Nat \ {0}
    BY DEF Codes
  <2>2. conn' \in ConnTypes /\ conn'.wrote /\ conn'.sent = conn'.status
    BY <1>2, <2>1, WriteHeaderOnce
  <2>3. QED
    BY <2>2 DEF Recorded
<1>3. CASE conn' = [WriteHeader(conn, 200) EXCEPT !.sse = TRUE]
  <2>1. conn' \in ConnTypes /\ conn'.wrote /\ conn'.sent = conn'.status
    BY <1>3, WriteHeaderOnce
  <2>2. QED
    BY <2>1 DEF Recorded
<1>4. QED
  BY <1>1, <1>2, <1>3 DEF ConnMoves

\* The deferred calls see one status, however the handler ended.
LEMMA UnwindStatus ==
  ASSUME StatusInv, Unwind PROVE StatusInv'
<1>1. /\ pc = "unwind" /\ pc' = "done" /\ conn \in ConnTypes /\ Recorded
      /\ handler' = [handler EXCEPT !.slot = FALSE]
      /\ log'.metric = conn'.status /\ log'.request = RequestRow
  BY DEF Unwind, StatusInv
<1>2. handler'.logged = handler.logged /\ DOMAIN handler' = HandlerFields
  BY <1>1 DEF StatusInv, HandlerFields
<1>3. /\ conn' \in ConnTypes /\ conn'.sent = conn'.status
      /\ conn'.status = IF handler.panicking THEN panicStatus(conn) ELSE conn.status
  <2>1. CASE handler.panicking /\ ~conn.wrote
    <3>1. PICK code \in Nat \ {0} : code = 500
      OBVIOUS
    <3>2. conn' = WriteHeader(conn, code)
      BY <2>1, <3>1 DEF Unwind, writePanicResponse, jsonResponse
    <3>3. conn' \in ConnTypes /\ conn'.sent = conn'.status /\ conn'.status = code
      BY <1>1, <2>1, <3>2, WriteHeaderOnce
    <3>4. QED
      BY <2>1, <3>1, <3>3 DEF panicStatus
  <2>2. CASE handler.panicking /\ conn.wrote
    <3>1. conn' = conn
      BY <2>2 DEF Unwind, writePanicResponse
    <3>2. QED
      BY <1>1, <2>2, <3>1 DEF panicStatus, Recorded
  <2>3. CASE ~handler.panicking
    <3>1. conn' = [conn EXCEPT !.sent = IF @ = 0 THEN 200 ELSE @]
      BY <2>3 DEF Unwind
    <3>2. QED
      BY <1>1, <2>3, <3>1 DEF Recorded, ConnTypes
  <2>4. QED
    BY <2>1, <2>2, <2>3
<1>4. log'.request.status = IF handler.logged THEN conn'.sent ELSE 0
  <2>1. CASE handler.logged
    <3>1. RequestRow.status = IF handler.panicking THEN panicStatus(conn) ELSE conn.status
      BY <2>1 DEF RequestRow
    <3>2. QED
      BY <1>1, <1>3, <2>1, <3>1
  <2>2. CASE ~handler.logged
    <3>1. RequestRow = NoRow
      BY <2>2 DEF RequestRow
    <3>2. NoRow.status = 0
      BY DEF NoRow
    <3>3. QED
      BY <1>1, <2>2, <3>1, <3>2
  <2>3. QED
    BY <2>1, <2>2
<1>5. QED
  BY <1>1, <1>2, <1>3, <1>4 DEF StatusInv, StatusAgrees

LEMMA StatusInit ==
  ASSUME conn = NewConn, handler = NewHandler, pc = "idle" PROVE StatusInv
<1>1. conn \in ConnTypes /\ Recorded
  BY DEF NewConn, ConnTypes, Recorded
<1>2. QED
  BY <1>1, NewShapes DEF StatusInv, StatusAgrees

LEMMA StatusStep == StatusInv /\ [Next]_vars => StatusInv'
<1> SUFFICES ASSUME StatusInv, [Next]_vars PROVE StatusInv'
  OBVIOUS
<1>1. CASE UNCHANGED vars
  BY <1>1 DEF vars, StatusInv, StatusAgrees, Recorded
<1>2. CASE NextRequest
  <2>1. conn' = NewConn /\ handler' = NewHandler /\ pc' = "idle"
    BY <1>2 DEF NextRequest
  <2>2. conn' \in ConnTypes /\ Recorded'
    BY <2>1 DEF NewConn, ConnTypes, Recorded
  <2>3. QED
    BY <2>1, <2>2, NewShapes DEF StatusInv, StatusAgrees
<1>3. CASE Unwind
  BY <1>3, UnwindStatus
<1>4. CASE UnderWay
  BY <1>4, MovesRecorded DEF UnderWay, StatusInv, StatusAgrees
<1>5. CASE \E r \in Reqs : Arrive(r)
  BY <1>4, <1>5, HandleMoves DEF StatusInv, Arrive
<1>6. CASE Handle
  <2>1. pc # "done"
    BY <1>6 DEF Handle, Unauthorized, Authorized, handleCountTokens, acquireEngine, Refuse,
         ChatAnswers, TranslateFails, EngineFails, StreamChat, SendStart, Interrupted, Relay,
         Finish, Unwind
  <2>2. QED
    BY <1>3, <1>4, <1>6, <2>1, HandleMoves DEF StatusInv, Handle
<1>7. CASE Recv
  <2>1. pc # "done" /\ (RecvEOF \/ RecvFails \/ \E c, done, reason : Received(c, done, reason))
    BY <1>7 DEF Recv, RecvOllama, RecvCompat
  <2>2. QED
    BY <1>4, <2>1, HandleMoves DEF StatusInv
<1>8. CASE Tick \/ fired \/ HangUp \/ Panic
  <2>1. pc # "done"
    BY <1>8 DEF Tick, fired, HangUp, Panic, Armed, Streaming
  <2>2. QED
    BY <1>4, <1>8, <2>1, HandleMoves DEF StatusInv
<1>9. QED
  BY <1>1, <1>2, <1>5, <1>6, <1>7, <1>8 DEF Next

LEMMA StatusInvariant == Spec => []StatusInv
<1>1. Init => StatusInv
  BY StatusInit DEF Init
<1>2. QED
  BY <1>1, StatusStep, PTL DEF Spec

\* The request row, the metric and the wire agree on the status of every
\* request, however it ends (metrics.go statusRecorder, main.go
\* apiLoggingMiddleware and recoveryMiddleware).
THEOREM OneStatus == Spec => []StatusAgrees
<1>1. StatusInv => StatusAgrees
  BY DEF StatusInv
<1>2. QED
  BY <1>1, StatusInvariant, PTL

-----------------------------------------------------------------------------
(* One cause.                                                              *)

\* A bound that cancelled the stream had run out.
Bounded(d) ==
  /\ d \in DeadlineTypes
  /\ d.cause = "max" => d.life = StreamMax
  /\ d.cause = "idle" => d.life < StreamMax

\* The request row names what a failed read was cancelled by.
Blamed ==
  /\ engine.broke \in {"idle", "max"} => handler.err = engine.broke
  /\ engine.broke = "client" => handler.err = "engine"
  /\ handler.err # "engine" => handler.err = deadline.cause /\ handler.err \in {"idle", "max"}

CauseInv ==
  /\ DOMAIN handler = HandlerFields /\ DOMAIN engine = EngineFields
  /\ Bounded(deadline)
  /\ engine.broke \in {"idle", "max", "client"} => deadline.cause = engine.broke
  /\ handler.outcome = "stream interrupted" => pc \in {"finish", "unwind", "done"} /\ Blamed

\* The first cause sticks.
Sticks == Bounded(deadline') /\ (deadline.cause # "none" => deadline'.cause = deadline.cause)

LEMMA UntilTyped ==
  ASSUME NEW life \in 0..StreamMax
  PROVE  Min({StreamIdle, StreamMax - life}) \in 0..StreamIdle
<1>1. StreamIdle \in Int /\ StreamMax - life \in Int /\ StreamMax - life >= 0 /\ StreamIdle >= 0
  BY CompletionAssumption
<1>2. QED
  BY <1>1, MinOfTwo

LEMMA TickTyped ==
  ASSUME NEW life \in 0..StreamMax
  PROVE  Min({StreamMax, life + 1}) \in 0..StreamMax
<1>1. StreamMax \in Int /\ life + 1 \in Int /\ life + 1 >= 0 /\ StreamMax >= 0
  BY CompletionAssumption
<1>2. QED
  BY <1>1, MinOfTwo

LEMMA DeadlineSticks ==
  ASSUME CauseInv,
         \/ Tick \/ fired \/ HangUp
         \/ deadline' = deadline
         \/ deadline' = touch(deadline)
  PROVE  Sticks
<1>1. /\ deadline \in DeadlineTypes /\ deadline.life \in 0..StreamMax
      /\ deadline.left \in 0..StreamIdle /\ deadline.firing \in BOOLEAN /\ deadline.cause \in Causes
  BY DEF CauseInv, Bounded, DeadlineTypes
<1>2. CASE deadline' = deadline
  BY <1>2 DEF Sticks, CauseInv, Bounded
<1>3. CASE Tick
  <2>1. PICK life \in 0..StreamMax : life = Min({StreamMax, deadline.life + 1})
    BY <1>1, TickTyped
  <2>2. PICK firing \in BOOLEAN : firing = (deadline.left = 1)
    OBVIOUS
  <2>3. deadline.cause = "none" /\ deadline.left > 0
        /\ deadline' = [deadline EXCEPT !.left = deadline.left - 1, !.life = life, !.firing = firing]
    BY <1>3, <2>1, <2>2 DEF Tick
  <2>4. deadline.left - 1 \in 0..StreamIdle
    BY <1>1, <2>3, CompletionAssumption
  <2>5. deadline' \in DeadlineTypes /\ deadline'.cause = "none"
    BY <1>1, <2>3, <2>4 DEF DeadlineTypes
  <2>6. QED
    BY <2>3, <2>5 DEF Sticks, Bounded
<1>4. CASE fired
  <2>1. PICK c \in Causes : c = cancelCause(deadline)
    BY <1>1 DEF cancelCause, Causes
  <2>2. deadline' = [deadline EXCEPT !.firing = FALSE, !.cause = c]
    BY <1>4, <2>1 DEF fired
  <2>3. deadline' \in DeadlineTypes /\ deadline'.cause = c /\ deadline'.life = deadline.life
    BY <1>1, <2>2 DEF DeadlineTypes
  <2>4. QED
    <3>1. CASE deadline.cause # "none"
      BY <2>1, <2>3, <3>1 DEF Sticks, Bounded, CauseInv, cancelCause
    <3>2. CASE deadline.cause = "none" /\ deadline.life >= StreamMax
      <4>1. c = "max" /\ deadline.life = StreamMax
        BY <1>1, <2>1, <3>2, CompletionAssumption DEF cancelCause
      <4>2. QED
        BY <2>3, <3>2, <4>1 DEF Sticks, Bounded
    <3>3. CASE deadline.cause = "none" /\ ~(deadline.life >= StreamMax)
      <4>1. c = "idle" /\ deadline.life < StreamMax
        BY <1>1, <2>1, <3>3, CompletionAssumption DEF cancelCause
      <4>2. QED
        BY <2>3, <3>3, <4>1 DEF Sticks, Bounded
    <3>4. QED
      BY <3>1, <3>2, <3>3
<1>5. CASE HangUp
  <2>1. PICK c \in Causes : c = IF deadline.cause = "none" THEN "client" ELSE deadline.cause
    BY <1>1 DEF Causes
  <2>2. deadline' = [deadline EXCEPT !.cause = c]
    BY <1>5, <2>1 DEF HangUp
  <2>3. deadline' \in DeadlineTypes /\ deadline'.cause = c /\ deadline'.life = deadline.life
    BY <1>1, <2>2 DEF DeadlineTypes
  <2>4. QED
    BY <2>1, <2>3 DEF Sticks, Bounded, CauseInv
<1>6. CASE deadline' = touch(deadline)
  <2>1. PICK left \in 0..StreamIdle : left = until(deadline)
    BY <1>1, UntilTyped DEF until
  <2>2. PICK firing \in BOOLEAN : firing = (deadline.firing \/ left = 0)
    OBVIOUS
  <2>3. deadline' = [deadline EXCEPT !.left = left, !.firing = firing]
    BY <1>6, <2>1, <2>2 DEF touch
  <2>4. deadline' \in DeadlineTypes /\ deadline'.cause = deadline.cause
        /\ deadline'.life = deadline.life
    BY <1>1, <2>3 DEF DeadlineTypes
  <2>5. QED
    BY <2>4 DEF Sticks, Bounded, CauseInv
<1>7. QED
  BY <1>2, <1>3, <1>4, <1>5, <1>6

\* A step that neither ends a read nor blames anything.
LEMMA CauseKept ==
  ASSUME CauseInv, Sticks,
         DOMAIN handler' = HandlerFields, DOMAIN engine' = EngineFields,
         engine'.broke = engine.broke,
         handler'.outcome = "stream interrupted" =>
           /\ handler.outcome = "stream interrupted" /\ handler'.err = handler.err
           /\ pc' \in {"finish", "unwind", "done"}
  PROVE  CauseInv'
<1>1. engine'.broke \in {"idle", "max", "client"} => deadline'.cause = engine'.broke
  BY DEF CauseInv, Sticks
<1>2. handler'.outcome = "stream interrupted" => Blamed'
  <2> SUFFICES ASSUME handler'.outcome = "stream interrupted" PROVE Blamed'
    OBVIOUS
  <2>1. Blamed /\ handler'.err = handler.err
    BY DEF CauseInv
  <2>2. handler.err # "engine" => deadline'.cause = handler.err
    BY <2>1 DEF Blamed, Sticks
  <2>3. QED
    BY <2>1, <2>2 DEF Blamed, Sticks, CauseInv
<1>3. QED
  BY <1>1, <1>2 DEF CauseInv, Sticks

LEMMA AfterShape ==
  ASSUME DOMAIN engine = EngineFields, NEW c, NEW done, NEW reason
  PROVE  DOMAIN After(c, done, reason) = EngineFields /\ After(c, done, reason).broke = engine.broke
  BY DEF After, EngineFields

\* Steps of the handler that leave the timer alone.
LEMMA HandlerCause ==
  ASSUME CauseInv, deadline' = deadline,
         \/ \E r \in Reqs : Arrive(r)
         \/ Unauthorized \/ Authorized \/ handleCountTokens \/ acquireEngine
         \/ \E code \in Refusals : Refuse(code)
         \/ TranslateFails \/ EngineFails
         \/ StreamChat \/ SendStart \/ Relay \/ Finish \/ Panic \/ Unwind
  PROVE  CauseInv'
<1>1. Sticks
  BY DeadlineSticks
<1>2. engine' = engine
  BY DEF Arrive, Unauthorized, Authorized, handleCountTokens, acquireEngine, Refuse,
     TranslateFails, EngineFails, StreamChat, SendStart, Relay, Finish, Panic, Unwind
<1>3. ASSUME handler' = handler,
             pc \in {"idle", "auth", "admit", "chat", "open"} \/ pc' = "unwind"
      PROVE  CauseInv'
  BY <1>1, <1>2, <1>3, CauseKept DEF CauseInv
<1>4. ASSUME DOMAIN handler' = HandlerFields,
             handler'.outcome = handler.outcome,
             \/ pc \notin {"finish", "unwind", "done"}
             \/ handler'.err = handler.err /\ pc' \in {"unwind", "done"}
      PROVE  CauseInv'
  BY <1>1, <1>2, <1>4, CauseKept DEF CauseInv
<1>5. ASSUME Abandon("client disconnected") PROVE CauseInv'
  <2>1. DOMAIN handler' = HandlerFields /\ handler'.outcome = "client disconnected"
    BY <1>5 DEF Abandon, CauseInv, HandlerFields
  <2>2. QED
    BY <1>1, <1>2, <2>1, CauseKept DEF CauseInv
<1>6. CASE \E r \in Reqs : Arrive(r)
  BY <1>3, <1>6 DEF Arrive
<1>7. CASE Unauthorized \/ handleCountTokens \/ (\E code \in Refusals : Refuse(code)) \/ TranslateFails
           \/ Finish
  BY <1>3, <1>7 DEF Unauthorized, handleCountTokens, Refuse, TranslateFails, Finish
<1>8. CASE Authorized \/ acquireEngine \/ StreamChat \/ Panic \/ Unwind
  <2>1. DOMAIN handler' = HandlerFields /\ handler'.outcome = handler.outcome
        /\ handler'.err = handler.err
    BY <1>8 DEF Authorized, acquireEngine, StreamChat, Panic, Unwind, CauseInv, HandlerFields
  <2>2. \/ pc \notin {"finish", "unwind", "done"}
        \/ pc' \in {"unwind", "done"}
    BY <1>8 DEF Authorized, acquireEngine, StreamChat, Panic, Unwind
  <2>3. QED
    BY <1>4, <2>1, <2>2
<1>9. CASE EngineFails
  <2>1. CASE gone
    BY <1>3, <1>9, <2>1 DEF EngineFails
  <2>2. CASE ~gone
    <3>1. pc \in {"chat", "open"} /\ handler' = [handler EXCEPT !.err = "engine"]
      BY <1>9, <2>2 DEF EngineFails
    <3>2. DOMAIN handler' = HandlerFields /\ handler'.outcome = handler.outcome
      BY <3>1 DEF CauseInv, HandlerFields
    <3>3. QED
      BY <1>4, <3>1, <3>2
  <2>3. QED
    BY <2>1, <2>2
<1>10. CASE SendStart
  <2>1. CASE Abandon("client disconnected")
    BY <1>5, <2>1
  <2>2. CASE handler' = handler /\ pc = "start"
    BY <1>4, <2>2 DEF CauseInv
  <2>3. QED
    BY <1>10, <2>1, <2>2 DEF SendStart
<1>11. CASE Relay
  <2>1. CASE Abandon("client disconnected")
    BY <1>5, <2>1
  <2>2. ASSUME NEW v, handler' = [handler EXCEPT !.audit = v], pc = "write" PROVE CauseInv'
    <3>1. DOMAIN handler' = HandlerFields /\ handler'.outcome = handler.outcome
      BY <2>2 DEF CauseInv, HandlerFields
    <3>2. QED
      BY <1>4, <2>2, <3>1
  <2>3. QED
    BY <1>11, <2>1, <2>2 DEF Relay
<1>12. QED
  BY <1>6, <1>7, <1>8, <1>9, <1>10, <1>11

\* A read fails with the cause the stream has then; the handler asks for the
\* cause later, when it may have become another only if there was none.
LEMMA InterruptedCause ==
  ASSUME CauseInv, Interrupted PROVE CauseInv'
<1>1. /\ deadline' = deadline /\ engine' = engine /\ pc' \in {"finish", "unwind"}
      /\ handler' = [handler EXCEPT !.outcome = "stream interrupted", !.err = cause(deadline)]
  BY DEF Interrupted
<1>2. DOMAIN handler' = HandlerFields /\ handler'.err = cause(deadline)
  BY <1>1 DEF CauseInv, HandlerFields
<1>3. Blamed'
  BY <1>1, <1>2 DEF CauseInv, Blamed, cause
<1>4. QED
  BY <1>1, <1>2, <1>3 DEF CauseInv

LEMMA RecvCause ==
  ASSUME CauseInv,
         \/ RecvEOF \/ RecvFails
         \/ \E c, done, reason : Received(c, done, reason)
         \/ \E reply \in Replies : ChatAnswers(reply)
  PROVE  CauseInv'
<1>1. CASE RecvFails
  <2>1. /\ deadline' = deadline /\ handler' = handler /\ pc = "recv"
        /\ engine' = [engine EXCEPT !.broke = deadline.cause]
    BY <1>1 DEF RecvFails
  <2>2. DOMAIN engine' = EngineFields /\ engine'.broke = deadline.cause
    BY <2>1 DEF CauseInv, EngineFields
  <2>3. handler'.outcome # "stream interrupted"
    BY <2>1 DEF CauseInv
  <2>4. QED
    BY <2>1, <2>2, <2>3 DEF CauseInv
<1>2. CASE RecvEOF
  <2>1. /\ deadline' = deadline /\ handler' = handler /\ pc = "recv"
        /\ engine' = [engine EXCEPT !.eof = TRUE]
    BY <1>2 DEF RecvEOF
  <2>2. DOMAIN engine' = EngineFields /\ engine'.broke = engine.broke
    BY <2>1 DEF CauseInv, EngineFields
  <2>3. QED
    BY <2>1, <2>2, DeadlineSticks, CauseKept DEF CauseInv
<1>3. ASSUME NEW c, NEW done, NEW reason, Received(c, done, reason) PROVE CauseInv'
  <2>1. /\ deadline' = touch(deadline) /\ handler' = handler /\ pc = "recv"
        /\ engine' = After(c, done, reason)
    BY <1>3 DEF Received
  <2>2. DOMAIN engine' = EngineFields /\ engine'.broke = engine.broke
    BY <2>1, AfterShape DEF CauseInv
  <2>3. QED
    BY <2>1, <2>2, DeadlineSticks, CauseKept DEF CauseInv
<1>4. ASSUME NEW reply \in Replies, ChatAnswers(reply) PROVE CauseInv'
  <2>1. /\ deadline' = deadline /\ handler' = handler /\ pc = "chat"
        /\ engine' = [After(reply, TRUE, reply.finish) EXCEPT !.eof = TRUE]
    BY <1>4 DEF ChatAnswers
  <2>2. PICK reason, done : done = TRUE /\ reason = reply.finish
    OBVIOUS
  <2> DEFINE e == After(reply, done, reason)
  <2>3. DOMAIN e = EngineFields /\ e.broke = engine.broke
    BY AfterShape DEF CauseInv
  <2>4. engine' = [e EXCEPT !.eof = TRUE]
    BY <2>1, <2>2
  <2> HIDE DEF e
  <2>5. DOMAIN engine' = EngineFields /\ engine'.broke = engine.broke
    BY <2>3, <2>4 DEF EngineFields
  <2>6. QED
    BY <2>1, <2>5, DeadlineSticks, CauseKept DEF CauseInv
<1>5. QED
  BY <1>1, <1>2, <1>3, <1>4

LEMMA TimerCause ==
  ASSUME CauseInv, Tick \/ fired \/ HangUp PROVE CauseInv'
<1>1. handler' = handler /\ engine' = engine /\ pc' = pc
  BY DEF Tick, fired, HangUp
<1>2. QED
  BY <1>1, DeadlineSticks, CauseKept DEF CauseInv

LEMMA CauseInit == Init => CauseInv
<1> SUFFICES ASSUME Init PROVE CauseInv
  OBVIOUS
<1>1. handler = NewHandler /\ engine = NewEngine /\ deadline = NewDeadline
  BY DEF Init
<1>2. Bounded(NewDeadline)
  <2>1. Min({StreamIdle, StreamMax}) \in 0..StreamIdle /\ 0 \in 0..StreamMax
    BY CompletionAssumption, MinOfTwo
  <2>2. QED
    BY <2>1 DEF NewDeadline, Bounded, DeadlineTypes, Causes
<1>3. QED
  BY <1>1, <1>2, NewShapes DEF CauseInv

LEMMA CauseStep == CauseInv /\ [Next]_vars => CauseInv'
<1> SUFFICES ASSUME CauseInv, [Next]_vars PROVE CauseInv'
  OBVIOUS
<1>1. CASE UNCHANGED vars
  BY <1>1 DEF vars, CauseInv, Bounded, Blamed
<1>2. CASE NextRequest
  <2>1. handler' = NewHandler /\ engine' = NewEngine /\ deadline' = NewDeadline
    BY <1>2 DEF NextRequest
  <2>2. Bounded(NewDeadline)
    <3>1. Min({StreamIdle, StreamMax}) \in 0..StreamIdle /\ 0 \in 0..StreamMax
      BY CompletionAssumption, MinOfTwo
    <3>2. QED
      BY <3>1 DEF NewDeadline, Bounded, DeadlineTypes, Causes
  <2>3. QED
    BY <2>1, <2>2, NewShapes DEF CauseInv
<1>3. CASE \E r \in Reqs : Arrive(r)
  BY <1>3, HandlerCause DEF Arrive
<1>4. CASE Interrupted
  BY <1>4, InterruptedCause
<1>5. CASE \E reply \in Replies : ChatAnswers(reply)
  BY <1>5, RecvCause
<1>6. CASE Handle
  <2>1. \/ Interrupted \/ (\E reply \in Replies : ChatAnswers(reply))
        \/ /\ deadline' = deadline
           /\ \/ Unauthorized \/ Authorized \/ handleCountTokens \/ acquireEngine
              \/ \E code \in Refusals : Refuse(code)
              \/ TranslateFails \/ EngineFails
              \/ StreamChat \/ SendStart \/ Relay \/ Finish \/ Unwind
    BY <1>6 DEF Handle, Unauthorized, Authorized, handleCountTokens, acquireEngine, Refuse,
         TranslateFails, EngineFails, StreamChat, SendStart, Relay, Finish, Unwind
  <2>2. QED
    BY <1>4, <1>5, <2>1, HandlerCause
<1>7. CASE Recv
  <2>1. RecvEOF \/ RecvFails \/ \E c, done, reason : Received(c, done, reason)
    BY <1>7 DEF Recv, RecvOllama, RecvCompat
  <2>2. QED
    BY <2>1, RecvCause
<1>8. CASE Tick \/ fired \/ HangUp
  BY <1>8, TimerCause
<1>9. CASE Panic
  BY <1>9, HandlerCause DEF Panic
<1>10. QED
  BY <1>1, <1>2, <1>3, <1>6, <1>7, <1>8, <1>9 DEF Next

LEMMA CauseInvariant == Spec => []CauseInv
  BY CauseInit, CauseStep, PTL DEF Spec

\* An interrupted stream is put down to the bound that ran out, however the
\* timer, the client and the failing read race (engine.go streamDeadline.fired
\* and cause, api_handlers.go).
THEOREM CauseIsRight == Spec => []InterruptionIsExplained
<1>1. CauseInv => InterruptionIsExplained
  BY DEF CauseInv, Bounded, Blamed, InterruptionIsExplained
<1>2. QED
  BY <1>1, CauseInvariant, PTL

-----------------------------------------------------------------------------
(* What a client of a stream has, in step with the engine.                 *)

Phases == {"", "none", "reply", "failed", "open", "error", "ended", "waiting", "between", "text",
           "tool", "ending", "bad"}
Finishes == {"", "tool_calls"} \cup Reasons
Stops == Finishes \cup {"tool_use", "max_tokens", "end_turn"}
Numbers == 0..MaxPieces + 3

TextPieces == [kind : {"text"}, index : {0}, name : {FALSE}, args : {FALSE}, n : Numbers]
ToolPieces == [kind : {"tool"}, index : Nat, name : BOOLEAN, args : BOOLEAN, n : Numbers]
PieceTypes == TextPieces \cup ToolPieces
ChunkTypes == [pieces : Seq(PieceTypes), finish : Finishes]
ClientTypes == [phase : Phases, next : Int, got : Seq(Units), stop : Stops, nameless : BOOLEAN]
TranslatorTypes == [open : {"none", "text", "tool"}, blockIndex : Int, toolIndex : Nat,
                    sawTool : BOOLEAN, finish : Finishes]
EngineTypes == [first : BOOLEAN, done : BOOLEAN, calls : Nat, sent : Numbers, last : Int,
                back : BOOLEAN, reason : Finishes, eof : BOOLEAN, broke : Causes \cup {"no"}]
HandlerTypes == [logged : BOOLEAN, slot : BOOLEAN, audited : BOOLEAN, panicking : BOOLEAN,
                 audit : Seq(Units), outcome : {"", "client disconnected", "stream interrupted"},
                 err : {"", "engine", "idle", "max"}]
RecordTypes == [text : Seq(Units), mark : {"none", "", "client disconnected", "stream interrupted"}]

Before == {"idle", "auth", "admit", "chat", "open"}
Relaying == {"recv", "write", "interrupted"}
Completions == {"chat", "messages"}

StreamTypes ==
  /\ req \in Reqs \cup {NoReq} /\ gone \in BOOLEAN
  /\ pc \in Before \cup Relaying \cup {"start", "finish", "unwind", "done"}
  /\ seen \in ClientTypes /\ engine \in EngineTypes /\ tr \in TranslatorTypes
  /\ payload \in ChunkTypes /\ Len(payload.pieces) <= 3
  /\ handler \in HandlerTypes
  /\ DOMAIN log = {"request", "interaction", "metric"} /\ log.interaction \in RecordTypes

\* Nothing has been sent or asked for before the engine is.
Untouched ==
  pc \in Before =>
    /\ seen = NewClient("none") /\ engine = NewEngine /\ payload = NoChunk
    /\ tr = newAnthropicStream /\ handler.audit = <<>> /\ handler.outcome = ""
    /\ ~handler.panicking /\ ~conn.sse /\ log.interaction = NoRecord

\* Where the handler of a stream is.
Progress ==
  /\ pc # "idle" => req \in Reqs
  /\ (handler.audited <=> conn.sse) /\ (conn.sse => conn.wrote)
  /\ conn.sse \/ pc \in {"chat", "open"} => req.route \in Completions
  /\ pc \in Relaying \cup {"start", "finish"} => conn.sse /\ ~handler.panicking
  /\ pc \in Relaying \cup {"start"} => ~engine.eof /\ handler.outcome = ""
  /\ pc = "start" => /\ req.route = "messages" /\ tr = newAnthropicStream
                     /\ engine = NewEngine /\ payload = NoChunk
  /\ pc \in {"finish", "unwind", "done"} /\ conn.sse /\ handler.outcome = ""
       => engine.eof \/ handler.panicking
  /\ handler.outcome = "client disconnected" => gone

\* The client is where the translator is.
Synced(k, s) ==
  IF s.open = "none" THEN k.phase = "between" /\ k.next = s.blockIndex + 1
  ELSE k.phase = s.open /\ k.next = s.blockIndex

Told ==
  /\ pc = "start" => seen.phase = "waiting" /\ seen.next = 0 /\ seen.got = <<>>
  /\ pc \in Relaying \/ (pc = "finish" /\ engine.eof) =>
       IF req.route = "chat" THEN seen.phase = "open" ELSE Synced(seen, tr)
  /\ pc = "finish" /\ ~engine.eof => req.route = "chat" /\ seen.phase = "error"
  /\ pc = "unwind" /\ conn.sse =>
       IF handler.panicking THEN req.route = "chat" => seen.phase \in {"open", "error"}
       ELSE seen.phase = IF engine.eof THEN "ended" ELSE "failed"

\* What the audit keeps of some units.
Trunc(units) == SubSeq(units, 1, Min({Len(units), AuditLimit}))

Audited ==
  /\ Len(handler.audit) <= AuditLimit
  /\ IF conn.sse THEN /\ IsPrefix(Trunc(seen.got), handler.audit)
                      /\ ~gone => handler.audit = Trunc(seen.got)
                      /\ pc = "done" => log.interaction = [text |-> handler.audit, mark |-> handler.outcome]
     ELSE log.interaction # NoRecord =>
            /\ log.interaction.mark = ""
            /\ log.interaction.text = seen.got \/ (gone /\ seen.got = <<>>)

\* The translator knows the piece sent last, and a name starts a new call.
Follows(s, last) == last # -1 => s.open = "tool" /\ s.toolIndex = last
Fresh(s, pieces) ==
  \A i \in DOMAIN pieces : pieces[i].name =>
    /\ s.open = "tool" => s.toolIndex # pieces[i].index
    /\ \A j \in 1..(i - 1) : pieces[j].kind = "tool" => pieces[j].index # pieces[i].index
HasTool(pieces) == \E i \in DOMAIN pieces : pieces[i].kind = "tool"
LastFinish(old, new) == IF new = "" THEN old ELSE new

\* On /v1/messages, the translator between two chunks and in front of one.
Translating ==
  req.route = "messages" =>
    /\ tr.open = "tool" => tr.sawTool /\ tr.toolIndex < engine.calls
    /\ pc \in {"start", "recv", "interrupted", "finish"} =>
         /\ tr.sawTool <=> engine.calls > 0
         /\ engine.calls = 0 => tr.finish = engine.reason
         /\ Follows(tr, engine.last)
    /\ pc = "write" =>
         /\ Fresh(tr, payload.pieces)
         /\ \A i \in DOMAIN payload.pieces :
              payload.pieces[i].kind = "tool" => payload.pieces[i].index < engine.calls
         /\ engine.calls > 0 <=> tr.sawTool \/ HasTool(payload.pieces)
         /\ engine.calls = 0 => LastFinish(tr.finish, payload.finish) = engine.reason
         /\ IF payload.pieces = <<>> THEN Follows(tr, engine.last)
            ELSE engine.last = CallOf(Last(payload.pieces))
         /\ \A i \in DOMAIN payload.pieces :
              LET p == payload.pieces[i]
              IN p.kind = "tool" /\ ~p.name => i = 1 /\ (engine.back \/ Belongs(tr, p))

\* The client that is still there has seen the calls.
Called ==
  ~gone =>
    /\ pc \in {"start", "recv", "interrupted", "finish"} =>
         (CalledTools(seen.got) <=> engine.calls > 0)
    /\ pc = "write" =>
         (engine.calls > 0 <=> CalledTools(seen.got) \/ CalledTools(AuditText(payload.pieces)))

RelayedAsIs == req.route = "chat" /\ req.engine = "compat"
StopIsRight ==
  /\ CalledTools(seen.got) => seen.stop \in {"tool_calls", "tool_use"}
  /\ ~CalledTools(seen.got) /\ engine.reason = "length" => seen.stop \in {"length", "max_tokens"}

\* Why a reply ended is said once, when the engine has said it.
Stopped ==
  /\ seen.stop # "" /\ ~RelayedAsIs => StopIsRight
  /\ seen.stop # "" /\ pc \notin {"unwind", "done"} =>
       /\ req.route = "chat"
       /\ req.engine = "ollama" => engine.done /\ pc \in {"recv", "finish"}
  /\ pc = "write" /\ req.engine = "ollama" /\ payload.finish # "" =>
       /\ engine.done
       /\ payload.finish = IF engine.calls > 0 THEN "tool_calls" ELSE engine.reason

WellFormed ==
  /\ seen.phase = "bad" => pc = "done" /\ handler.panicking /\ req.route = "messages"
  /\ seen.nameless => engine.back

StreamInv ==
  /\ StreamTypes /\ Untouched /\ Progress /\ (~gone => Told) /\ Audited /\ Translating
  /\ Called /\ Stopped /\ WellFormed /\ ClientIsTold

-----------------------------------------------------------------------------
(* Sequences of pieces and of events, read one by one.                     *)

LEMMA PieceTyped ==
  ASSUME NEW p \in PieceTypes
  PROVE  /\ NameUnit(p) \in Seq(Units) /\ DeltaUnit(p) \in Seq(Units)
         /\ p.kind \in {"text", "tool"} /\ p.index \in Nat /\ p.name \in BOOLEAN
         /\ p.kind = "text" => ~p.name
         /\ DeltaUnit(p) # <<>> => (p.kind = "text" <=> DeltaUnit(p)[1][1] = "text")
         /\ CalledTools(NameUnit(p) \o DeltaUnit(p)) <=> p.name
<1>1. p.kind \in {"text", "tool"} /\ p.index \in Nat /\ p.name \in BOOLEAN /\ p.n \in Numbers
      /\ (p.kind = "text" => ~p.name) /\ p.args \in BOOLEAN
  <2>1. CASE p \in TextPieces
    <3>1. p.kind = "text" /\ p.index = 0 /\ p.name = FALSE /\ p.args = FALSE /\ p.n \in Numbers
      BY <2>1 DEF TextPieces
    <3>2. p.index \in Nat /\ p.kind \in {"text", "tool"}
      BY <3>1
    <3>3. p.name \in BOOLEAN /\ p.args \in BOOLEAN /\ ~p.name
      BY <3>1, Zenon
    <3>4. QED
      BY <3>1, <3>2, <3>3
  <2>2. CASE p \in ToolPieces
    <3>1. /\ p.kind = "tool" /\ p.index \in Nat /\ p.name \in BOOLEAN /\ p.args \in BOOLEAN
          /\ p.n \in Numbers
      BY <2>2 DEF ToolPieces
    <3>2. QED
      BY <3>1
  <2>3. QED
    BY <2>1, <2>2 DEF PieceTypes
<1>2. <<"text", p.n>> \in Units /\ <<"name", p.n>> \in Units /\ <<"args", p.n>> \in Units
  BY <1>1 DEF Units, Numbers
<1>3. NameUnit(p) \in Seq(Units) /\ DeltaUnit(p) \in Seq(Units)
  BY <1>1, <1>2 DEF NameUnit, DeltaUnit
<1>4. DeltaUnit(p) # <<>> => (p.kind = "text" <=> DeltaUnit(p)[1][1] = "text")
  BY <1>1 DEF DeltaUnit
<1>5. CalledTools(NameUnit(p) \o DeltaUnit(p)) <=> p.name
  <2>1. DeltaUnit(p) = <<>> \/ DeltaUnit(p) = <<<<"text", p.n>>>> \/ DeltaUnit(p) = <<<<"args", p.n>>>>
    BY <1>1 DEF DeltaUnit
  <2>2. CASE p.name
    <3>1. NameUnit(p) = <<<<"name", p.n>>>>
      BY <2>2 DEF NameUnit
    <3>2. 1 \in DOMAIN (NameUnit(p) \o DeltaUnit(p))
          /\ (NameUnit(p) \o DeltaUnit(p))[1] = <<"name", p.n>>
      BY <1>3, <2>1, <3>1
    <3>3. QED
      BY <2>2, <3>2 DEF CalledTools
  <2>3. CASE ~p.name
    <3>1. NameUnit(p) = <<>>
      BY <2>3 DEF NameUnit
    <3>2. NameUnit(p) \o DeltaUnit(p) = DeltaUnit(p)
      BY <1>3, <3>1
    <3>3. ~CalledTools(DeltaUnit(p))
      BY <2>1 DEF CalledTools
    <3>4. QED
      BY <2>3, <3>2, <3>3
  <2>4. QED
    BY <1>1, <2>2, <2>3
<1>6. QED
  BY <1>1, <1>3, <1>4, <1>5

TextStep(s) == [x \in (1..Len(s)) \X Seq(Units) |-> x[2] \o NameUnit(s[x[1]]) \o DeltaUnit(s[x[1]])]

LEMMA TextRuns ==
  ASSUME NEW s \in Seq(PieceTypes)
  PROVE  /\ AuditTexts(s)[0] = <<>>
         /\ \A i \in 1..Len(s) :
              AuditTexts(s)[i] = AuditTexts(s)[i - 1] \o NameUnit(s[i]) \o DeltaUnit(s[i])
         /\ \A i \in 0..Len(s) : AuditTexts(s)[i] \in Seq(Units)
<1> DEFINE step == TextStep(s)
           Body(f) == [i \in 0..Len(s) |->
                         IF i = 0 THEN <<>> ELSE f[i - 1] \o NameUnit(s[i]) \o DeltaUnit(s[i])]
<1>1. Len(s) \in Nat /\ \A i \in 1..Len(s) : s[i] \in PieceTypes
  OBVIOUS
<1>2. ASSUME NEW i \in 1..Len(s), NEW t \in Seq(Units)
      PROVE  t \o NameUnit(s[i]) \o DeltaUnit(s[i]) \in Seq(Units)
  <2>1. NameUnit(s[i]) \in Seq(Units) /\ DeltaUnit(s[i]) \in Seq(Units)
    BY <1>1, PieceTyped
  <2>2. QED
    BY <2>1
<1>3. step \in [(1..Len(s)) \X Seq(Units) -> Seq(Units)]
  BY <1>2 DEF TextStep
<1>4. PICK f : Runs(f, Len(s), Seq(Units), <<>>, step)
  <2>1. <<>> \in Seq(Units)
    OBVIOUS
  <2> HIDE DEF step
  <2>2. QED
    BY <1>1, <1>3, <2>1, RunExists
<1>5. f \in [0..Len(s) -> Seq(Units)] /\ f[0] = <<>>
  BY <1>4 DEF Runs
<1>6. ASSUME NEW i \in 1..Len(s) PROVE f[i] = f[i - 1] \o NameUnit(s[i]) \o DeltaUnit(s[i])
  <2>1. f[i - 1] \in Seq(Units)
    BY <1>1, <1>5
  <2>2. f[i] = step[<<i, f[i - 1]>>]
    BY <1>4 DEF Runs
  <2>3. QED
    BY <2>1, <2>2 DEF TextStep
<1>7. f = Body(f)
  <2>1. ASSUME NEW i \in 0..Len(s) PROVE f[i] = Body(f)[i]
    <3>1. CASE i = 0
      BY <1>5, <3>1
    <3>2. CASE i # 0
      <4>1. i \in 1..Len(s)
        BY <1>1, <3>2
      <4>2. QED
        BY <1>6, <3>2, <4>1
    <3>3. QED
      BY <3>1, <3>2
  <2>2. DOMAIN f = 0..Len(s) /\ f = [i \in 0..Len(s) |-> f[i]]
    BY <1>5
  <2>3. QED
    BY <2>1, <2>2
<1> DEFINE K == AuditTexts(s)
<1>8. K = CHOOSE F : F = Body(F)
  BY DEF AuditTexts
<1>9. K = Body(K)
  BY <1>7, <1>8
<1>10. K[0] = <<>> /\ \A i \in 1..Len(s) : K[i] = K[i - 1] \o NameUnit(s[i]) \o DeltaUnit(s[i])
  BY <1>1, <1>9
<1> HIDE DEF K
<1> DEFINE T == {i \in 0..Len(s) : K[i] \in Seq(Units)}
<1>11. 0 \in T
  <2>1. 0 \in 0..Len(s) /\ <<>> \in Seq(Units)
    BY <1>1
  <2>2. QED
    BY <1>10, <2>1
<1>12. ASSUME NEW i \in 1..Len(s), i - 1 \in T PROVE i \in T
  <2>1. K[i - 1] \in Seq(Units) /\ i \in 0..Len(s)
    BY <1>1, <1>12
  <2>2. K[i] \in Seq(Units)
    BY <1>2, <1>10, <2>1
  <2>3. QED
    BY <2>1, <2>2
<1> HIDE DEF T
<1>13. \A i \in 0..Len(s) : i \in T
  BY <1>1, <1>11, <1>12, UpTo
<1>14. \A i \in 0..Len(s) : K[i] \in Seq(Units)
  BY <1>13 DEF T
<1>15. QED
  BY <1>10, <1>14 DEF K

EventNames == {"message_start", "content_block_start", "content_block_delta", "content_block_stop",
               "message_delta", "message_stop", "error"}
EventTypes == [name : EventNames, index : Int, kind : {"", "text", "tool"}, units : Seq(Units),
               stop : Stops]
TranslationTypes == [s : TranslatorTypes, events : Seq(EventTypes)]

LEMMA AppendFacts ==
  ASSUME NEW T, NEW e \in Seq(T), NEW a \in T, NEW b \in T
  PROVE  /\ e \o <<>> = e /\ e \o <<a>> = Append(e, a)
         /\ e \o Append(<<>>, a) = Append(e, a)
         /\ e \o Append(<<b>>, a) = Append(Append(e, b), a)
         /\ e \o <<b, a>> = Append(Append(e, b), a)
<1>1. e \o <<>> = e /\ e \o <<a>> = Append(e, a)
  OBVIOUS
<1>2. Append(<<>>, a) = <<a>> /\ Append(<<b>>, a) = <<b, a>>
  <2>1. Append(<<>>, a) = <<a>>
    OBVIOUS
  <2>2. <<b>> \in Seq(T) /\ Len(<<b>>) = 1 /\ <<b>>[1] = b
    OBVIOUS
  <2>3. Append(<<b>>, a) \in Seq(T) /\ Len(Append(<<b>>, a)) = 2
        /\ Append(<<b>>, a)[1] = b /\ Append(<<b>>, a)[2] = a
    BY <2>2
  <2>4. <<b, a>> \in Seq(T) /\ Len(<<b, a>>) = 2 /\ <<b, a>>[1] = b /\ <<b, a>>[2] = a
    OBVIOUS
  <2>5. \A i \in 1..2 : Append(<<b>>, a)[i] = <<b, a>>[i]
    BY <2>3, <2>4
  <2>6. Append(<<b>>, a) = <<b, a>>
    BY <2>3, <2>4, <2>5, SeqEqual
  <2>7. QED
    BY <2>1, <2>6
<1>3. e \o <<b, a>> = Append(Append(e, b), a)
  <2>1. DOMAIN (e \o <<b, a>>) = DOMAIN Append(Append(e, b), a)
    OBVIOUS
  <2>2. ASSUME NEW i \in 1..(Len(e) + 2) PROVE (e \o <<b, a>>)[i] = Append(Append(e, b), a)[i]
    <3>1. CASE i <= Len(e)
      BY <3>1
    <3>2. CASE i = Len(e) + 1
      BY <3>2
    <3>3. CASE i = Len(e) + 2
      BY <3>3
    <3>4. QED
      BY <3>1, <3>2, <3>3
  <2>3. e \o <<b, a>> \in Seq(T) /\ Append(Append(e, b), a) \in Seq(T)
        /\ Len(e \o <<b, a>>) = Len(e) + 2 /\ Len(Append(Append(e, b), a)) = Len(e) + 2
    OBVIOUS
  <2>4. QED
    BY <2>2, <2>3
<1>4. QED
  BY <1>1, <1>2, <1>3

LEMMA EventTyped ==
  ASSUME NEW name \in EventNames, NEW index \in Int, NEW units \in Seq(Units)
  PROVE  Event(name, index, units) \in EventTypes
  BY DEF Event, EventTypes, Stops, Finishes

LEMMA BlockStartTyped ==
  ASSUME NEW p \in PieceTypes, NEW index \in Int
  PROVE  /\ BlockStart(p, index) \in EventTypes
         /\ BlockStart(p, index) = [name |-> "content_block_start", index |-> index, kind |-> p.kind,
                                    units |-> NameUnit(p), stop |-> ""]
<1>1. NameUnit(p) \in Seq(Units) /\ p.kind \in {"", "text", "tool"}
  BY PieceTyped
<1>2. PICK u \in Seq(Units), k \in {"", "text", "tool"} : u = NameUnit(p) /\ k = p.kind
  BY <1>1
<1>3. BlockStart(p, index) = [Event("content_block_start", index, u) EXCEPT !.kind = k]
  BY <1>2 DEF BlockStart
<1>4. BlockStart(p, index) = [name |-> "content_block_start", index |-> index, kind |-> k,
                              units |-> u, stop |-> ""]
  BY <1>3 DEF Event
<1>5. BlockStart(p, index) \in EventTypes
  <2>1. "content_block_start" \in EventNames /\ "" \in Stops
    BY DEF EventNames, Stops, Finishes
  <2>2. [name |-> "content_block_start", index |-> index, kind |-> k, units |-> u, stop |-> ""]
          \in EventTypes
    BY <1>2, <2>1 DEF EventTypes
  <2>3. QED
    BY <1>4, <2>2
<1>6. QED
  BY <1>2, <1>4, <1>5

LEMMA OpenedTyped ==
  ASSUME NEW s \in TranslatorTypes, NEW p \in PieceTypes
  PROVE  /\ Opened(s, p) \in TranslatorTypes
         /\ Opened(s, p).open = p.kind /\ Opened(s, p).blockIndex = s.blockIndex + 1
         /\ p.kind = "tool" => Opened(s, p).toolIndex = p.index
         /\ Opened(s, p).sawTool <=> s.sawTool \/ p.kind = "tool"
         /\ Opened(s, p).finish = s.finish
<1>1. PICK k \in {"text", "tool"}, i \in Nat : k = p.kind /\ i = p.index
  BY PieceTyped
<1>2. PICK t \in Nat : t = IF k = "tool" THEN i ELSE s.toolIndex
  BY DEF TranslatorTypes
<1>3. PICK b \in BOOLEAN : b = (s.sawTool \/ k = "tool")
  OBVIOUS
<1>4. Opened(s, p) = [s EXCEPT !.open = k, !.blockIndex = s.blockIndex + 1, !.toolIndex = t, !.sawTool = b]
  BY <1>1, <1>2, <1>3 DEF Opened
<1>5. DOMAIN s = {"open", "blockIndex", "toolIndex", "sawTool", "finish"}
      /\ s.blockIndex \in Int /\ s.finish \in Finishes
      /\ s = [open |-> s.open, blockIndex |-> s.blockIndex, toolIndex |-> s.toolIndex,
              sawTool |-> s.sawTool, finish |-> s.finish]
  BY DEF TranslatorTypes
<1>51. Opened(s, p) = [open |-> k, blockIndex |-> s.blockIndex + 1, toolIndex |-> t,
                      sawTool |-> b, finish |-> s.finish]
  BY <1>4, <1>5
<1>52. Opened(s, p) \in TranslatorTypes
  BY <1>5, <1>51 DEF TranslatorTypes
<1>53. /\ Opened(s, p).open = k /\ Opened(s, p).blockIndex = s.blockIndex + 1
      /\ Opened(s, p).toolIndex = t /\ Opened(s, p).sawTool = b /\ Opened(s, p).finish = s.finish
  BY <1>51
<1>6. Opened(s, p).sawTool <=> s.sawTool \/ k = "tool"
  BY <1>3, <1>53
<1>7. QED
  BY <1>1, <1>2, <1>52, <1>53, <1>6

\* What one piece does to the translator and adds to the events: nothing, or
\* the start of a block, or the end of one and the start of the next; then a
\* delta, unless the piece is a mere name.
LEMMA TranslateStep ==
  ASSUME NEW acc \in TranslationTypes, NEW p \in PieceTypes
  PROVE  LET a == Translate(acc, p)
             s == acc.s
             e == acc.events
             index == IF Belongs(s, p) THEN s.blockIndex ELSE s.blockIndex + 1
             stop == Event("content_block_stop", s.blockIndex, <<>>)
             opened == IF Belongs(s, p) THEN e
                       ELSE IF s.open = "none" THEN Append(e, BlockStart(p, index))
                       ELSE Append(Append(e, stop), BlockStart(p, index))
         IN /\ a \in TranslationTypes
            /\ a.s = IF Belongs(s, p) THEN s ELSE Opened(s, p)
            /\ opened \in Seq(EventTypes)
            /\ a.events = IF DeltaUnit(p) = <<>> THEN opened
                          ELSE Append(opened, Event("content_block_delta", index, DeltaUnit(p)))
<1> DEFINE s == acc.s
           e == acc.events
           index == IF Belongs(s, p) THEN s.blockIndex ELSE s.blockIndex + 1
           stop == Event("content_block_stop", s.blockIndex, <<>>)
           start == BlockStart(p, index)
           delta == Event("content_block_delta", index, DeltaUnit(p))
           opened == IF Belongs(s, p) THEN e
                     ELSE IF s.open = "none" THEN Append(e, start)
                     ELSE Append(Append(e, stop), start)
           s2 == IF Belongs(s, p) THEN s ELSE Opened(s, p)
           starts == IF Belongs(s, p) THEN <<>> ELSE Append(closeBlock(s), start)
           deltas == IF DeltaUnit(p) = <<>> THEN <<>> ELSE <<delta>>
<1>1. s \in TranslatorTypes /\ e \in Seq(EventTypes) /\ s.blockIndex \in Int
  BY DEF TranslationTypes, TranslatorTypes
<1>2. s2 \in TranslatorTypes /\ s2.blockIndex = index /\ index \in Int
  BY <1>1, OpenedTyped
<1>3. Translate(acc, p) = [s |-> s2, events |-> e \o starts \o deltas]
  BY <1>2 DEF Translate
<1>4. stop \in EventTypes
  <2>1. <<>> \in Seq(Units) /\ "content_block_stop" \in EventNames
    BY DEF EventNames
  <2>2. QED
    BY <1>1, <2>1, EventTyped
<1>5. start \in EventTypes
  BY <1>2, BlockStartTyped
<1>6. delta \in EventTypes
  <2>1. DeltaUnit(p) \in Seq(Units) /\ "content_block_delta" \in EventNames
    BY PieceTyped DEF EventNames
  <2>2. QED
    BY <1>2, <2>1, EventTyped
<1>7. closeBlock(s) = IF s.open = "none" THEN <<>> ELSE <<stop>>
  BY DEF closeBlock
<1> HIDE DEF s, e, index, stop, start, delta
<1>8. opened \in Seq(EventTypes)
  BY <1>1, <1>4, <1>5
<1>9. e \o starts = opened
  <2>1. CASE Belongs(s, p)
    BY <1>1, <2>1
  <2>2. CASE ~Belongs(s, p) /\ s.open = "none"
    <3>1. starts = Append(<<>>, start) /\ opened = Append(e, start)
      BY <1>7, <2>2
    <3>2. QED
      BY <1>1, <1>5, <3>1, AppendFacts
  <2>3. CASE ~Belongs(s, p) /\ s.open # "none"
    <3>1. starts = Append(<<stop>>, start) /\ opened = Append(Append(e, stop), start)
      BY <1>7, <2>3
    <3>2. e \o Append(<<stop>>, start) = Append(Append(e, stop), start)
      BY <1>1, <1>4, <1>5, AppendFacts
    <3>3. QED
      BY <3>1, <3>2, Zenon
  <2>4. QED
    BY <2>1, <2>2, <2>3
<1> HIDE DEF starts, opened
<1>10. opened \o deltas = (IF DeltaUnit(p) = <<>> THEN opened ELSE Append(opened, delta))
  BY <1>6, <1>8
<1>11. (IF DeltaUnit(p) = <<>> THEN opened ELSE Append(opened, delta)) \in Seq(EventTypes)
  BY <1>6, <1>8
<1>12. Translate(acc, p) = [s |-> s2, events |-> IF DeltaUnit(p) = <<>> THEN opened ELSE Append(opened, delta)]
  BY <1>3, <1>9, <1>10
<1> HIDE DEF s2
<1>13. /\ Translate(acc, p) \in TranslationTypes
       /\ Translate(acc, p).s = s2
       /\ Translate(acc, p).events = IF DeltaUnit(p) = <<>> THEN opened ELSE Append(opened, delta)
  BY <1>2, <1>11, <1>12 DEF TranslationTypes
<1>14. QED
  BY <1>8, <1>13 DEF s, e, index, stop, start, delta, opened, s2

TranslationStep(ps) == [x \in (1..Len(ps)) \X TranslationTypes |-> Translate(x[2], ps[x[1]])]

LEMMA TranslationRuns ==
  ASSUME NEW s \in TranslatorTypes, NEW ps \in Seq(PieceTypes)
  PROVE  /\ Translated(s, ps)[0] = [s |-> s, events |-> <<>>]
         /\ \A i \in 1..Len(ps) : Translated(s, ps)[i] = Translate(Translated(s, ps)[i - 1], ps[i])
         /\ \A i \in 0..Len(ps) : Translated(s, ps)[i] \in TranslationTypes
<1> DEFINE step == TranslationStep(ps)
           init == [s |-> s, events |-> <<>>]
           Body(f) == [i \in 0..Len(ps) |-> IF i = 0 THEN init ELSE Translate(f[i - 1], ps[i])]
<1>1. Len(ps) \in Nat /\ \A i \in 1..Len(ps) : ps[i] \in PieceTypes
  OBVIOUS
<1>2. ASSUME NEW i \in 1..Len(ps), NEW acc \in TranslationTypes
      PROVE  Translate(acc, ps[i]) \in TranslationTypes
  BY <1>1, TranslateStep
<1>3. step \in [(1..Len(ps)) \X TranslationTypes -> TranslationTypes]
  BY <1>2 DEF TranslationStep
<1>4. init \in TranslationTypes
  <2>1. <<>> \in Seq(EventTypes)
    OBVIOUS
  <2>2. QED
    BY <2>1 DEF TranslationTypes
<1> HIDE DEF init
<1>5. PICK f : Runs(f, Len(ps), TranslationTypes, init, step)
  <2> HIDE DEF step
  <2>1. QED
    BY <1>1, <1>3, <1>4, RunExists
<1>6. f \in [0..Len(ps) -> TranslationTypes] /\ f[0] = init
  BY <1>5 DEF Runs
<1>7. ASSUME NEW i \in 1..Len(ps) PROVE f[i] = Translate(f[i - 1], ps[i])
  <2>1. f[i - 1] \in TranslationTypes
    BY <1>1, <1>6
  <2>2. f[i] = step[<<i, f[i - 1]>>]
    BY <1>5 DEF Runs
  <2>3. QED
    BY <2>1, <2>2 DEF TranslationStep
<1>8. f = Body(f)
  <2>1. ASSUME NEW i \in 0..Len(ps) PROVE f[i] = Body(f)[i]
    <3>1. CASE i = 0
      BY <1>6, <3>1
    <3>2. CASE i # 0
      <4>1. i \in 1..Len(ps)
        BY <1>1, <3>2
      <4>2. QED
        BY <1>7, <3>2, <4>1
    <3>3. QED
      BY <3>1, <3>2
  <2>2. DOMAIN f = 0..Len(ps) /\ f = [i \in 0..Len(ps) |-> f[i]]
    BY <1>6
  <2>3. QED
    BY <2>1, <2>2
<1> DEFINE K == Translated(s, ps)
<1>9. K = CHOOSE F : F = Body(F)
  BY DEF Translated, init
<1>10. K = Body(K)
  BY <1>8, <1>9
<1>11. K[0] = init /\ \A i \in 1..Len(ps) : K[i] = Translate(K[i - 1], ps[i])
  BY <1>1, <1>10
<1> HIDE DEF K
<1> DEFINE T == {i \in 0..Len(ps) : K[i] \in TranslationTypes}
<1>12. 0 \in T
  BY <1>1, <1>4, <1>11
<1>13. ASSUME NEW i \in 1..Len(ps), i - 1 \in T PROVE i \in T
  <2>1. K[i - 1] \in TranslationTypes /\ i \in 0..Len(ps)
    BY <1>1, <1>13
  <2>2. K[i] \in TranslationTypes
    BY <1>2, <1>11, <2>1
  <2>3. QED
    BY <2>1, <2>2
<1> HIDE DEF T
<1>14. \A i \in 0..Len(ps) : i \in T
  BY <1>1, <1>12, <1>13, UpTo
<1>15. \A i \in 0..Len(ps) : K[i] \in TranslationTypes
  BY <1>14 DEF T
<1>16. QED
  BY <1>11, <1>15 DEF K, init

\* Where the translator is after the first i pieces.
LEMMA TranslatedState ==
  ASSUME NEW s \in TranslatorTypes, NEW ps \in Seq(PieceTypes), s.open = "tool" => s.sawTool
  PROVE  \A i \in 0..Len(ps) :
           LET t == Translated(s, ps)[i].s
           IN /\ t.open = "tool" => t.sawTool
              /\ t.sawTool <=> s.sawTool \/ \E j \in 1..i : ps[j].kind = "tool"
              /\ t.finish = s.finish
              /\ i = 0 => t = s
              /\ i > 0 => /\ t.open = ps[i].kind
                          /\ ps[i].kind = "tool" => t.toolIndex = ps[i].index
<1> DEFINE t(i) == Translated(s, ps)[i].s
           Q(i) == /\ t(i).open = "tool" => t(i).sawTool
                   /\ t(i).sawTool <=> s.sawTool \/ \E j \in 1..i : ps[j].kind = "tool"
                   /\ t(i).finish = s.finish
                   /\ i = 0 => t(i) = s
                   /\ i > 0 => /\ t(i).open = ps[i].kind
                               /\ ps[i].kind = "tool" => t(i).toolIndex = ps[i].index
           T == {i \in 0..Len(ps) : Q(i)}
<1>1. Len(ps) \in Nat /\ \A i \in 1..Len(ps) : ps[i] \in PieceTypes
  OBVIOUS
<1>2. t(0) = s
  <2>1. Translated(s, ps)[0] = [s |-> s, events |-> <<>>]
    BY TranslationRuns
  <2>2. QED
    BY <2>1
<1>3. Q(0)
  BY <1>2
<1>4. ASSUME NEW i \in 1..Len(ps), Q(i - 1) PROVE Q(i)
  <2> DEFINE a == Translated(s, ps)[i - 1]
             p == ps[i]
  <2>1. a \in TranslationTypes /\ p \in PieceTypes /\ a.s \in TranslatorTypes
        /\ Translated(s, ps)[i] = Translate(a, p) /\ a.s = t(i - 1)
    <3>1. i - 1 \in 0..Len(ps)
      BY <1>1
    <3>2. a \in TranslationTypes /\ Translated(s, ps)[i] = Translate(a, p)
      BY <3>1, TranslationRuns
    <3>3. QED
      BY <1>1, <3>2 DEF TranslationTypes
  <2>2. t(i) = IF Belongs(a.s, p) THEN a.s ELSE Opened(a.s, p)
    BY <2>1, TranslateStep, SMTT(30)
  <2>3. p.kind \in {"text", "tool"}
    BY <2>1, PieceTyped
  <2>4. /\ t(i).open = p.kind
        /\ p.kind = "tool" => t(i).toolIndex = p.index
        /\ t(i).sawTool <=> a.s.sawTool \/ p.kind = "tool"
        /\ t(i).finish = a.s.finish
    <3>1. CASE Belongs(a.s, p)
      BY <1>4, <2>1, <2>2, <3>1 DEF Belongs
    <3>2. CASE ~Belongs(a.s, p)
      <4>1. t(i) = Opened(a.s, p)
        BY <2>2, <3>2
      <4>2. /\ Opened(a.s, p).open = p.kind
            /\ p.kind = "tool" => Opened(a.s, p).toolIndex = p.index
            /\ Opened(a.s, p).sawTool <=> a.s.sawTool \/ p.kind = "tool"
            /\ Opened(a.s, p).finish = a.s.finish
        <5> HIDE DEF a, p
        <5>1. QED
          BY <2>1, OpenedTyped, SMTT(30)
      <4>3. QED
        BY <4>1, <4>2
    <3>3. QED
      BY <3>1, <3>2
  <2>5. (\E j \in 1..i : ps[j].kind = "tool") <=> (\E j \in 1..(i - 1) : ps[j].kind = "tool") \/ p.kind = "tool"
    OBVIOUS
  <2> HIDE DEF a, p
  <2>6. a.s.sawTool <=> s.sawTool \/ \E j \in 1..(i - 1) : ps[j].kind = "tool"
    BY <1>4, <2>1
  <2>7. a.s.finish = s.finish
    BY <1>4, <2>1
  <2> HIDE DEF t
  <2>8. t(i).sawTool <=> s.sawTool \/ \E j \in 1..i : ps[j].kind = "tool"
    BY <2>4, <2>5, <2>6
  <2>9. t(i).open = "tool" => t(i).sawTool
    BY <2>4
  <2>10. i # 0
    BY <1>1
  <2>11. QED
    BY <2>4, <2>7, <2>8, <2>9, <2>10 DEF p
<1> HIDE DEF Q
<1>5. 0 \in T
  BY <1>1, <1>3
<1>6. ASSUME NEW i \in 1..Len(ps), i - 1 \in T PROVE i \in T
  BY <1>1, <1>4, <1>6
<1> HIDE DEF T
<1>7. \A i \in 0..Len(ps) : i \in T
  BY <1>1, <1>5, <1>6, UpTo
<1>8. \A i \in 0..Len(ps) : Q(i)
  BY <1>7 DEF T
<1>9. QED
  BY <1>8 DEF Q

\* The translator after a chunk.
LEMMA ChunkState ==
  ASSUME NEW s \in TranslatorTypes, NEW c \in ChunkTypes, s.open = "tool" => s.sawTool
  PROVE  LET t == chunk(s, c)
         IN /\ t \in TranslationTypes
            /\ t.events = Translated(s, c.pieces)[Len(c.pieces)].events
            /\ t.s.open = Translated(s, c.pieces)[Len(c.pieces)].s.open
            /\ t.s.blockIndex = Translated(s, c.pieces)[Len(c.pieces)].s.blockIndex
            /\ t.s.open = "tool" => t.s.sawTool
            /\ t.s.sawTool <=> s.sawTool \/ HasTool(c.pieces)
            /\ t.s.finish = LastFinish(s.finish, c.finish)
            /\ c.pieces = <<>> => t.s.open = s.open /\ t.s.toolIndex = s.toolIndex
            /\ c.pieces # <<>> =>
                 /\ Follows(t.s, CallOf(Last(c.pieces)))
                 /\ t.s.open = c.pieces[Len(c.pieces)].kind
                 /\ t.s.open = "tool" => t.s.toolIndex = c.pieces[Len(c.pieces)].index
<1>1. c.pieces \in Seq(PieceTypes) /\ c.finish \in Finishes
  BY DEF ChunkTypes
<1> DEFINE ps == c.pieces
           r == Translated(s, ps)[Len(ps)]
           t == chunk(s, c)
<1>2. Len(ps) \in Nat /\ Len(ps) \in 0..Len(ps) /\ DOMAIN ps = 1..Len(ps)
  BY <1>1
<1>3. r \in TranslationTypes
  BY <1>1, <1>2, TranslationRuns
<1>4. /\ r.s.open = "tool" => r.s.sawTool
      /\ r.s.sawTool <=> s.sawTool \/ \E j \in 1..Len(ps) : ps[j].kind = "tool"
      /\ r.s.finish = s.finish
      /\ Len(ps) = 0 => r.s = s
      /\ Len(ps) > 0 => /\ r.s.open = ps[Len(ps)].kind
                        /\ ps[Len(ps)].kind = "tool" => r.s.toolIndex = ps[Len(ps)].index
  BY <1>1, <1>2, TranslatedState, SMTT(30)
<1>5. t = [r EXCEPT !.s.finish = IF c.finish = "" THEN @ ELSE c.finish]
  BY DEF chunk
<1> HIDE DEF r, t
<1>6. r.s \in TranslatorTypes /\ r.events \in Seq(EventTypes) /\ r = [s |-> r.s, events |-> r.events]
  BY <1>3 DEF TranslationTypes
<1>7. PICK f \in Finishes : f = LastFinish(s.finish, c.finish)
  BY <1>1 DEF LastFinish, TranslatorTypes
<1>8. t = [s |-> [r.s EXCEPT !.finish = f], events |-> r.events]
  BY <1>4, <1>5, <1>6, <1>7 DEF LastFinish
<1>9. r.s = [open |-> r.s.open, blockIndex |-> r.s.blockIndex, toolIndex |-> r.s.toolIndex,
             sawTool |-> r.s.sawTool, finish |-> r.s.finish]
  BY <1>6 DEF TranslatorTypes
<1>10. t.s = [open |-> r.s.open, blockIndex |-> r.s.blockIndex, toolIndex |-> r.s.toolIndex,
              sawTool |-> r.s.sawTool, finish |-> f] /\ t.events = r.events
  BY <1>8, <1>9
<1>11. t.s \in TranslatorTypes /\ t \in TranslationTypes
  BY <1>6, <1>7, <1>8, <1>10 DEF TranslatorTypes, TranslationTypes
<1>12. t.s.open = r.s.open /\ t.s.blockIndex = r.s.blockIndex /\ t.s.toolIndex = r.s.toolIndex
       /\ t.s.sawTool = r.s.sawTool /\ t.s.finish = f
  BY <1>10
<1>13. HasTool(ps) <=> \E j \in 1..Len(ps) : ps[j].kind = "tool"
  BY <1>2 DEF HasTool
<1>14. ps = <<>> => Len(ps) = 0
  OBVIOUS
<1>15. ps # <<>> => Len(ps) > 0
  BY <1>1
<1>16. ps # <<>> => Follows(t.s, CallOf(Last(ps)))
  <2> SUFFICES ASSUME ps # <<>>, CallOf(Last(ps)) # -1 PROVE t.s.open = "tool" /\ t.s.toolIndex = CallOf(Last(ps))
    BY DEF Follows
  <2> DEFINE p == ps[Len(ps)]
  <2>1. p \in PieceTypes /\ Last(ps) = p
    BY <1>1, <1>15 DEF Last
  <2>2. p.kind \in {"text", "tool"}
    BY <2>1, PieceTyped
  <2>3. p.kind = "tool" /\ CallOf(Last(ps)) = p.index
    BY <2>1, <2>2 DEF CallOf
  <2>4. QED
    BY <1>4, <1>12, <1>15, <2>3
<1>17. ps # <<>> => /\ t.s.open = ps[Len(ps)].kind
                    /\ t.s.open = "tool" => t.s.toolIndex = ps[Len(ps)].index
  BY <1>4, <1>12, <1>15
<1>18. QED
  BY <1>4, <1>7, <1>11, <1>12, <1>13, <1>14, <1>16, <1>17, <1>10 DEF r, t

-----------------------------------------------------------------------------
(* What the client makes of the events.                                    *)

LEMMA ClientTyped ==
  ASSUME NEW k \in ClientTypes
  PROVE  /\ k.phase \in Phases /\ k.next \in Int /\ k.got \in Seq(Units) /\ k.stop \in Stops
         /\ k.nameless \in BOOLEAN
  BY DEF ClientTypes

LEMMA ClientShape ==
  ASSUME NEW k \in ClientTypes
  PROVE  k = [phase |-> k.phase, next |-> k.next, got |-> k.got, stop |-> k.stop, nameless |-> k.nameless]
  BY DEF ClientTypes

LEMMA PhaseNames ==
  {"none", "reply", "failed", "open", "error", "ended", "waiting", "between", "text", "tool", "ending",
   "bad"} \subseteq Phases
  BY DEF Phases

\* A client that was updated.
LEMMA ClientUpdate ==
  ASSUME NEW k \in ClientTypes, NEW phase \in Phases, NEW next \in Int, NEW got \in Seq(Units),
         NEW stop \in Stops, NEW nameless \in BOOLEAN
  PROVE  [phase |-> phase, next |-> next, got |-> got, stop |-> stop, nameless |-> nameless]
           \in ClientTypes
  BY DEF ClientTypes

LEMMA ReadBlockStart ==
  ASSUME NEW k \in ClientTypes, NEW p \in PieceTypes, k.phase = "between"
  PROVE  LET r == ParseEvent(k, BlockStart(p, k.next))
         IN /\ r \in ClientTypes
            /\ r.phase = p.kind /\ r.next = k.next /\ r.got = k.got \o NameUnit(p) /\ r.stop = k.stop
            /\ r.nameless => k.nameless \/ (p.kind = "tool" /\ ~p.name)
<1> DEFINE ev == BlockStart(p, k.next)
<1>1. /\ ev.name = "content_block_start" /\ ev.index = k.next /\ ev.kind = p.kind
      /\ ev.units = NameUnit(p)
  <2>1. k.next \in Int
    BY ClientTyped
  <2>2. ev = [name |-> "content_block_start", index |-> k.next, kind |-> p.kind,
              units |-> NameUnit(p), stop |-> ""]
    BY <2>1, BlockStartTyped
  <2> HIDE DEF ev
  <2>3. QED
    BY <2>2
<1> HIDE DEF ev
<1>2. PICK b \in BOOLEAN : b = (k.nameless \/ (ev.kind = "tool" /\ ev.units = <<>>))
  OBVIOUS
<1>3. ParseEvent(k, ev) = [k EXCEPT !.phase = ev.kind, !.got = k.got \o ev.units, !.nameless = b]
  BY <1>1, <1>2 DEF ParseEvent
<1>4. ParseEvent(k, ev) = [phase |-> p.kind, next |-> k.next, got |-> k.got \o NameUnit(p),
                           stop |-> k.stop, nameless |-> b]
  BY <1>1, <1>3, ClientShape
<1>5. ParseEvent(k, ev) \in ClientTypes
  <2>1. p.kind \in Phases
    BY PieceTyped, PhaseNames
  <2>3. k.got \o NameUnit(p) \in Seq(Units)
    <3>1. k.got \in Seq(Units) /\ NameUnit(p) \in Seq(Units)
      BY PieceTyped, ClientTyped
    <3>2. QED
      BY <3>1, ConcatProperties
  <2>2. QED
    <3>1. k.next \in Int /\ k.stop \in Stops
      BY ClientTyped
    <3>2. QED
      BY <1>4, <2>1, <2>3, <3>1 DEF ClientTypes
<1>6. b => k.nameless \/ (p.kind = "tool" /\ ~p.name)
  <2>1. p.name => NameUnit(p) # <<>>
    BY DEF NameUnit
  <2>2. QED
    BY <1>1, <1>2, <2>1
<1>7. QED
  BY <1>4, <1>5, <1>6 DEF ev

LEMMA ReadBlockDelta ==
  ASSUME NEW k \in ClientTypes, NEW p \in PieceTypes, k.phase = p.kind, DeltaUnit(p) # <<>>
  PROVE  LET r == ParseEvent(k, Event("content_block_delta", k.next, DeltaUnit(p)))
         IN /\ r \in ClientTypes
            /\ r.phase = k.phase /\ r.next = k.next /\ r.got = k.got \o DeltaUnit(p) /\ r.stop = k.stop
            /\ r.nameless = k.nameless
<1> DEFINE ev == Event("content_block_delta", k.next, DeltaUnit(p))
<1>1. ev.name = "content_block_delta" /\ ev.index = k.next /\ ev.units = DeltaUnit(p)
  BY DEF Event
<1>2. k.phase \in {"text", "tool"} /\ ((k.phase = "text") = (ev.units[1][1] = "text"))
      /\ k.got \o DeltaUnit(p) \in Seq(Units)
  BY <1>1, PieceTyped, ClientTyped
<1> HIDE DEF ev
<1>3. ParseEvent(k, ev) = [k EXCEPT !.got = k.got \o ev.units]
  BY <1>1, <1>2 DEF ParseEvent
<1>4. ParseEvent(k, ev) = [phase |-> k.phase, next |-> k.next, got |-> k.got \o DeltaUnit(p),
                           stop |-> k.stop, nameless |-> k.nameless]
  BY <1>1, <1>3, ClientShape
<1>5. ParseEvent(k, ev) \in ClientTypes
  <2>1. k.phase \in Phases /\ k.next \in Int /\ k.stop \in Stops /\ k.nameless \in BOOLEAN
    BY ClientTyped
  <2>2. QED
    BY <1>2, <1>4, <2>1 DEF ClientTypes
<1>6. QED
  BY <1>4, <1>5 DEF ev

LEMMA ReadBlockStop ==
  ASSUME NEW k \in ClientTypes, k.phase \in {"text", "tool"}
  PROVE  LET r == ParseEvent(k, Event("content_block_stop", k.next, <<>>))
         IN /\ r \in ClientTypes
            /\ r.phase = "between" /\ r.next = k.next + 1 /\ r.got = k.got /\ r.stop = k.stop
            /\ r.nameless = k.nameless
<1> DEFINE ev == Event("content_block_stop", k.next, <<>>)
<1>1. ev.name = "content_block_stop" /\ ev.index = k.next
  BY DEF Event
<1> HIDE DEF ev
<1>2. ParseEvent(k, ev) = [k EXCEPT !.phase = "between", !.next = k.next + 1]
  BY <1>1 DEF ParseEvent
<1>3. ParseEvent(k, ev) = [phase |-> "between", next |-> k.next + 1, got |-> k.got, stop |-> k.stop,
                           nameless |-> k.nameless]
  BY <1>2, ClientShape, ZenonT(40)
<1>4. "between" \in Phases /\ k.next + 1 \in Int
  BY ClientTyped, PhaseNames
<1>5. ParseEvent(k, ev) \in ClientTypes
  BY <1>3, <1>4, ClientTyped, ClientUpdate
<1>6. QED
  BY <1>3, <1>5 DEF ev

LEMMA ParseTyped ==
  ASSUME NEW k \in ClientTypes, NEW ev \in EventTypes
  PROVE  ParseEvent(k, ev) \in ClientTypes
<1>1. /\ k.phase \in Phases /\ k.next \in Int /\ k.got \in Seq(Units) /\ k.stop \in Stops
      /\ k.nameless \in BOOLEAN
  BY ClientTyped
<1>2. /\ ev.kind \in Phases /\ ev.units \in Seq(Units) /\ ev.stop \in Stops
      /\ k.got \o ev.units \in Seq(Units) /\ k.next + 1 \in Int
  <2>1. ev.kind \in {"", "text", "tool"} /\ ev.units \in Seq(Units) /\ ev.stop \in Stops
    BY DEF EventTypes
  <2>2. ev.kind \in Phases
    BY <2>1 DEF Phases
  <2>3. k.got \o ev.units \in Seq(Units)
    BY <1>1, <2>1, ConcatProperties
  <2>4. k.next + 1 \in Int
    BY <1>1
  <2>5. QED
    BY <2>1, <2>2, <2>3, <2>4, Zenon
<1>3. {"between", "ending", "ended", "failed", "bad"} \subseteq Phases
  BY DEF Phases
<1>4. PICK b \in BOOLEAN : b = (k.nameless \/ (ev.kind = "tool" /\ ev.units = <<>>))
  OBVIOUS
<1> DEFINE Client(phase, next, got, stop, nameless) ==
             [phase |-> phase, next |-> next, got |-> got, stop |-> stop, nameless |-> nameless]
<1>5. k = Client(k.phase, k.next, k.got, k.stop, k.nameless)
  BY ClientShape
<1>6. \/ ParseEvent(k, ev) = [k EXCEPT !.phase = "between"]
      \/ ParseEvent(k, ev) = [k EXCEPT !.phase = ev.kind, !.got = k.got \o ev.units, !.nameless = b]
      \/ ParseEvent(k, ev) = [k EXCEPT !.got = k.got \o ev.units]
      \/ ParseEvent(k, ev) = [k EXCEPT !.phase = "between", !.next = k.next + 1]
      \/ ParseEvent(k, ev) = [k EXCEPT !.phase = "ending", !.stop = ev.stop]
      \/ ParseEvent(k, ev) = [k EXCEPT !.phase = "ended"]
      \/ ParseEvent(k, ev) = [k EXCEPT !.phase = "failed"]
      \/ ParseEvent(k, ev) = [k EXCEPT !.phase = "bad"]
  BY <1>4 DEF ParseEvent, Bad
<1>7. \/ \E phase \in {"between", "ended", "failed", "bad"} :
           ParseEvent(k, ev) = Client(phase, k.next, k.got, k.stop, k.nameless)
      \/ ParseEvent(k, ev) = Client(ev.kind, k.next, k.got \o ev.units, k.stop, b)
      \/ ParseEvent(k, ev) = Client(k.phase, k.next, k.got \o ev.units, k.stop, k.nameless)
      \/ ParseEvent(k, ev) = Client("between", k.next + 1, k.got, k.stop, k.nameless)
      \/ ParseEvent(k, ev) = Client("ending", k.next, k.got, ev.stop, k.nameless)
  BY <1>5, <1>6
<1>8. ASSUME NEW phase \in Phases, NEW next \in Int, NEW got \in Seq(Units), NEW stop \in Stops,
             NEW nameless \in BOOLEAN
      PROVE  Client(phase, next, got, stop, nameless) \in ClientTypes
  BY DEF ClientTypes
<1> HIDE DEF Client
<1>9. QED
  <2>1. CASE \E phase \in {"between", "ended", "failed", "bad"} :
               ParseEvent(k, ev) = Client(phase, k.next, k.got, k.stop, k.nameless)
    BY <1>1, <1>3, <1>8, <2>1
  <2>2. CASE ParseEvent(k, ev) = Client(ev.kind, k.next, k.got \o ev.units, k.stop, b)
    BY <1>1, <1>2, <1>8, <2>2, ZenonT(40)
  <2>3. CASE ParseEvent(k, ev) = Client(k.phase, k.next, k.got \o ev.units, k.stop, k.nameless)
    BY <1>1, <1>2, <1>8, <2>3, ZenonT(40)
  <2>4. CASE ParseEvent(k, ev) = Client("between", k.next + 1, k.got, k.stop, k.nameless)
    BY <1>1, <1>2, <1>3, <1>8, <2>4
  <2>5. CASE ParseEvent(k, ev) = Client("ending", k.next, k.got, ev.stop, k.nameless)
    BY <1>1, <1>2, <1>3, <1>8, <2>5
  <2>6. QED
    BY <1>7, <2>1, <2>2, <2>3, <2>4, <2>5

ParseStep(evs) == [x \in (1..Len(evs)) \X ClientTypes |-> ParseEvent(x[2], evs[x[1]])]

LEMMA ParseRuns ==
  ASSUME NEW k \in ClientTypes, NEW evs \in Seq(EventTypes)
  PROVE  /\ Parsed(k, evs)[0] = k
         /\ \A i \in 1..Len(evs) : Parsed(k, evs)[i] = ParseEvent(Parsed(k, evs)[i - 1], evs[i])
         /\ \A i \in 0..Len(evs) : Parsed(k, evs)[i] \in ClientTypes
<1> DEFINE step == ParseStep(evs)
           Body(f) == [i \in 0..Len(evs) |-> IF i = 0 THEN k ELSE ParseEvent(f[i - 1], evs[i])]
<1>1. Len(evs) \in Nat /\ \A i \in 1..Len(evs) : evs[i] \in EventTypes
  OBVIOUS
<1>2. ASSUME NEW i \in 1..Len(evs), NEW c \in ClientTypes
      PROVE  ParseEvent(c, evs[i]) \in ClientTypes
  BY <1>1, ParseTyped
<1>3. step \in [(1..Len(evs)) \X ClientTypes -> ClientTypes]
  BY <1>2 DEF ParseStep
<1>5. PICK f : Runs(f, Len(evs), ClientTypes, k, step)
  <2> HIDE DEF step
  <2>1. QED
    BY <1>1, <1>3, RunExists
<1>6. f \in [0..Len(evs) -> ClientTypes] /\ f[0] = k
  BY <1>5 DEF Runs
<1>7. ASSUME NEW i \in 1..Len(evs) PROVE f[i] = ParseEvent(f[i - 1], evs[i])
  <2>1. f[i - 1] \in ClientTypes
    BY <1>1, <1>6
  <2>2. f[i] = step[<<i, f[i - 1]>>]
    BY <1>5 DEF Runs
  <2>3. QED
    BY <2>1, <2>2 DEF ParseStep
<1>8. f = Body(f)
  <2>1. ASSUME NEW i \in 0..Len(evs) PROVE f[i] = Body(f)[i]
    <3>1. CASE i = 0
      BY <1>6, <3>1
    <3>2. CASE i # 0
      <4>1. i \in 1..Len(evs)
        BY <1>1, <3>2
      <4>2. QED
        BY <1>7, <3>2, <4>1
    <3>3. QED
      BY <3>1, <3>2
  <2>2. DOMAIN f = 0..Len(evs) /\ f = [i \in 0..Len(evs) |-> f[i]]
    BY <1>6
  <2>3. QED
    BY <2>1, <2>2
<1> DEFINE K == Parsed(k, evs)
<1>9. K = CHOOSE F : F = Body(F)
  BY DEF Parsed
<1>10. K = Body(K)
  BY <1>8, <1>9
<1>11. K[0] = k /\ \A i \in 1..Len(evs) : K[i] = ParseEvent(K[i - 1], evs[i])
  BY <1>1, <1>10
<1> HIDE DEF K
<1> DEFINE T == {i \in 0..Len(evs) : K[i] \in ClientTypes}
<1>12. 0 \in T
  BY <1>1, <1>11
<1>13. ASSUME NEW i \in 1..Len(evs), i - 1 \in T PROVE i \in T
  <2>1. K[i - 1] \in ClientTypes /\ i \in 0..Len(evs)
    BY <1>1, <1>13
  <2>2. K[i] \in ClientTypes
    BY <1>2, <1>11, <2>1
  <2>3. QED
    BY <2>1, <2>2
<1> HIDE DEF T
<1>14. \A i \in 0..Len(evs) : i \in T
  BY <1>1, <1>12, <1>13, UpTo
<1>15. \A i \in 0..Len(evs) : K[i] \in ClientTypes
  BY <1>14 DEF T
<1>16. QED
  BY <1>11, <1>15 DEF K

LEMMA ParseNone ==
  ASSUME NEW k \in ClientTypes
  PROVE  ParseEvents(k, <<>>) = k
<1>1. <<>> \in Seq(EventTypes) /\ Len(<<>>) = 0
  OBVIOUS
<1>2. QED
  BY <1>1, ParseRuns DEF ParseEvents

\* One event more.
LEMMA ParseAppend ==
  ASSUME NEW k \in ClientTypes, NEW evs \in Seq(EventTypes), NEW ev \in EventTypes
  PROVE  /\ ParseEvents(k, evs) \in ClientTypes
         /\ ParseEvents(k, Append(evs, ev)) = ParseEvent(ParseEvents(k, evs), ev)
<1> DEFINE n == Len(evs)
           more == Append(evs, ev)
           F == Parsed(k, evs)
           G == Parsed(k, more)
           T == {i \in 0..n : F[i] = G[i]}
<1>1. /\ n \in Nat /\ more \in Seq(EventTypes) /\ Len(more) = n + 1
      /\ more[n + 1] = ev /\ \A i \in 1..n : more[i] = evs[i]
  BY AppendProperties
<1>2. F[0] = k /\ \A i \in 1..n : F[i] = ParseEvent(F[i - 1], evs[i])
  BY ParseRuns
<1>3. F[n] \in ClientTypes
  <2>1. n \in 0..n
    BY <1>1
  <2>2. QED
    BY <2>1, ParseRuns
<1>4. G[0] = k /\ \A i \in 1..(n + 1) : G[i] = ParseEvent(G[i - 1], more[i])
  <2> HIDE DEF more, n
  <2>1. QED
    BY <1>1, ParseRuns
<1> HIDE DEF F, G, more
<1>5. 0 \in T
  BY <1>1, <1>2, <1>4
<1>6. ASSUME NEW i \in 1..n, i - 1 \in T PROVE i \in T
  <2>1. F[i - 1] = G[i - 1] /\ more[i] = evs[i] /\ i \in 1..(n + 1) /\ i \in 0..n
    BY <1>1, <1>6
  <2>2. QED
    BY <1>2, <1>4, <2>1
<1> HIDE DEF T
<1>7. \A i \in 0..n : i \in T
  BY <1>1, <1>5, <1>6, UpTo
<1>8. n \in T
  BY <1>1, <1>7
<1>9. F[n] = G[n]
  BY <1>8 DEF T
<1>10. G[n + 1] = ParseEvent(G[n], ev)
  <2>1. n + 1 \in 1..(n + 1) /\ (n + 1) - 1 = n
    BY <1>1
  <2>2. QED
    BY <1>1, <1>4, <2>1
<1>11. ParseEvents(k, evs) = F[n]
  BY DEF ParseEvents, F
<1>12. ParseEvents(k, more) = G[n + 1]
  BY <1>1 DEF ParseEvents, G
<1>13. QED
  BY <1>3, <1>9, <1>10, <1>11, <1>12 DEF more

\* The client reads what the translator made of one piece.
LEMMA PieceRelayed ==
  ASSUME NEW k \in ClientTypes, NEW acc \in TranslationTypes, NEW p \in PieceTypes,
         Synced(ParseEvents(k, acc.events), acc.s), p.name => ~Belongs(acc.s, p)
  PROVE  LET c == ParseEvents(k, acc.events)
             a == Translate(acc, p)
             d == ParseEvents(k, a.events)
         IN /\ c \in ClientTypes /\ d \in ClientTypes /\ Synced(d, a.s)
            /\ d.got = c.got \o NameUnit(p) \o DeltaUnit(p) /\ d.stop = c.stop
            /\ d.nameless => c.nameless \/ (p.kind = "tool" /\ ~p.name /\ ~Belongs(acc.s, p))
<1> DEFINE s == acc.s
           e == acc.events
           c == ParseEvents(k, e)
           a == Translate(acc, p)
           d == ParseEvents(k, a.events)
           index == IF Belongs(s, p) THEN s.blockIndex ELSE s.blockIndex + 1
           stop == Event("content_block_stop", s.blockIndex, <<>>)
           start == BlockStart(p, index)
           delta == Event("content_block_delta", index, DeltaUnit(p))
           opened == IF Belongs(s, p) THEN e
                     ELSE IF s.open = "none" THEN Append(e, start)
                     ELSE Append(Append(e, stop), start)
           o == ParseEvents(k, opened)
<1>1. /\ s \in TranslatorTypes /\ e \in Seq(EventTypes) /\ s.blockIndex \in Int /\ index \in Int
      /\ s.open \in {"none", "text", "tool"}
  BY DEF TranslationTypes, TranslatorTypes
<1>2. /\ a.s = IF Belongs(s, p) THEN s ELSE Opened(s, p)
      /\ opened \in Seq(EventTypes)
      /\ a.events = IF DeltaUnit(p) = <<>> THEN opened ELSE Append(opened, delta)
  BY TranslateStep
<1>3. stop \in EventTypes /\ start \in EventTypes /\ delta \in EventTypes
  <2>1. <<>> \in Seq(Units) /\ "content_block_stop" \in EventNames /\ "content_block_delta" \in EventNames
    BY DEF EventNames
  <2>2. QED
    BY <1>1, <2>1, EventTyped, BlockStartTyped, PieceTyped
<1>4. c \in ClientTypes /\ c.got \in Seq(Units)
  BY <1>1, <1>3, ParseAppend, ClientTyped
<1>5. a.s.open = p.kind /\ a.s.blockIndex = index
  <2>1. CASE Belongs(s, p)
    BY <1>2, <2>1 DEF Belongs
  <2>2. CASE ~Belongs(s, p)
    <3>1. a.s = Opened(s, p)
      BY <1>2, <2>2
    <3>2. Opened(s, p).open = p.kind /\ Opened(s, p).blockIndex = s.blockIndex + 1
      BY <1>1, OpenedTyped
    <3>3. QED
      BY <2>2, <3>1, <3>2
  <2>3. QED
    BY <2>1, <2>2
<1>6. p.kind \in {"text", "tool"} /\ NameUnit(p) \in Seq(Units) /\ DeltaUnit(p) \in Seq(Units)
  BY PieceTyped
<1>7. Synced(c, s)
  OBVIOUS
<1> HIDE DEF s, e, a, start, stop, delta, index, c
<1>8. /\ o \in ClientTypes /\ o.phase = p.kind /\ o.next = index /\ o.stop = c.stop
      /\ o.got = c.got \o NameUnit(p)
      /\ o.nameless => c.nameless \/ (p.kind = "tool" /\ ~p.name /\ ~Belongs(s, p))
  <2>1. CASE Belongs(s, p)
    <3>1. o = c /\ index = s.blockIndex /\ s.open = p.kind
      BY <2>1 DEF c, index, Belongs
    <3>2. c.phase = p.kind /\ c.next = index
      BY <1>6, <1>7, <3>1 DEF Synced
    <3>3. c.got = c.got \o NameUnit(p)
      <4>1. NameUnit(p) = <<>>
        BY <2>1 DEF NameUnit, s
      <4>2. QED
        BY <1>4, <4>1
    <3>4. QED
      BY <1>4, <3>1, <3>2, <3>3
  <2>2. ASSUME NEW b \in ClientTypes, ~Belongs(s, p), b.phase = "between", b.next = index,
               o = ParseEvent(b, start), b.got = c.got, b.stop = c.stop, b.nameless = c.nameless
        PROVE  /\ o \in ClientTypes /\ o.phase = p.kind /\ o.next = index /\ o.stop = c.stop
               /\ o.got = c.got \o NameUnit(p)
               /\ o.nameless => c.nameless \/ (p.kind = "tool" /\ ~p.name /\ ~Belongs(s, p))
    <3>1. o = ParseEvent(b, BlockStart(p, b.next))
      BY <2>2 DEF start
    <3> DEFINE r == ParseEvent(b, BlockStart(p, b.next))
    <3>11. /\ r \in ClientTypes /\ r.phase = p.kind /\ r.next = b.next /\ r.stop = b.stop
           /\ r.got = b.got \o NameUnit(p)
           /\ r.nameless => b.nameless \/ (p.kind = "tool" /\ ~p.name)
      <4>1. b.phase = "between"
        BY <2>2
      <4> HIDE DEF opened, o
      <4>2. QED
        BY <4>1, ReadBlockStart
    <3>12. o = r
      BY <3>1
    <3> HIDE DEF o, r
    <3>2. /\ o \in ClientTypes /\ o.phase = p.kind /\ o.next = b.next /\ o.stop = b.stop
          /\ o.got = b.got \o NameUnit(p)
          /\ o.nameless => b.nameless \/ (p.kind = "tool" /\ ~p.name)
      BY <3>11, <3>12
    <3>3. QED
      BY <2>2, <3>2, Zenon
  <2>3. CASE ~Belongs(s, p) /\ s.open = "none"
    <3>1. c.phase = "between" /\ c.next = index
      BY <1>7, <2>3 DEF Synced, index
    <3>2. o = ParseEvent(c, start)
      <4>1. opened = Append(e, start)
        BY <2>3
      <4>2. ParseEvents(k, Append(e, start)) = ParseEvent(c, start)
        BY <1>1, <1>3, ParseAppend DEF c
      <4>3. QED
        BY <4>1, <4>2
    <3>3. QED
      BY <1>4, <2>2, <2>3, <3>1, <3>2
  <2>4. CASE ~Belongs(s, p) /\ s.open # "none"
    <3> DEFINE b == ParseEvent(c, stop)
    <3>1. c.phase \in {"text", "tool"} /\ c.next = s.blockIndex /\ index = c.next + 1
      BY <1>1, <1>7, <2>4 DEF Synced, index
    <3>2. stop = Event("content_block_stop", c.next, <<>>)
      BY <3>1 DEF stop
    <3>3. /\ b \in ClientTypes /\ b.phase = "between" /\ b.next = c.next + 1 /\ b.got = c.got
          /\ b.stop = c.stop /\ b.nameless = c.nameless
      BY <1>4, <3>1, <3>2, ReadBlockStop
    <3>4. o = ParseEvent(b, start)
      <4>1. opened = Append(Append(e, stop), start) /\ Append(e, stop) \in Seq(EventTypes)
        BY <1>1, <1>3, <2>4
      <4>2. ParseEvents(k, Append(e, stop)) = b
        BY <1>1, <1>3, ParseAppend DEF c
      <4>3. ParseEvents(k, Append(Append(e, stop), start)) = ParseEvent(ParseEvents(k, Append(e, stop)), start)
        BY <1>3, <4>1, ParseAppend
      <4>4. QED
        BY <4>1, <4>2, <4>3
    <3> HIDE DEF b
    <3>5. QED
      BY <2>2, <2>4, <3>1, <3>3, <3>4
  <2>5. QED
    BY <2>1, <2>3, <2>4
<1> HIDE DEF o
<1>9. CASE DeltaUnit(p) = <<>>
  <2>1. d = o
    BY <1>2, <1>9 DEF o
  <2>2. o.got = c.got \o NameUnit(p) \o DeltaUnit(p)
    <3>1. c.got \o NameUnit(p) \in Seq(Units)
      BY <1>4, <1>6
    <3>2. QED
      BY <1>8, <1>9, <3>1
  <2>3. Synced(d, a.s)
    BY <1>5, <1>6, <1>8, <2>1 DEF Synced
  <2>4. QED
    BY <1>4, <1>8, <2>1, <2>2, <2>3 DEF s, e, a, c
<1>10. CASE DeltaUnit(p) # <<>>
  <2>1. d = ParseEvent(o, delta)
    <3>1. a.events = Append(opened, delta)
      BY <1>2, <1>10
    <3>2. ParseEvents(k, Append(opened, delta)) = ParseEvent(o, delta)
      <4> HIDE DEF opened
      <4>1. QED
        BY <1>2, <1>3, ParseAppend DEF o
    <3>3. QED
      BY <3>1, <3>2
  <2>2. delta = Event("content_block_delta", o.next, DeltaUnit(p))
    BY <1>8 DEF delta
  <2> HIDE DEF d
  <2>3. /\ d \in ClientTypes /\ d.phase = o.phase /\ d.next = o.next /\ d.got = o.got \o DeltaUnit(p)
        /\ d.stop = o.stop /\ d.nameless = o.nameless
    BY <1>8, <1>10, <2>1, <2>2, ReadBlockDelta
  <2>4. Synced(d, a.s)
    BY <1>5, <1>6, <1>8, <2>3 DEF Synced
  <2>5. d.got = c.got \o NameUnit(p) \o DeltaUnit(p)
    BY <1>8, <2>3
  <2>6. QED
    BY <1>4, <1>8, <2>3, <2>4, <2>5 DEF s, e, a, c, d
<1>11. QED
  BY <1>9, <1>10

\* Appending. It stays unexpanded where the lemmas below are cited, so that the provers see
\* equations and no sequences.
Appended(a, b) == a \o b

LEMMA AppendedTyped ==
  ASSUME NEW a \in Seq(Units), NEW b \in Seq(Units)
  PROVE  Appended(a, b) \in Seq(Units)
BY DEF Appended

LEMMA AppendedAssociative ==
  ASSUME NEW a \in Seq(Units), NEW b \in Seq(Units), NEW c \in Seq(Units)
  PROVE  Appended(Appended(a, b), c) = Appended(a, Appended(b, c))
BY ConcatAssociative DEF Appended

\* What is appended in three steps is appended at once.
LEMMA FourJoined ==
  ASSUME NEW g \in Seq(Units), NEW u \in Seq(Units), NEW v \in Seq(Units), NEW w \in Seq(Units)
  PROVE  Appended(Appended(Appended(g, u), v), w) = Appended(g, Appended(Appended(u, v), w))
<1>1. Appended(u, v) \in Seq(Units)
  BY AppendedTyped
<1>2. Appended(Appended(g, u), v) = Appended(g, Appended(u, v))
  BY AppendedAssociative
<1>3. Appended(Appended(g, Appended(u, v)), w) = Appended(g, Appended(Appended(u, v), w))
  BY <1>1, AppendedAssociative
<1>4. QED
  BY <1>2, <1>3

\* A chunk reaches the client as its text, its blocks one after the other.
LEMMA ChunkRelayed ==
  ASSUME NEW s \in TranslatorTypes, NEW c \in ChunkTypes, NEW k \in ClientTypes, NEW b \in BOOLEAN,
         s.open = "tool" => s.sawTool, Fresh(s, c.pieces), Synced(k, s),
         \A i \in DOMAIN c.pieces :
           c.pieces[i].kind = "tool" /\ ~c.pieces[i].name => i = 1 /\ (b \/ Belongs(s, c.pieces[i]))
  PROVE  LET t == chunk(s, c)
             r == ParseEvents(k, t.events)
         IN /\ r \in ClientTypes /\ Synced(r, t.s)
            /\ r.got = k.got \o AuditText(c.pieces) /\ r.stop = k.stop
            /\ r.nameless => k.nameless \/ b
<1> DEFINE ps == c.pieces
           A(i) == Translated(s, ps)[i]
           R(i) == ParseEvents(k, A(i).events)
           Q(i) == /\ R(i) \in ClientTypes /\ Synced(R(i), A(i).s)
                   /\ R(i).got = k.got \o AuditTexts(ps)[i] /\ R(i).stop = k.stop
                   /\ R(i).nameless => k.nameless \/ b
           T == {i \in 0..Len(ps) : Q(i)}
<1>1. ps \in Seq(PieceTypes) /\ Len(ps) \in Nat /\ DOMAIN ps = 1..Len(ps)
      /\ \A i \in 1..Len(ps) : ps[i] \in PieceTypes
  BY DEF ChunkTypes
<1> HIDE DEF ps
<1>2. /\ A(0) = [s |-> s, events |-> <<>>]
      /\ \A i \in 1..Len(ps) : A(i) = Translate(A(i - 1), ps[i])
      /\ \A i \in 0..Len(ps) : A(i) \in TranslationTypes
  BY <1>1, TranslationRuns
<1>3. /\ AuditTexts(ps)[0] = <<>>
      /\ \A i \in 1..Len(ps) :
           AuditTexts(ps)[i] = AuditTexts(ps)[i - 1] \o NameUnit(ps[i]) \o DeltaUnit(ps[i])
      /\ \A i \in 0..Len(ps) : AuditTexts(ps)[i] \in Seq(Units)
  BY <1>1, TextRuns
<1>4. k.got \in Seq(Units)
  BY ClientTyped
<1>5. Q(0)
  <2>1. A(0).s = s /\ A(0).events = <<>>
    BY <1>2
  <2> HIDE DEF A
  <2>2. R(0) = k
    BY <2>1, ParseNone
  <2>3. k.got \o AuditTexts(ps)[0] = k.got
    BY <1>3, <1>4
  <2> HIDE DEF R
  <2>4. QED
    BY <2>1, <2>2, <2>3
<1>6. ASSUME NEW i \in 1..Len(ps), Q(i - 1) PROVE Q(i)
  <2> DEFINE a == A(i - 1)
             p == ps[i]
  <2>1. i - 1 \in 0..Len(ps) /\ a \in TranslationTypes /\ p \in PieceTypes /\ A(i) = Translate(a, p)
        /\ AuditTexts(ps)[i] = AuditTexts(ps)[i - 1] \o NameUnit(p) \o DeltaUnit(p)
        /\ AuditTexts(ps)[i - 1] \in Seq(Units)
    <3>1. i - 1 \in 0..Len(ps)
      BY <1>1
    <3>2. QED
      BY <1>1, <1>2, <1>3, <3>1
  <2>2. /\ i = 1 => a.s = s
        /\ i # 1 => /\ a.s.open = ps[i - 1].kind
                    /\ ps[i - 1].kind = "tool" => a.s.toolIndex = ps[i - 1].index
    <3>1. CASE i = 1
      BY <1>2, <3>1
    <3>2. CASE i # 1
      <4>1. i - 1 > 0
        BY <1>1, <3>2
      <4>2. QED
        BY <1>1, <2>1, <3>2, <4>1, TranslatedState, ZenonT(40)
    <3>3. QED
      BY <3>1, <3>2
  <2>3. p.name => ~Belongs(a.s, p)
    <3> SUFFICES ASSUME p.name, a.s.open = p.kind, p.kind = "tool" => a.s.toolIndex = p.index PROVE FALSE
      BY DEF Belongs
    <3>1. p.kind = "tool"
      BY <2>1, PieceTyped
    <3>2. /\ s.open = "tool" => s.toolIndex # p.index
          /\ \A j \in 1..(i - 1) : ps[j].kind = "tool" => ps[j].index # p.index
      BY <1>1 DEF Fresh, ps
    <3>3. CASE i = 1
      BY <2>2, <3>1, <3>2, <3>3
    <3>4. CASE i # 1
      <4>1. i - 1 \in 1..(i - 1)
        BY <1>1, <3>4
      <4>2. QED
        BY <2>2, <3>1, <3>2, <3>4, <4>1
    <3>5. QED
      BY <3>3, <3>4
  <2>4. p.kind = "tool" /\ ~p.name /\ ~Belongs(a.s, p) => b
    <3> SUFFICES ASSUME p.kind = "tool", ~p.name, ~Belongs(a.s, p) PROVE b
      OBVIOUS
    <3>1. i = 1 /\ (b \/ Belongs(s, p))
      BY <1>1 DEF ps
    <3>2. QED
      BY <2>2, <3>1
  <2>5. Synced(ParseEvents(k, a.events), a.s)
    BY <1>6
  <2> HIDE DEF a, p, A
  <2> DEFINE x == ParseEvents(k, a.events)
             y == ParseEvents(k, Translate(a, p).events)
  <2>6. /\ x \in ClientTypes /\ y \in ClientTypes /\ Synced(y, Translate(a, p).s)
        /\ y.got = x.got \o NameUnit(p) \o DeltaUnit(p) /\ y.stop = x.stop
        /\ y.nameless => x.nameless \/ (p.kind = "tool" /\ ~p.name /\ ~Belongs(a.s, p))
    BY <2>1, <2>3, <2>5, PieceRelayed
  <2>7. R(i - 1) = x /\ R(i) = y
    BY <2>1 DEF a
  <2>8. x.got = k.got \o AuditTexts(ps)[i - 1] /\ x.stop = k.stop /\ (x.nameless => k.nameless \/ b)
    BY <1>6, <2>7
  <2> HIDE DEF x, y, R
  <2>9. y.got = k.got \o AuditTexts(ps)[i]
    <3>1. PICK g, u, v, w \in Seq(Units) :
            g = k.got /\ u = AuditTexts(ps)[i - 1] /\ v = NameUnit(p) /\ w = DeltaUnit(p)
      BY <1>4, <2>1, PieceTyped
    <3>2. y.got = ((g \o u) \o v) \o w
      BY <2>6, <2>8, <3>1
    <3>3. AuditTexts(ps)[i] = (u \o v) \o w
      BY <2>1, <3>1
    <3>4. Appended(Appended(Appended(g, u), v), w) = Appended(g, Appended(Appended(u, v), w))
      BY FourJoined
    <3>5. QED
      BY <3>1, <3>2, <3>3, <3>4 DEF Appended
  <2>10. y.nameless => k.nameless \/ b
    BY <2>4, <2>6, <2>8
  <2>11. QED
    BY <2>1, <2>6, <2>7, <2>8, <2>9, <2>10
<1> HIDE DEF Q
<1>7. 0 \in T
  BY <1>1, <1>5
<1>8. ASSUME NEW i \in 1..Len(ps), i - 1 \in T PROVE i \in T
  BY <1>1, <1>6, <1>8
<1> HIDE DEF T
<1>9. \A i \in 0..Len(ps) : i \in T
  BY <1>1, <1>7, <1>8, UpTo
<1>10. Q(Len(ps))
  BY <1>1, <1>9 DEF T
<1>11. /\ chunk(s, c).events = A(Len(ps)).events
       /\ chunk(s, c).s.open = A(Len(ps)).s.open /\ chunk(s, c).s.blockIndex = A(Len(ps)).s.blockIndex
  BY ChunkState DEF ps
<1>12. AuditText(ps) = AuditTexts(ps)[Len(ps)]
  BY DEF AuditText
<1> HIDE DEF A
<1>13. QED
  BY <1>10, <1>11, <1>12 DEF Q, Synced, ps

\* The end of the engine's stream is the end of the client's message.
LEMMA EndRelayed ==
  ASSUME NEW s \in TranslatorTypes, NEW k \in ClientTypes, Synced(k, s)
  PROVE  LET r == ParseEvents(k, end(s))
         IN /\ r \in ClientTypes
            /\ r.phase = "ended" /\ r.got = k.got /\ r.stop = StopReason(s.finish, s.sawTool)
            /\ r.nameless = k.nameless
<1> DEFINE reason == StopReason(s.finish, s.sawTool)
           stop == Event("content_block_stop", s.blockIndex, <<>>)
           delta == [Event("message_delta", 0, <<>>) EXCEPT !.stop = reason]
           last == Event("message_stop", 0, <<>>)
           closed == closeBlock(s)
           b == ParseEvents(k, closed)
           m == ParseEvent(b, delta)
           r == ParseEvent(m, last)
<1>1. s.open \in {"none", "text", "tool"} /\ s.blockIndex \in Int
  BY DEF TranslatorTypes
<1>2. reason \in Stops
  BY DEF StopReason, stopReasonFromFinish, Stops, Finishes, TranslatorTypes
<1>3. stop \in EventTypes /\ last \in EventTypes
  <2>1. <<>> \in Seq(Units) /\ "content_block_stop" \in EventNames /\ "message_stop" \in EventNames
        /\ 0 \in Int
    BY DEF EventNames
  <2>2. QED
    BY <1>1, <2>1, EventTyped
<1> HIDE DEF reason
<1>4. delta \in EventTypes /\ delta.name = "message_delta" /\ delta.stop = reason
  <2>1. delta = [name |-> "message_delta", index |-> 0, kind |-> "", units |-> <<>>, stop |-> reason]
    <3>1. Event("message_delta", 0, <<>>)
            = [name |-> "message_delta", index |-> 0, kind |-> "", units |-> <<>>, stop |-> ""]
      BY DEF Event
    <3>2. PICK e : e = Event("message_delta", 0, <<>>)
      OBVIOUS
    <3>3. delta = [e EXCEPT !.stop = reason]
      BY <3>2
    <3> HIDE DEF delta
    <3>4. e = [name |-> "message_delta", index |-> 0, kind |-> "", units |-> <<>>, stop |-> ""]
      BY <3>1, <3>2
    <3>5. QED
      BY <3>3, <3>4
  <2>2. <<>> \in Seq(Units) /\ "message_delta" \in EventNames /\ 0 \in Int
    BY DEF EventNames
  <2> HIDE DEF delta
  <2>3. QED
    BY <1>2, <2>1, <2>2 DEF EventTypes
<1>5. last.name = "message_stop"
  BY DEF Event
<1>6. closed \in Seq(EventTypes)
  BY <1>3 DEF closeBlock
<1> HIDE DEF delta, last
<1>7. /\ b \in ClientTypes /\ b.phase = "between" /\ b.got = k.got /\ b.nameless = k.nameless
  <2>1. CASE s.open = "none"
    <3>1. closed = <<>>
      BY <2>1 DEF closeBlock
    <3>2. b = k
      BY <3>1, ParseNone
    <3>3. QED
      BY <2>1, <3>2 DEF Synced
  <2>2. CASE s.open # "none"
    <3>1. closed = <<stop>> /\ k.phase \in {"text", "tool"} /\ k.next = s.blockIndex
      BY <1>1, <2>2 DEF closeBlock, Synced
    <3>2. <<>> \in Seq(EventTypes) /\ closed = Append(<<>>, stop)
      BY <1>3, <3>1
    <3>3. b = ParseEvent(k, stop)
      BY <1>3, <3>2, ParseAppend, ParseNone, ZenonT(40)
    <3>4. stop = Event("content_block_stop", k.next, <<>>)
      BY <3>1
    <3>5. QED
      BY <3>1, <3>3, <3>4, ReadBlockStop
  <2>3. QED
    BY <2>1, <2>2
<1>8. ParseEvents(k, end(s)) = r
  <2>1. end(s) = closed \o <<delta, last>>
    BY DEF end, delta, last, reason
  <2> HIDE DEF closed
  <2>2. end(s) = Append(Append(closed, delta), last) /\ Append(closed, delta) \in Seq(EventTypes)
    BY <1>3, <1>4, <1>6, <2>1, AppendFacts
  <2>3. ParseEvents(k, Append(closed, delta)) = m
    BY <1>4, <1>6, ParseAppend
  <2>4. QED
    BY <1>3, <2>2, <2>3, ParseAppend, ZenonT(40)
<1> HIDE DEF b
<1>9. m = [phase |-> "ending", next |-> b.next, got |-> b.got, stop |-> reason, nameless |-> b.nameless]
  <2>1. m = [b EXCEPT !.phase = "ending", !.stop = reason]
    BY <1>4, <1>7 DEF ParseEvent
  <2>2. b = [phase |-> b.phase, next |-> b.next, got |-> b.got, stop |-> b.stop, nameless |-> b.nameless]
    BY <1>7, ClientShape
  <2>3. QED
    BY <2>1, <2>2
<1>10. r = [phase |-> "ended", next |-> b.next, got |-> b.got, stop |-> reason, nameless |-> b.nameless]
  <2>1. m.phase = "ending"
    BY <1>9
  <2>2. r = [m EXCEPT !.phase = "ended"]
    BY <1>5, <2>1 DEF ParseEvent
  <2>3. QED
    BY <1>9, <2>2
<1>11. r \in ClientTypes
  <2>1. b.next \in Int /\ b.got \in Seq(Units) /\ b.nameless \in BOOLEAN /\ "ended" \in Phases
    BY <1>7, ClientTyped, PhaseNames
  <2>2. QED
    BY <1>2, <1>10, <2>1 DEF ClientTypes
<1>12. QED
  BY <1>7, <1>8, <1>10, <1>11 DEF reason

-----------------------------------------------------------------------------
(* The text of a chunk and what the audit keeps of it.                     *)

LEMMA TextTyped ==
  ASSUME NEW ps \in Seq(PieceTypes)
  PROVE  AuditText(ps) \in Seq(Units) /\ (ps = <<>> => AuditText(ps) = <<>>)
<1>1. Len(ps) \in Nat /\ Len(ps) \in 0..Len(ps) /\ (ps = <<>> => Len(ps) = 0)
  OBVIOUS
<1>2. QED
  BY <1>1, TextRuns DEF AuditText

LEMMA CalledConcat ==
  ASSUME NEW s \in Seq(Units), NEW t \in Seq(Units)
  PROVE  CalledTools(s \o t) <=> CalledTools(s) \/ CalledTools(t)
<1>1. /\ s \o t \in Seq(Units) /\ Len(s \o t) = Len(s) + Len(t)
      /\ \A i \in 1..Len(s) + Len(t) : (s \o t)[i] = IF i <= Len(s) THEN s[i] ELSE t[i - Len(s)]
  BY ConcatProperties
<1>2. /\ Len(s) \in Nat /\ Len(t) \in Nat /\ DOMAIN s = 1..Len(s) /\ DOMAIN t = 1..Len(t)
      /\ DOMAIN (s \o t) = 1..Len(s) + Len(t)
  BY <1>1, LenProperties
<1>3. ASSUME CalledTools(s \o t) PROVE CalledTools(s) \/ CalledTools(t)
  <2>1. PICK i \in 1..Len(s) + Len(t) : (s \o t)[i][1] = "name"
    BY <1>2, <1>3 DEF CalledTools
  <2>2. CASE i <= Len(s)
    BY <1>1, <1>2, <2>1, <2>2 DEF CalledTools
  <2>3. CASE ~(i <= Len(s))
    <3>1. i - Len(s) \in DOMAIN t /\ t[i - Len(s)][1] = "name"
      BY <1>1, <1>2, <2>1, <2>3
    <3>2. QED
      BY <3>1 DEF CalledTools
  <2>4. QED
    BY <2>2, <2>3
<1>4. ASSUME CalledTools(s) PROVE CalledTools(s \o t)
  BY <1>1, <1>2, <1>4 DEF CalledTools
<1>5. ASSUME CalledTools(t) PROVE CalledTools(s \o t)
  <2>1. PICK i \in 1..Len(t) : t[i][1] = "name"
    BY <1>2, <1>5 DEF CalledTools
  <2>2. /\ Len(s) + i \in 1..Len(s) + Len(t) /\ ~(Len(s) + i <= Len(s))
        /\ (Len(s) + i) - Len(s) = i
    BY <1>2, <2>1
  <2>3. (s \o t)[Len(s) + i] = t[i]
    BY <1>1, <2>2
  <2>4. QED
    BY <1>2, <2>1, <2>2, <2>3 DEF CalledTools
<1>6. QED
  BY <1>3, <1>4, <1>5

\* The text shows a call exactly if a piece names one.
LEMMA CalledText ==
  ASSUME NEW ps \in Seq(PieceTypes)
  PROVE  CalledTools(AuditText(ps)) <=> \E i \in DOMAIN ps : ps[i].name
<1> DEFINE t(i) == AuditTexts(ps)[i]
           Named(i) == \E j \in 1..i : ps[j].name
           T == {i \in 0..Len(ps) : CalledTools(t(i)) <=> Named(i)}
<1>1. Len(ps) \in Nat /\ DOMAIN ps = 1..Len(ps) /\ \A i \in 1..Len(ps) : ps[i] \in PieceTypes
  OBVIOUS
<1>2. /\ t(0) = <<>>
      /\ \A i \in 1..Len(ps) : t(i) = t(i - 1) \o NameUnit(ps[i]) \o DeltaUnit(ps[i])
      /\ \A i \in 0..Len(ps) : t(i) \in Seq(Units)
  BY TextRuns
<1> HIDE DEF t
<1>3. 0 \in T
  BY <1>1, <1>2 DEF CalledTools
<1>4. ASSUME NEW i \in 1..Len(ps), i - 1 \in T PROVE i \in T
  <2>1. i - 1 \in 0..Len(ps) /\ i \in 0..Len(ps) /\ t(i - 1) \in Seq(Units) /\ ps[i] \in PieceTypes
    BY <1>1, <1>2
  <2>2. PICK x, u, v \in Seq(Units) : x = t(i - 1) /\ u = NameUnit(ps[i]) /\ v = DeltaUnit(ps[i])
    BY <2>1, PieceTyped
  <2>3. (x \o u) \o v = x \o (u \o v)
    <3>1. Appended(Appended(x, u), v) = Appended(x, Appended(u, v))
      BY AppendedAssociative
    <3>2. QED
      BY <3>1 DEF Appended
  <2>4. PICK uv \in Seq(Units) : uv = u \o v
    BY ConcatProperties
  <2>5. t(i) = x \o uv
    BY <1>2, <2>2, <2>3, <2>4
  <2>6. CalledTools(t(i)) <=> CalledTools(x) \/ CalledTools(uv)
    BY <2>5, CalledConcat
  <2>7. CalledTools(uv) <=> ps[i].name
    BY <2>1, <2>2, <2>4, PieceTyped
  <2>8. CalledTools(x) <=> Named(i - 1)
    BY <1>4, <2>2
  <2>9. Named(i) <=> Named(i - 1) \/ ps[i].name
    <3>1. 1..i = (1..(i - 1)) \cup {i}
      BY <1>1
    <3>2. QED
      BY <3>1
  <2> HIDE DEF Named
  <2>10. CalledTools(t(i)) <=> Named(i)
    BY <2>6, <2>7, <2>8, <2>9
  <2>11. QED
    BY <2>1, <2>10
<1>5. \A i \in 0..Len(ps) : i \in T
  <2> HIDE DEF T
  <2>1. QED
    BY <1>1, <1>3, <1>4, UpTo
<1>6. CalledTools(t(Len(ps))) <=> Named(Len(ps))
  BY <1>1, <1>5
<1>7. QED
  BY <1>1, <1>6 DEF AuditText, t

\* The first n elements.
LEMMA Firsts ==
  ASSUME NEW S, NEW s \in Seq(S), NEW n \in 0..Len(s)
  PROVE  /\ SubSeq(s, 1, n) \in Seq(S) /\ Len(SubSeq(s, 1, n)) = n
         /\ \A i \in 1..n : SubSeq(s, 1, n)[i] = s[i]
<1>1. Len(s) \in Nat /\ n \in Int /\ 1 \in Int /\ \A i \in 1..n : s[i] \in S
  OBVIOUS
<1>2. /\ SubSeq(s, 1, n) \in Seq(S)
      /\ Len(SubSeq(s, 1, n)) = IF 1 <= n THEN n - 1 + 1 ELSE 0
      /\ \A i \in 1..(n - 1 + 1) : SubSeq(s, 1, n)[i] = s[1 + i - 1]
  BY <1>1, SubSeqProperties
<1>3. n - 1 + 1 = n /\ \A i \in 1..n : 1 + i - 1 = i
  BY <1>1
<1>4. QED
  BY <1>1, <1>2, <1>3

LEMMA PrefixMeans ==
  ASSUME NEW S, NEW s \in Seq(S), NEW t \in Seq(S)
  PROVE  IsPrefix(s, t) <=> Len(s) <= Len(t) /\ \A i \in 1..Len(s) : s[i] = t[i]
<1>1. Len(s) \in Nat /\ Len(t) \in Nat
  OBVIOUS
<1>2. CASE Len(s) <= Len(t)
  <2>1. Len(s) \in 0..Len(s) /\ Len(s) \in 0..Len(t)
    BY <1>1, <1>2
  <2> DEFINE x == SubSeq(s, 1, Len(s))
             y == SubSeq(t, 1, Len(s))
  <2>2. x \in Seq(S) /\ Len(x) = Len(s) /\ \A i \in 1..Len(s) : x[i] = s[i]
    BY <2>1, Firsts
  <2>3. y \in Seq(S) /\ Len(y) = Len(s) /\ \A i \in 1..Len(s) : y[i] = t[i]
    BY <2>1, Firsts
  <2>4. IsPrefix(s, t) <=> x = y
    BY <1>2 DEF IsPrefix
  <2> HIDE DEF x, y
  <2>5. x = y => \A i \in 1..Len(s) : s[i] = t[i]
    BY <2>2, <2>3
  <2>6. ASSUME \A i \in 1..Len(s) : s[i] = t[i] PROVE x = y
    <3>1. Len(x) = Len(y) /\ \A i \in 1..Len(x) : x[i] = y[i]
      BY <2>2, <2>3, <2>6
    <3>2. QED
      BY <2>2, <2>3, <3>1, SeqEqual
  <2>7. QED
    BY <1>2, <2>4, <2>5, <2>6
<1>3. QED
  BY <1>2 DEF IsPrefix

LEMMA TruncTyped ==
  ASSUME NEW g \in Seq(Units)
  PROVE  /\ Trunc(g) \in Seq(Units)
         /\ Len(Trunc(g)) = IF Len(g) <= AuditLimit THEN Len(g) ELSE AuditLimit
         /\ \A i \in 1..Len(Trunc(g)) : Trunc(g)[i] = g[i]
         /\ g = <<>> => Trunc(g) = <<>>
<1>1. Len(g) \in Nat /\ AuditLimit \in Nat
  BY CompletionAssumption
<1>2. PICK n \in 0..Len(g) : n = Min({Len(g), AuditLimit})
                             /\ n = IF Len(g) <= AuditLimit THEN Len(g) ELSE AuditLimit
  BY <1>1, MinOfTwo
<1>3. SubSeq(g, 1, n) \in Seq(Units) /\ Len(SubSeq(g, 1, n)) = n
      /\ \A i \in 1..n : SubSeq(g, 1, n)[i] = g[i]
  BY <1>2, Firsts
<1>4. Trunc(g) = SubSeq(g, 1, n)
  BY <1>2 DEF Trunc
<1> HIDE DEF Trunc
<1>5. g = <<>> => Trunc(g) = <<>>
  <2>1. g = <<>> => Len(Trunc(g)) = 0
    BY <1>1, <1>2, <1>3, <1>4
  <2>2. QED
    BY <1>3, <1>4, <2>1, EmptySeq
<1>6. QED
  BY <1>2, <1>3, <1>4, <1>5

\* streamAudit.write appends what fits.
LEMMA AuditWritten ==
  ASSUME NEW a \in Seq(Units), NEW u \in Seq(Units), Len(a) <= AuditLimit
  PROVE  LET w == auditWrite(a, u)
         IN /\ w \in Seq(Units)
            /\ Len(w) = IF Len(a) + Len(u) <= AuditLimit THEN Len(a) + Len(u) ELSE AuditLimit
            /\ \A i \in 1..Len(w) : w[i] = IF i <= Len(a) THEN a[i] ELSE u[i - Len(a)]
            /\ IsPrefix(a, w)
<1>1. Len(a) \in Nat /\ Len(u) \in Nat /\ AuditLimit \in Nat
  BY CompletionAssumption
<1>2. AuditLimit - Len(a) \in Int
  BY <1>1
<1>3. PICK n \in 0..Len(u) :
         /\ n = Min({Len(u), AuditLimit - Len(a)})
         /\ n = IF Len(u) <= AuditLimit - Len(a) THEN Len(u) ELSE AuditLimit - Len(a)
  BY <1>1, <1>2, MinOfTwo, SMTT(30)
<1>4. PICK x \in Seq(Units) : x = SubSeq(u, 1, n) /\ Len(x) = n /\ \A i \in 1..n : x[i] = u[i]
  <2>1. /\ SubSeq(u, 1, n) \in Seq(Units) /\ Len(SubSeq(u, 1, n)) = n
        /\ \A i \in 1..n : SubSeq(u, 1, n)[i] = u[i]
    BY <1>3, Firsts
  <2>2. QED
    BY <2>1
<1>5. auditWrite(a, u) = a \o x
  BY <1>3, <1>4 DEF auditWrite
<1>6. PICK w \in Seq(Units) : w = auditWrite(a, u) /\ w = a \o x
  BY <1>5, ConcatProperties
<1>7. Len(w) = Len(a) + n
      /\ \A i \in 1..(Len(a) + n) : w[i] = IF i <= Len(a) THEN a[i] ELSE x[i - Len(a)]
  BY <1>4, <1>6, ConcatProperties
<1>8. Len(w) = IF Len(a) + Len(u) <= AuditLimit THEN Len(a) + Len(u) ELSE AuditLimit
  BY <1>1, <1>3, <1>7
<1>9. ASSUME NEW i \in 1..Len(w) PROVE w[i] = IF i <= Len(a) THEN a[i] ELSE u[i - Len(a)]
  <2>1. ~(i <= Len(a)) => i - Len(a) \in 1..n
    BY <1>1, <1>3, <1>7
  <2>2. QED
    BY <1>4, <1>7, <1>9, <2>1
<1>10. IsPrefix(a, w)
  <2>1. Len(a) <= Len(w) /\ \A i \in 1..Len(a) : a[i] = w[i]
    <3>1. n \in Nat
      BY <1>1, <1>3
    <3>2. Len(a) <= Len(w)
      BY <1>1, <1>7, <3>1
    <3>3. ASSUME NEW i \in 1..Len(a) PROVE i \in 1..(Len(a) + n) /\ i <= Len(a)
      BY <1>1, <3>1
    <3>4. QED
      BY <1>7, <3>2, <3>3
  <2>2. QED
    BY <2>1, PrefixMeans
<1>11. QED
  BY <1>6, <1>8, <1>9, <1>10

\* The audit of more text is the audit, with what fits of the text.
LEMMA TruncGrows ==
  ASSUME NEW g \in Seq(Units), NEW u \in Seq(Units)
  PROVE  auditWrite(Trunc(g), u) = Trunc(g \o u)
<1>1. Len(g) \in Nat /\ Len(u) \in Nat /\ AuditLimit \in Nat
  BY CompletionAssumption
<1>2. PICK a \in Seq(Units) : a = Trunc(g)
  BY TruncTyped
<1>3. Len(a) = (IF Len(g) <= AuditLimit THEN Len(g) ELSE AuditLimit) /\ \A i \in 1..Len(a) : a[i] = g[i]
  BY <1>2, TruncTyped
<1>4. PICK w \in Seq(Units) :
        /\ w = auditWrite(a, u)
        /\ Len(w) = IF Len(a) + Len(u) <= AuditLimit THEN Len(a) + Len(u) ELSE AuditLimit
        /\ \A i \in 1..Len(w) : w[i] = IF i <= Len(a) THEN a[i] ELSE u[i - Len(a)]
  <2>1. Len(a) <= AuditLimit
    BY <1>1, <1>3
  <2>2. QED
    BY <2>1, AuditWritten
<1>5. PICK h \in Seq(Units) : h = g \o u /\ Len(h) = Len(g) + Len(u)
        /\ \A i \in 1..Len(g) + Len(u) : h[i] = IF i <= Len(g) THEN g[i] ELSE u[i - Len(g)]
  <2>1. PICK h : h = g \o u
    OBVIOUS
  <2>2. h \in Seq(Units) /\ Len(h) = Len(g) + Len(u)
        /\ \A i \in 1..Len(g) + Len(u) : h[i] = IF i <= Len(g) THEN g[i] ELSE u[i - Len(g)]
    BY <2>1, ConcatProperties
  <2>3. QED
    BY <2>1, <2>2
<1>6. PICK t \in Seq(Units) :
        /\ t = Trunc(h) /\ Len(t) = IF Len(h) <= AuditLimit THEN Len(h) ELSE AuditLimit
        /\ \A i \in 1..Len(t) : t[i] = h[i]
  BY TruncTyped
<1>7. Len(w) = Len(t)
  BY <1>1, <1>3, <1>4, <1>5, <1>6
<1>8. ASSUME NEW i \in 1..Len(w) PROVE w[i] = t[i]
  <2>1. t[i] = h[i] /\ h[i] = IF i <= Len(g) THEN g[i] ELSE u[i - Len(g)]
    BY <1>1, <1>5, <1>6, <1>7
  <2>2. CASE i <= Len(a)
    <3>1. i \in 1..Len(a) /\ i <= Len(g)
      BY <1>1, <1>3, <2>2
    <3>2. QED
      BY <1>3, <1>4, <2>1, <2>2, <3>1
  <2>3. CASE ~(i <= Len(a))
    <3>1. Len(a) = Len(g)
      BY <1>1, <1>3, <1>4, <2>3
    <3>2. QED
      BY <1>4, <2>1, <2>3, <3>1
  <2>4. QED
    BY <2>2, <2>3
<1>9. w = t
  BY <1>7, <1>8, SeqEqual
<1>10. QED
  BY <1>2, <1>4, <1>5, <1>6, <1>9

LEMMA PrefixGrows ==
  ASSUME NEW a \in Seq(Units), NEW b \in Seq(Units), NEW c \in Seq(Units),
         IsPrefix(a, b), IsPrefix(b, c)
  PROVE  IsPrefix(a, c)
<1>1. Len(a) \in Nat /\ Len(b) \in Nat /\ Len(c) \in Nat
  OBVIOUS
<1>2. Len(a) <= Len(b) /\ Len(b) <= Len(c)
      /\ (\A i \in 1..Len(a) : a[i] = b[i]) /\ (\A i \in 1..Len(b) : b[i] = c[i])
  BY PrefixMeans
<1>3. Len(a) <= Len(c) /\ \A i \in 1..Len(a) : a[i] = c[i]
  BY <1>1, <1>2
<1>4. QED
  BY <1>3, PrefixMeans

LEMMA PrefixOfSelf ==
  ASSUME NEW a \in Seq(Units) PROVE IsPrefix(a, a)
BY PrefixMeans

-----------------------------------------------------------------------------
(* The frames that are not blocks.                                         *)

\* Only the phase moves.
PhaseMoves(k, phase, r) ==
  /\ r \in ClientTypes /\ r.phase = phase
  /\ r.next = k.next /\ r.got = k.got /\ r.stop = k.stop /\ r.nameless = k.nameless

LEMMA PhaseSet ==
  ASSUME NEW k \in ClientTypes, NEW phase \in Phases
  PROVE  PhaseMoves(k, phase, [k EXCEPT !.phase = phase])
<1>1. PICK r : r = [k EXCEPT !.phase = phase]
  OBVIOUS
<1>2. r = [phase |-> phase, next |-> k.next, got |-> k.got, stop |-> k.stop, nameless |-> k.nameless]
  BY <1>1, ClientShape
<1>3. r \in ClientTypes
  BY <1>2, ClientTyped, ClientUpdate
<1>4. QED
  BY <1>1, <1>2, <1>3 DEF PhaseMoves

LEMMA StartRead ==
  ASSUME NEW k \in ClientTypes, k.phase = "waiting"
  PROVE  PhaseMoves(k, "between", ParseEvent(k, Event("message_start", 0, <<>>)))
<1>1. Event("message_start", 0, <<>>).name = "message_start"
  BY DEF Event
<1>2. ParseEvent(k, Event("message_start", 0, <<>>)) = [k EXCEPT !.phase = "between"]
  BY <1>1 DEF ParseEvent
<1>3. QED
  BY <1>2, PhaseSet, PhaseNames

LEMMA ErrorRead ==
  ASSUME NEW k \in ClientTypes, k.phase \in InStream \cup {"waiting"}
  PROVE  PhaseMoves(k, "failed", ParseEvent(k, Event("error", 0, <<>>)))
<1>1. PICK ev : ev = Event("error", 0, <<>>)
  OBVIOUS
<1>2. ev.name = "error"
  BY <1>1 DEF Event
<1>3. ParseEvent(k, ev) = [k EXCEPT !.phase = "failed"]
  BY <1>2 DEF ParseEvent
<1>4. QED
  BY <1>1, <1>3, PhaseSet, PhaseNames

LEMMA BadRead ==
  ASSUME NEW k \in ClientTypes PROVE PhaseMoves(k, "bad", Bad(k))
BY PhaseSet, PhaseNames DEF Bad

LEMMA ErrorFramed ==
  ASSUME NEW k \in ClientTypes, k.phase \in {"open", "error"}
  PROVE  PhaseMoves(k, "error", ParseFrame(k, ErrorFrame))
<1>1. PICK f : f = ErrorFrame
  OBVIOUS
<1>2. f.name = "error"
  BY <1>1 DEF ErrorFrame, Frame
<1>3. ParseFrame(k, f) = [k EXCEPT !.phase = "error"]
  BY <1>2 DEF ParseFrame
<1>4. QED
  BY <1>1, <1>3, PhaseSet, PhaseNames

LEMMA DoneFramed ==
  ASSUME NEW k \in ClientTypes, k.phase \in {"open", "error"}
  PROVE  PhaseMoves(k, IF k.phase = "open" THEN "ended" ELSE "failed", ParseFrame(k, DoneFrame))
<1>1. PICK f : f = DoneFrame
  OBVIOUS
<1>2. f.name = "[DONE]"
  BY <1>1 DEF DoneFrame, Frame
<1>3. CASE k.phase = "open"
  <2>1. ParseFrame(k, f) = [k EXCEPT !.phase = "ended"]
    BY <1>2, <1>3 DEF ParseFrame
  <2>2. QED
    BY <1>1, <1>3, <2>1, PhaseSet, PhaseNames
<1>4. CASE k.phase = "error"
  <2>1. ParseFrame(k, f) = [k EXCEPT !.phase = "failed"]
    BY <1>2, <1>4 DEF ParseFrame
  <2>2. PhaseMoves(k, "failed", ParseFrame(k, f))
    BY <2>1, PhaseSet, PhaseNames
  <2>3. (IF k.phase = "open" THEN "ended" ELSE "failed") = "failed"
    BY <1>4
  <2>4. QED
    BY <1>1, <2>2, <2>3
<1>5. QED
  BY <1>3, <1>4

\* A client that got something and perhaps a reason.
GotIt(k, phase, got, stop) == [k EXCEPT !.phase = phase, !.got = got, !.stop = stop]

LEMMA ClientReads ==
  ASSUME NEW k \in ClientTypes, NEW phase \in Phases, NEW got \in Seq(Units), NEW stop \in Stops
  PROVE  LET r == GotIt(k, phase, got, stop)
         IN /\ r \in ClientTypes /\ r.phase = phase /\ r.next = k.next /\ r.got = got
            /\ r.stop = stop /\ r.nameless = k.nameless
<1>1. PICK r : r = GotIt(k, phase, got, stop) /\ r = [k EXCEPT !.phase = phase, !.got = got, !.stop = stop]
  BY DEF GotIt
<1>2. DOMAIN k = {"phase", "next", "got", "stop", "nameless"}
  BY DEF ClientTypes
<1>3. DOMAIN r = {"phase", "next", "got", "stop", "nameless"}
  BY <1>1, <1>2
<1>4. r.phase = phase /\ r.next = k.next /\ r.got = got /\ r.stop = stop /\ r.nameless = k.nameless
  BY <1>1, <1>2
<1>5. r = [phase |-> r.phase, next |-> r.next, got |-> r.got, stop |-> r.stop, nameless |-> r.nameless]
  BY <1>1, <1>3
<1>6. r.next \in Int /\ r.nameless \in BOOLEAN
  BY <1>4, ClientTyped
<1>7. r \in ClientTypes
  BY <1>4, <1>5, <1>6 DEF ClientTypes
<1>8. QED
  BY <1>1, <1>4, <1>7

LEMMA ChunkFramed ==
  ASSUME NEW k \in ClientTypes, NEW c \in ChunkTypes, k.phase = "open"
  PROVE  LET r == ParseFrame(k, Frame("chunk", c))
         IN /\ r \in ClientTypes /\ r.phase = "open" /\ r.got = k.got \o AuditText(c.pieces)
            /\ r.stop = LastFinish(k.stop, c.finish) /\ r.nameless = k.nameless
<1>1. c.pieces \in Seq(PieceTypes) /\ c.finish \in Finishes
  BY DEF ChunkTypes
<1>2. PICK u \in Seq(Units) : u = AuditText(c.pieces)
  BY <1>1, TextTyped
<1>3. PICK f : f = Frame("chunk", c)
  OBVIOUS
<1>4. f.name = "chunk" /\ f.units = u /\ f.stop = c.finish
  BY <1>2, <1>3 DEF Frame
<1>5. PICK stop \in Stops : stop = LastFinish(k.stop, c.finish)
  BY <1>1, ClientTyped DEF LastFinish, Stops
<1>6. k.got \in Seq(Units)
  BY ClientTyped
<1>7. PICK got \in Seq(Units) : got = k.got \o u
  BY <1>6, ConcatProperties
<1>8. ParseFrame(k, f) = [k EXCEPT !.phase = "open", !.got = got, !.stop = stop]
  <2>1. (IF f.stop = "" THEN k.stop ELSE f.stop) = stop
    BY <1>4, <1>5 DEF LastFinish
  <2>2. k.got \o f.units = got
    BY <1>4, <1>7
  <2>3. ParseFrame(k, f) = [k EXCEPT !.got = @ \o f.units, !.stop = IF f.stop = "" THEN @ ELSE f.stop]
    BY <1>4 DEF ParseFrame
  <2>4. PICK r : r = ParseFrame(k, f)
    OBVIOUS
  <2>5. r = [k EXCEPT !.got = got, !.stop = stop]
    BY <2>1, <2>2, <2>3, <2>4
  <2>6. r = [k EXCEPT !.phase = "open", !.got = got, !.stop = stop]
    BY <2>5
  <2>7. QED
    BY <2>4, <2>6
<1>9. PICK r : r = ParseFrame(k, f)
  OBVIOUS
<1>10. r \in ClientTypes /\ r.phase = "open" /\ r.got = got /\ r.stop = stop /\ r.nameless = k.nameless
  <2>1. PICK open \in Phases : open = "open"
    BY PhaseNames
  <2>2. r = GotIt(k, open, got, stop)
    BY <1>8, <1>9, <2>1 DEF GotIt
  <2>3. r \in ClientTypes /\ r.phase = open /\ r.got = got /\ r.stop = stop /\ r.nameless = k.nameless
    BY <2>2, ClientReads
  <2>4. QED
    BY <2>1, <2>3
<1>11. QED
  BY <1>2, <1>3, <1>5, <1>7, <1>9, <1>10

-----------------------------------------------------------------------------
(* What an engine sends.                                                   *)

Named(c) == {i \in DOMAIN c.pieces : c.pieces[i].name}

\* A chunk continues the stream: a name starts the call of a new number, and
\* only the first piece may go on with a call that has been named before.
Continues(c) ==
  /\ c \in ChunkTypes /\ Len(c.pieces) <= 3
  /\ NewCalls(c) \in Nat /\ (NewCalls(c) > 0 <=> \E i \in DOMAIN c.pieces : c.pieces[i].name)
  /\ \A i \in DOMAIN c.pieces : c.pieces[i].name =>
       /\ c.pieces[i].index >= engine.calls
       /\ \A j \in 1..(i - 1) : c.pieces[j].kind = "tool" => c.pieces[j].index # c.pieces[i].index
  /\ \A i \in DOMAIN c.pieces : c.pieces[i].kind = "tool" =>
       /\ c.pieces[i].index < engine.calls + NewCalls(c)
       /\ ~c.pieces[i].name => i = 1 /\ c.pieces[i].index < engine.calls

LEMMA CallsCounted ==
  ASSUME NEW c \in ChunkTypes
  PROVE  /\ NewCalls(c) \in Nat
         /\ NewCalls(c) > 0 <=> \E i \in DOMAIN c.pieces : c.pieces[i].name
<1>1. c.pieces \in Seq(PieceTypes)
  BY DEF ChunkTypes
<1>2. Len(c.pieces) \in Int /\ 1 \in Int /\ DOMAIN c.pieces = 1..Len(c.pieces)
  BY <1>1
<1>3. IsFiniteSet(DOMAIN c.pieces)
  BY <1>2, FS_Interval
<1>4. Named(c) \in SUBSET DOMAIN c.pieces
  BY DEF Named
<1>5. IsFiniteSet(Named(c))
  BY <1>3, <1>4, FS_Subset
<1>6. Cardinality(Named(c)) \in Nat /\ (Cardinality(Named(c)) = 0 <=> Named(c) = {})
  BY <1>5, FS_CardinalityType, FS_EmptySet
<1>7. NewCalls(c) = Cardinality(Named(c))
  BY DEF NewCalls, Named
<1>8. Named(c) # {} <=> \E i \in DOMAIN c.pieces : c.pieces[i].name
  BY DEF Named
<1>9. QED
  BY <1>6, <1>7, <1>8

LEMMA PiecesTyped ==
  ASSUME NEW n \in Numbers, NEW i \in Nat, NEW name \in BOOLEAN, NEW args \in BOOLEAN
  PROVE  /\ Text(n) \in PieceTypes /\ Text(n).kind = "text" /\ ~Text(n).name
         /\ ToolCall(i, name, args, n) \in PieceTypes /\ ToolCall(i, name, args, n).kind = "tool"
         /\ (ToolCall(i, name, args, n).name <=> name) /\ ToolCall(i, name, args, n).index = i
<1>1. Text(n) \in TextPieces /\ Text(n).kind = "text" /\ ~Text(n).name
  BY DEF Text, TextPieces
<1>2. ToolCall(i, name, args, n) \in ToolPieces
  BY DEF ToolCall, ToolPieces
<1>3. /\ ToolCall(i, name, args, n).kind = "tool"
      /\ (ToolCall(i, name, args, n).name <=> name) /\ ToolCall(i, name, args, n).index = i
  BY DEF ToolCall
<1>4. QED
  BY <1>1, <1>2, <1>3 DEF PieceTypes

EngineCounts == engine.calls \in Nat /\ engine.sent \in Nat

\* Text, if any, and then whole calls.
TextOrNone == {<<>>, <<Text(engine.sent + 1)>>}
WholeCalls(text, m, finish) == [pieces |-> text \o Calls(m, Len(text)), finish |-> finish]

LEMMA TextLength ==
  ASSUME NEW text \in TextOrNone
  PROVE  Len(text) \in 0..1 /\ (text # <<>> => text = <<Text(engine.sent + 1)>> /\ Len(text) = 1)
<1>1. text = <<>> \/ text = <<Text(engine.sent + 1)>>
  BY DEF TextOrNone
<1>2. CASE text = <<>>
  BY <1>2
<1>3. CASE text = <<Text(engine.sent + 1)>>
  BY <1>3
<1>4. QED
  BY <1>1, <1>2, <1>3

LEMMA CallsContinue ==
  ASSUME EngineCounts, NEW text \in TextOrNone, NEW m \in 0..2,
         NEW finish \in Finishes, engine.sent + Len(text) + m <= MaxPieces + 3,
         NEW c, c = WholeCalls(text, m, finish)
  PROVE  /\ Continues(c) /\ Len(c.pieces) = Len(text) + m
         /\ \A i \in DOMAIN c.pieces : c.pieces[i].kind = "tool" <=> c.pieces[i].name
         /\ NewCalls(c) = m
<1>1. MaxPieces \in Nat
  BY CompletionAssumption
<1>2. PICK l \in 0..1 : l = Len(text)
  BY TextLength
<1>3. text \in Seq(PieceTypes) /\ (l = 1 => text[1].kind = "text" /\ ~text[1].name)
  <2>1. CASE text = <<>>
    BY <1>2, <2>1
  <2>2. CASE text # <<>>
    <3>1. text = <<Text(engine.sent + 1)>> /\ l = 1
      BY <1>2, <2>2, TextLength
    <3>2. engine.sent + 1 \in Numbers
      BY <1>1, <1>2, <3>1 DEF EngineCounts, Numbers
    <3>3. PICK p : p = Text(engine.sent + 1)
      OBVIOUS
    <3>4. p \in PieceTypes /\ p.kind = "text" /\ ~p.name
      BY <3>2, <3>3, PiecesTyped
    <3>5. text = <<p>>
      BY <3>1, <3>3
    <3>6. QED
      BY <3>4, <3>5
  <2>3. QED
    BY <2>1, <2>2
<1>4. PICK calls : calls = Calls(m, l)
  OBVIOUS
<1>5. ASSUME NEW i \in 1..m
      PROVE  /\ calls[i] \in PieceTypes /\ calls[i].kind = "tool" /\ calls[i].name
             /\ calls[i].index = engine.calls + i - 1
  <2>1. engine.calls + i - 1 \in Nat /\ engine.sent + l + i \in Numbers
    BY <1>1, <1>2, SMTT(30) DEF EngineCounts, Numbers
  <2>2. calls[i] = ToolCall(engine.calls + i - 1, TRUE, TRUE, engine.sent + l + i)
    BY <1>4 DEF Calls, CallIndex
  <2>3. PICK a \in Nat, n \in Numbers, b \in BOOLEAN :
          a = engine.calls + i - 1 /\ n = engine.sent + l + i /\ b = TRUE
    BY <2>1
  <2>4. calls[i] = ToolCall(a, b, b, n)
    BY <2>2, <2>3
  <2>5. calls[i] \in PieceTypes /\ calls[i].kind = "tool" /\ (calls[i].name <=> b) /\ calls[i].index = a
    BY <2>4, PiecesTyped
  <2>6. QED
    BY <2>3, <2>5
<1>6. calls \in Seq(PieceTypes) /\ Len(calls) = m /\ DOMAIN calls = 1..m
  <2>1. calls = [i \in 1..m |-> calls[i]]
    BY <1>4 DEF Calls
  <2>2. calls \in [1..m -> PieceTypes]
    BY <1>5, <2>1
  <2>3. m \in Nat
    OBVIOUS
  <2>4. QED
    BY <2>2, <2>3
<1>7. PICK ps : ps = text \o calls
  OBVIOUS
<1>8. /\ ps \in Seq(PieceTypes) /\ Len(ps) = l + m
      /\ \A i \in 1..l + m : ps[i] = IF i <= l THEN text[i] ELSE calls[i - l]
  BY <1>2, <1>3, <1>6, <1>7, ConcatProperties
<1>9. c.pieces = ps /\ c.finish = finish /\ c \in ChunkTypes /\ DOMAIN ps = 1..l + m
  BY <1>2, <1>4, <1>7, <1>8 DEF ChunkTypes, WholeCalls
<1>10. ASSUME NEW i \in 1..l + m
       PROVE  /\ i <= l => i = 1 /\ ps[i].kind = "text" /\ ~ps[i].name
              /\ ~(i <= l) => /\ i - l \in 1..m /\ ps[i].kind = "tool" /\ ps[i].name
                              /\ ps[i].index = engine.calls + (i - l) - 1
  <2>1. CASE i <= l
    <3>1. i = 1 /\ l = 1 /\ ps[i] = text[i]
      BY <1>8, <2>1
    <3>2. QED
      BY <1>3, <2>1, <3>1
  <2>2. CASE ~(i <= l)
    <3>1. i - l \in 1..m /\ ps[i] = calls[i - l]
      BY <1>8, <2>2
    <3>2. QED
      BY <1>5, <2>2, <3>1
  <2>3. QED
    BY <2>1, <2>2
<1>11. NewCalls(c) = m
  <2>1. {i \in DOMAIN c.pieces : c.pieces[i].name} = (l + 1)..(l + m)
    BY <1>9, <1>10
  <2>2. l + 1 \in Int /\ l + m \in Int
    OBVIOUS
  <2>3. Cardinality((l + 1)..(l + m)) = IF l + 1 > l + m THEN 0 ELSE (l + m) - (l + 1) + 1
    BY <2>2, FS_Interval
  <2>4. (IF l + 1 > l + m THEN 0 ELSE (l + m) - (l + 1) + 1) = m
    OBVIOUS
  <2>5. QED
    BY <2>1, <2>3, <2>4 DEF NewCalls
<1>12. NewCalls(c) \in Nat /\ (NewCalls(c) > 0 <=> \E i \in DOMAIN c.pieces : c.pieces[i].name)
  BY <1>9, CallsCounted
<1>13. ASSUME NEW i \in DOMAIN c.pieces, c.pieces[i].name
       PROVE  /\ c.pieces[i].index >= engine.calls
              /\ \A j \in 1..(i - 1) : c.pieces[j].kind = "tool" => c.pieces[j].index # c.pieces[i].index
  <2>1. i \in 1..l + m /\ ~(i <= l) /\ ps[i].index = engine.calls + (i - l) - 1
    BY <1>9, <1>10, <1>13
  <2>2. ps[i].index >= engine.calls
    BY <2>1 DEF EngineCounts
  <2>3. ASSUME NEW j \in 1..(i - 1), ps[j].kind = "tool" PROVE ps[j].index # ps[i].index
    <3>1. j \in 1..l + m /\ j < i
      BY <2>1
    <3>2. ~(j <= l)
      BY <1>10, <2>3, <3>1
    <3>3. ps[j].index = engine.calls + (j - l) - 1
      BY <1>10, <3>1, <3>2
    <3>4. QED
      BY <2>1, <3>1, <3>3, SMTT(30) DEF EngineCounts
  <2>4. QED
    BY <1>9, <2>2, <2>3
<1>14. ASSUME NEW i \in DOMAIN c.pieces, c.pieces[i].kind = "tool"
       PROVE  c.pieces[i].index < engine.calls + NewCalls(c) /\ c.pieces[i].name
  <2>1. i \in 1..l + m /\ ~(i <= l) /\ ps[i].index = engine.calls + (i - l) - 1 /\ ps[i].name
    BY <1>9, <1>10, <1>14
  <2>2. engine.calls + (i - l) - 1 < engine.calls + m
    BY <2>1, SMTT(30) DEF EngineCounts
  <2>3. QED
    BY <1>9, <1>11, <2>1, <2>2
<1>15. Len(c.pieces) = l + m /\ l + m <= 3
  BY <1>8, <1>9
<1>16. Continues(c)
  BY <1>9, <1>12, <1>13, <1>14, <1>15 DEF Continues
<1>17. ASSUME NEW i \in DOMAIN c.pieces, c.pieces[i].name PROVE c.pieces[i].kind = "tool"
  BY <1>9, <1>10, <1>17
<1>18. QED
  BY <1>2, <1>11, <1>14, <1>15, <1>16, <1>17

LEMMA WholeLength ==
  ASSUME NEW text \in TextOrNone, NEW m \in 0..2, NEW finish
  PROVE  Len(WholeCalls(text, m, finish).pieces) = Len(text) + m
<1>1. PICK calls : calls = Calls(m, Len(text))
  OBVIOUS
<1>2. PICK S : S = {Text(engine.sent + 1)} \cup {calls[i] : i \in 1..m}
  OBVIOUS
<1>3. text \in Seq(S)
  <2>1. CASE text = <<>>
    BY <2>1
  <2>2. CASE text # <<>>
    <3>1. PICK x : x = Text(engine.sent + 1)
      OBVIOUS
    <3>2. text = <<x>> /\ x \in S
      BY <1>2, <2>2, <3>1, TextLength
    <3>3. QED
      BY <3>2
  <2>3. QED
    BY <2>1, <2>2
<1>4. calls \in Seq(S) /\ Len(calls) = m
  <2>1. calls = [i \in 1..m |-> calls[i]]
    BY <1>1 DEF Calls
  <2>2. calls \in [1..m -> S] /\ m \in Nat
    BY <1>2, <2>1
  <2>3. QED
    BY <2>2
<1>5. Len(text \o calls) = Len(text) + m
  BY <1>3, <1>4, ConcatProperties
<1>6. QED
  BY <1>1, <1>5 DEF WholeCalls

FinishNames == {"", "stop", "length", "tool_calls"}
LEMMA FinishesAre == Finishes = FinishNames
BY DEF Finishes, Reasons, FinishNames

\* A line of Ollama.
LEMMA LineLength ==
  ASSUME NEW line \in OllamaLines PROVE Len(ollamaChunk(line).pieces) \in 0..3
<1>1. line.text \in BOOLEAN /\ line.calls \in 0..2
  BY DEF OllamaLines
<1>2. PICK text \in TextOrNone :
         text = IF line.text /\ (engine.first \/ ~line.done) THEN <<Text(engine.sent + 1)>> ELSE <<>>
  BY DEF TextOrNone
<1>3. PICK finish : finish = ollamaChunk(line).finish
  OBVIOUS
<1>4. ollamaChunk(line) = WholeCalls(text, line.calls, finish)
  BY <1>2, <1>3 DEF ollamaChunk, WholeCalls
<1>5. PICK l \in 0..1, m \in 0..2 : l = Len(text) /\ m = line.calls
  BY <1>1, TextLength
<1>6. Len(ollamaChunk(line).pieces) = l + m
  BY <1>1, <1>4, <1>5, WholeLength
<1>7. QED
  BY <1>6

LEMMA LineContinues ==
  ASSUME EngineCounts, NEW line \in OllamaLines,
         engine.sent + Len(ollamaChunk(line).pieces) <= MaxPieces + 3
  PROVE  LET c == ollamaChunk(line)
         IN /\ Continues(c)
            /\ \A i \in DOMAIN c.pieces : c.pieces[i].kind = "tool" <=> c.pieces[i].name
            /\ NewCalls(c) = line.calls
            /\ c.finish = IF ~line.done THEN ""
                          ELSE IF engine.calls + NewCalls(c) > 0 THEN "tool_calls" ELSE line.reason
            /\ line.done \in BOOLEAN /\ line.reason \in Finishes
            /\ ~line.done => line.reason = ""
<1>1. /\ line.text \in BOOLEAN /\ line.calls \in 0..2 /\ line.done \in BOOLEAN
      /\ line.reason \in Finishes /\ (~line.done => line.reason = "")
  BY FinishesAre DEF OllamaLines, Reasons, FinishNames
<1>2. PICK text \in TextOrNone :
         text = IF line.text /\ (engine.first \/ ~line.done) THEN <<Text(engine.sent + 1)>> ELSE <<>>
  BY DEF TextOrNone
<1>3. PICK finish \in Finishes :
         finish = IF ~line.done THEN ""
                  ELSE IF engine.calls + line.calls > 0 THEN "tool_calls" ELSE line.reason
  BY <1>1, FinishesAre DEF FinishNames
<1>4. PICK c : c = ollamaChunk(line)
  OBVIOUS
<1>5. c = WholeCalls(text, line.calls, finish)
  BY <1>2, <1>3, <1>4 DEF ollamaChunk, WholeCalls
<1>6. Len(c.pieces) = Len(text) + line.calls
  BY <1>1, <1>5, WholeLength
<1>7. engine.sent + Len(text) + line.calls <= MaxPieces + 3
  <2>1. PICK l \in 0..1, m \in 0..2 : l = Len(text) /\ m = line.calls
    BY <1>1, TextLength
  <2>2. engine.sent + (l + m) <= MaxPieces + 3
    BY <1>4, <1>6, <2>1
  <2>3. engine.sent + l + m <= MaxPieces + 3
    BY <2>2, CompletionAssumption DEF EngineCounts
  <2>4. QED
    BY <2>1, <2>3
<1>8. /\ Continues(c) /\ NewCalls(c) = line.calls
      /\ \A i \in DOMAIN c.pieces : c.pieces[i].kind = "tool" <=> c.pieces[i].name
  <2>1. PICK m \in 0..2 : m = line.calls
    BY <1>1
  <2>2. QED
    BY <1>5, <1>7, <2>1, CallsContinue, SMTT(30)
<1>9. c.finish = finish
  BY <1>5 DEF WholeCalls
<1>10. QED
  BY <1>1, <1>3, <1>4, <1>8, <1>9

\* One piece.
LEMMA PieceContinues ==
  ASSUME EngineCounts, NEW p \in PieceTypes, NEW finish \in Finishes,
         p.name => p.index = engine.calls,
         p.kind = "tool" /\ ~p.name => p.index < engine.calls
  PROVE  Continues([pieces |-> <<p>>, finish |-> finish])
<1>1. PICK c : c = [pieces |-> <<p>>, finish |-> finish]
  OBVIOUS
<1>2. c.pieces = <<p>> /\ Len(c.pieces) = 1 /\ DOMAIN c.pieces = {1} /\ c.pieces[1] = p
  BY <1>1
<1>3. <<p>> \in Seq(PieceTypes)
  OBVIOUS
<1>4. c \in ChunkTypes
  BY <1>1, <1>3 DEF ChunkTypes
<1>5. NewCalls(c) \in Nat /\ (NewCalls(c) > 0 <=> \E i \in DOMAIN c.pieces : c.pieces[i].name)
  BY <1>4, CallsCounted
<1>6. NewCalls(c) > 0 <=> p.name
  BY <1>2, <1>5
<1>7. p.index \in Nat
  BY PieceTyped
<1>8. \A i \in DOMAIN c.pieces : c.pieces[i].name =>
       /\ c.pieces[i].index >= engine.calls
       /\ \A j \in 1..(i - 1) : c.pieces[j].kind = "tool" => c.pieces[j].index # c.pieces[i].index
  BY <1>2, <1>7 DEF EngineCounts
<1>9. \A i \in DOMAIN c.pieces : c.pieces[i].kind = "tool" =>
       /\ c.pieces[i].index < engine.calls + NewCalls(c)
       /\ ~c.pieces[i].name => i = 1 /\ c.pieces[i].index < engine.calls
  BY <1>2, <1>5, <1>6, <1>7 DEF EngineCounts
<1>10. Continues(c)
  BY <1>2, <1>4, <1>5, <1>8, <1>9 DEF Continues
<1>11. QED
  BY <1>1, <1>10

LEMMA NothingContinues ==
  ASSUME NEW finish \in Finishes
  PROVE  Continues([pieces |-> <<>>, finish |-> finish])
<1>1. PICK c : c = [pieces |-> <<>>, finish |-> finish]
  OBVIOUS
<1>2. c.pieces = <<>> /\ Len(c.pieces) = 0 /\ DOMAIN c.pieces = {}
  BY <1>1
<1>3. c \in ChunkTypes
  BY <1>1 DEF ChunkTypes
<1>4. NewCalls(c) \in Nat /\ (NewCalls(c) > 0 <=> \E i \in DOMAIN c.pieces : c.pieces[i].name)
  BY <1>3, CallsCounted
<1>5. Continues(c)
  BY <1>2, <1>3, <1>4 DEF Continues
<1>6. QED
  BY <1>1, <1>5

\* A chunk of an OpenAI-compatible engine.
LEMMA CompatContinues ==
  ASSUME EngineCounts, NEW c \in CompatChunks, engine.sent + Len(c.pieces) <= MaxPieces
  PROVE  Continues(c) /\ c.finish \in Finishes
<1>1. PICK finish \in Finishes, ps \in CompatPieces : c = [pieces |-> ps, finish |-> finish]
  <2>1. {""} \cup Reasons \subseteq Finishes
    BY DEF Finishes
  <2>2. c.pieces \in CompatPieces /\ c.finish \in Finishes
        /\ c = [pieces |-> c.pieces, finish |-> c.finish]
    BY <2>1 DEF CompatChunks
  <2>3. QED
    BY <2>2
<1>2. c.pieces = ps /\ c.finish = finish
  BY <1>1
<1>3. CASE ps = <<>>
  BY <1>1, <1>2, <1>3, NothingContinues
<1>4. CASE ps # <<>>
  <2>1. Len(ps) = 1 /\ engine.sent + 1 \in Numbers
    <3>1. \E p : ps = <<p>>
      BY <1>4, Zenon DEF CompatPieces
    <3>2. Len(ps) = 1
      BY <3>1
    <3>3. QED
      BY <1>2, <3>2, CompletionAssumption DEF EngineCounts, Numbers
  <2>2. PICK n \in Numbers : n = engine.sent + 1
    BY <2>1
  <2>3. CASE ps = <<Text(n)>>
    <3>1. PICK p : p = Text(n)
      OBVIOUS
    <3>2. p \in PieceTypes /\ p.kind = "text" /\ ~p.name
      BY <3>1, PiecesTyped
    <3>3. QED
      BY <1>1, <1>2, <2>3, <3>1, <3>2, PieceContinues
  <2>4. ASSUME NEW args \in BOOLEAN, ps = <<ToolCall(engine.calls, TRUE, args, n)>> PROVE Continues(c)
    <3>1. PICK i \in Nat, b \in BOOLEAN : i = engine.calls /\ b = TRUE
      BY DEF EngineCounts
    <3>2. PICK p : p = ToolCall(i, b, args, n)
      OBVIOUS
    <3>3. p \in PieceTypes /\ p.kind = "tool" /\ (p.name <=> b) /\ p.index = i
      BY <3>2, PiecesTyped
    <3>4. QED
      BY <1>1, <2>4, <3>1, <3>2, <3>3, PieceContinues
  <2>5. ASSUME NEW i \in 0..(engine.calls - 1), ps = <<ToolCall(i, FALSE, TRUE, n)>> PROVE Continues(c)
    <3>1. i \in Nat /\ i < engine.calls
      BY DEF EngineCounts
    <3>2. PICK no \in BOOLEAN, yes \in BOOLEAN : no = FALSE /\ yes = TRUE
      OBVIOUS
    <3>3. PICK p : p = ToolCall(i, no, yes, n)
      OBVIOUS
    <3>4. p \in PieceTypes /\ p.kind = "tool" /\ (p.name <=> no) /\ p.index = i
      BY <3>1, <3>3, PiecesTyped
    <3>5. QED
      BY <1>1, <2>5, <3>1, <3>2, <3>3, <3>4, PieceContinues
  <2>6. QED
    BY <1>2, <1>4, <2>2, <2>3, <2>4, <2>5 DEF CompatPieces
<1>5. QED
  BY <1>2, <1>3, <1>4

\* A whole reply.
LEMMA RepliesContinue ==
  ASSUME EngineCounts, engine.sent = 0, engine.calls = 0, NEW c \in Replies
  PROVE  /\ Continues(c) /\ c.finish \in Finishes
         /\ \A i \in DOMAIN c.pieces : c.pieces[i].kind = "tool" <=> c.pieces[i].name
         /\ req.engine = "ollama" /\ NewCalls(c) > 0 => c.finish = "tool_calls"
<1>1. MaxPieces \in Nat
  BY CompletionAssumption
<1>2. CASE req.engine = "ollama"
  <2>1. PICK line \in OllamaLines : line.done /\ c = ollamaChunk(line)
    BY <1>2 DEF Replies
  <2>2. PICK n \in 0..3 : n = Len(c.pieces)
    BY <2>1, LineLength
  <2>3. engine.sent + Len(c.pieces) <= MaxPieces + 3
    <3>1. 0 + n <= MaxPieces + 3
      BY <1>1
    <3>2. engine.sent = 0
      OBVIOUS
    <3>3. QED
      BY <2>2, <3>1, <3>2
  <2>4. /\ Continues(c)
        /\ \A i \in DOMAIN c.pieces : c.pieces[i].kind = "tool" <=> c.pieces[i].name
        /\ c.finish = IF engine.calls + NewCalls(c) > 0 THEN "tool_calls" ELSE line.reason
        /\ line.reason \in Finishes
    BY <2>1, <2>3, LineContinues
  <2>5. NewCalls(c) \in Nat
    BY <2>4 DEF Continues
  <2>6. "tool_calls" \in Finishes
    BY FinishesAre DEF FinishNames
  <2>7. QED
    BY <2>4, <2>5, <2>6
<1>3. CASE req.engine # "ollama"
  <2>0. c \in [pieces : CompatBodies, finish : {""} \cup Reasons]
    BY <1>3 DEF Replies
  <2>1. TextOrNone = {<<>>, <<Text(1)>>}
    <3>1. engine.sent + 1 = 1
      OBVIOUS
    <3>2. QED
      BY <3>1, Zenon DEF TextOrNone
  <2>2. PICK finish \in Finishes : c.finish = finish /\ c = [pieces |-> c.pieces, finish |-> finish]
    <3>1. {""} \cup Reasons \subseteq Finishes
      BY DEF Finishes
    <3>2. c.finish \in Finishes /\ c = [pieces |-> c.pieces, finish |-> c.finish]
      BY <1>3, <3>1, <2>0
    <3>3. QED
      BY <3>2
  <2>3. PICK text \in TextOrNone, m \in 0..2 : c.pieces = text \o Calls(m, Len(text))
    <3>1. c.pieces \in CompatBodies
      BY <2>0
    <3>2. QED
      BY <2>1, <3>1, SMTT(30) DEF CompatBodies
  <2>4. c = WholeCalls(text, m, finish)
    BY <2>2, <2>3 DEF WholeCalls
  <2>5. PICK l \in 0..1 : l = Len(text)
    BY TextLength
  <2>6. engine.sent + Len(text) + m <= MaxPieces + 3
    BY <1>1, <2>5
  <2>7. Continues(c) /\ \A i \in DOMAIN c.pieces : c.pieces[i].kind = "tool" <=> c.pieces[i].name
    BY <2>4, <2>6, CallsContinue
  <2>8. QED
    BY <1>3, <2>2, <2>7
<1>4. QED
  BY <1>2, <1>3

\* The stream after a chunk.
LEMMA AfterChunk ==
  ASSUME engine \in EngineTypes, NEW c, Continues(c), NEW done \in BOOLEAN, NEW reason \in Finishes,
         engine.sent + Len(c.pieces) <= MaxPieces + 3
  PROVE  LET e == After(c, done, reason)
         IN /\ e \in EngineTypes /\ (e.done <=> done) /\ e.calls = engine.calls + NewCalls(c)
            /\ (e.eof <=> engine.eof) /\ e.reason = LastFinish(engine.reason, reason)
            /\ e.last = IF c.pieces = <<>> THEN engine.last ELSE CallOf(Last(c.pieces))
            /\ engine.back => e.back
            /\ \A i \in DOMAIN c.pieces :
                 c.pieces[i].kind = "tool" /\ ~c.pieces[i].name =>
                   e.back \/ engine.last = c.pieces[i].index
<1>1. c \in ChunkTypes /\ c.pieces \in Seq(PieceTypes) /\ NewCalls(c) \in Nat
  BY DEF Continues, ChunkTypes
<1>2. /\ engine.first \in BOOLEAN /\ engine.done \in BOOLEAN /\ engine.calls \in Nat
      /\ engine.sent \in Numbers /\ engine.last \in Int /\ engine.back \in BOOLEAN
      /\ engine.reason \in Finishes /\ engine.eof \in BOOLEAN /\ engine.broke \in Causes \cup {"no"}
  BY DEF EngineTypes
<1>3. DOMAIN engine = EngineFields
  BY DEF EngineTypes, EngineFields
<1> DEFINE again == \E p \in ToSet(c.pieces) : p.kind = "tool" /\ ~p.name /\ engine.last # p.index
<1>4. PICK r \in Finishes : r = LastFinish(engine.reason, reason)
  BY <1>2 DEF LastFinish
<1>5. PICK last \in Int : last = IF c.pieces = <<>> THEN engine.last ELSE CallOf(Last(c.pieces))
  <2>1. CASE c.pieces = <<>>
    BY <1>2, <2>1
  <2>2. CASE c.pieces # <<>>
    <3>1. Len(c.pieces) \in 1..Len(c.pieces)
      BY <1>1, <2>2
    <3>2. Last(c.pieces) \in PieceTypes
      BY <1>1, <3>1 DEF Last
    <3>3. CallOf(Last(c.pieces)) \in Int
      BY <3>2, PieceTyped DEF CallOf
    <3>4. QED
      BY <2>2, <3>3
  <2>3. QED
    BY <2>1, <2>2
<1>6. PICK back \in BOOLEAN : back <=> engine.back \/ again
  OBVIOUS
<1>7. PICK calls \in Nat : calls = engine.calls + NewCalls(c)
  BY <1>1, <1>2
<1>8. PICK sent \in Numbers : sent = engine.sent + Len(c.pieces)
  BY <1>1, <1>2 DEF Numbers
<1>9. PICK e : e = After(c, done, reason)
  OBVIOUS
<1>10. DOMAIN e = EngineFields
  BY <1>3, <1>9 DEF After
<1>11. e.first = FALSE /\ e.done = done /\ e.calls = calls /\ e.sent = sent /\ e.last = last
  BY <1>3, <1>5, <1>7, <1>8, <1>9 DEF After, EngineFields
<1>12. e.back = (engine.back \/ again)
  BY <1>3, <1>9, Zenon DEF After, EngineFields
<1>13. e.reason = r /\ e.eof = engine.eof /\ e.broke = engine.broke
  BY <1>3, <1>4, <1>9 DEF After, EngineFields, LastFinish
<1> HIDE DEF again
<1>14. e.back \in BOOLEAN /\ (e.back <=> engine.back \/ again)
  BY <1>12
<1>15. e = [first |-> e.first, done |-> e.done, calls |-> e.calls, sent |-> e.sent, last |-> e.last,
            back |-> e.back, reason |-> e.reason, eof |-> e.eof, broke |-> e.broke]
  BY <1>9, <1>10 DEF After, EngineFields
<1>16. e \in EngineTypes
  <2>1. e.first \in BOOLEAN /\ e.done \in BOOLEAN /\ e.eof \in BOOLEAN
    BY <1>2, <1>11, <1>13
  <2>2. e.calls \in Nat /\ e.sent \in Numbers /\ e.last \in Int
    BY <1>11
  <2>3. e.reason \in Finishes /\ e.broke \in Causes \cup {"no"}
    BY <1>2, <1>13
  <2>4. QED
    BY <1>14, <1>15, <2>1, <2>2, <2>3 DEF EngineTypes
<1>17. ASSUME NEW i \in DOMAIN c.pieces, c.pieces[i].kind = "tool", ~c.pieces[i].name
       PROVE  e.back \/ engine.last = c.pieces[i].index
  <2>1. c.pieces[i] \in ToSet(c.pieces)
    BY DEF ToSet
  <2>2. QED
    BY <1>14, <1>17, <2>1 DEF again
<1>18. QED
  BY <1>4, <1>5, <1>7, <1>9, <1>11, <1>13, <1>14, <1>16, <1>17

-----------------------------------------------------------------------------
(* Steps before the engine has accepted, and steps that end a request      *)
(* without a stream.                                                       *)

LEMMA NoneTyped ==
  /\ NewClient("none") \in ClientTypes /\ NewEngine \in EngineTypes /\ NoChunk \in ChunkTypes
  /\ newAnthropicStream \in TranslatorTypes /\ NewHandler \in HandlerTypes
  /\ NoRecord \in RecordTypes /\ Len(NoChunk.pieces) = 0
<1>1. <<>> \in Seq(Units) /\ <<>> \in Seq(PieceTypes) /\ Len(<<>>) = 0
  OBVIOUS
<1>2. "" \in Finishes /\ "" \in Stops /\ "none" \in Phases
  BY FinishesAre, PhaseNames DEF FinishNames, Stops
<1>3. NewClient("none") \in ClientTypes
  <2>1. PICK g \in Seq(Units) : g = <<>>
    BY <1>1
  <2>2. PICK s \in Stops, p \in Phases : s = "" /\ p = "none"
    BY <1>2
  <2>3. [phase |-> p, next |-> 0, got |-> g, stop |-> s, nameless |-> FALSE] \in ClientTypes
    BY DEF ClientTypes
  <2>4. QED
    BY <2>1, <2>2, <2>3 DEF NewClient
<1>4. NewEngine \in EngineTypes
  <2>1. 0 \in Numbers
    BY CompletionAssumption DEF Numbers
  <2>2. PICK m \in Numbers : m = 0
    BY <2>1
  <2>3. PICK f \in Finishes, x \in Causes \cup {"no"} : f = "" /\ x = "no"
    BY <1>2
  <2>4. [first |-> TRUE, done |-> FALSE, calls |-> 0, sent |-> m, last |-> -1, back |-> FALSE,
         reason |-> f, eof |-> FALSE, broke |-> x] \in EngineTypes
    BY DEF EngineTypes
  <2>5. QED
    BY <2>2, <2>3, <2>4 DEF NewEngine
<1>5. NoChunk \in ChunkTypes /\ Len(NoChunk.pieces) = 0
  BY <1>1, <1>2 DEF NoChunk, ChunkTypes
<1>6. newAnthropicStream \in TranslatorTypes
  <2>1. PICK f \in Finishes : f = ""
    BY <1>2
  <2>2. [open |-> "none", blockIndex |-> -1, toolIndex |-> 0, sawTool |-> FALSE, finish |-> f]
          \in TranslatorTypes
    BY DEF TranslatorTypes
  <2>3. QED
    BY <2>1, <2>2 DEF newAnthropicStream
<1>7. NewHandler \in HandlerTypes
  BY <1>1 DEF NewHandler, HandlerTypes
<1>8. NoRecord \in RecordTypes
  BY <1>1 DEF NoRecord, RecordTypes
<1>9. QED
  BY <1>3, <1>4, <1>5, <1>6, <1>7, <1>8

LEMMA NoneShown ==
  /\ NewClient("none").phase = "none" /\ NewClient("none").stop = "" /\ ~NewClient("none").nameless
  /\ NewClient("none").got = <<>> /\ newAnthropicStream.open = "none"
BY DEF NewClient, newAnthropicStream

LEMMA EmptyFits ==
  ASSUME NEW a, a = <<>> PROVE Len(a) <= AuditLimit
<1>1. Len(a) = 0
  OBVIOUS
<1>2. QED
  BY <1>1, CompletionAssumption

\* A request that has not touched the engine.
LEMMA Quiet ==
  ASSUME StreamTypes', Untouched', pc' \in Before, ~handler'.audited,
         pc' # "idle" => req' \in Reqs,
         pc' \in {"chat", "open"} => req'.route \in Completions
  PROVE  StreamInv'
<1>1. /\ seen' = NewClient("none") /\ engine' = NewEngine /\ payload' = NoChunk
      /\ tr' = newAnthropicStream /\ handler'.audit = <<>> /\ handler'.outcome = ""
      /\ ~handler'.panicking /\ ~conn'.sse /\ log'.interaction = NoRecord
  BY DEF Untouched
<1>2. pc' \notin Relaying \cup {"start", "finish", "unwind", "done", "write"}
  BY DEF Before, Relaying
<1>3. Progress'
  BY <1>1, <1>2 DEF Progress, Relaying
<1>4. Told'
  BY <1>2 DEF Told, Relaying
<1>5. Audited'
  <2>1. PICK a : a = handler'.audit /\ a = <<>>
    BY <1>1
  <2>2. Len(a) <= AuditLimit
    BY <2>1, EmptyFits
  <2>3. QED
    BY <1>1, <2>1, <2>2 DEF Audited
<1>6. Translating'
  BY <1>1, <1>2, NoneShown DEF Translating, Relaying
<1>7. Called'
  BY <1>2 DEF Called, Relaying
<1>8. Stopped'
  BY <1>1, <1>2, NoneShown DEF Stopped
<1>9. WellFormed'
  BY <1>1, NoneShown DEF WellFormed
<1>10. ClientIsTold'
  BY <1>1 DEF ClientIsTold, Ended
<1>11. QED
  BY <1>3, <1>4, <1>5, <1>6, <1>7, <1>8, <1>9, <1>10 DEF StreamInv

\* Fields of the handler that the invariant is not about.
LEMMA HandlerKept ==
  ASSUME handler \in HandlerTypes, NEW b \in BOOLEAN, NEW e \in {"", "engine", "idle", "max"},
         \/ handler' = [handler EXCEPT !.logged = b]
         \/ handler' = [handler EXCEPT !.slot = b]
         \/ handler' = [handler EXCEPT !.err = e]
         \/ handler' = handler
  PROVE  /\ handler' \in HandlerTypes /\ (handler'.audited <=> handler.audited)
         /\ (handler'.panicking <=> handler.panicking) /\ handler'.audit = handler.audit
         /\ handler'.outcome = handler.outcome
<1>1. CASE handler' = [handler EXCEPT !.logged = b]
  BY <1>1 DEF HandlerTypes
<1>2. CASE handler' = [handler EXCEPT !.slot = b]
  BY <1>2 DEF HandlerTypes
<1>3. CASE handler' = [handler EXCEPT !.err = e]
  BY <1>3 DEF HandlerTypes
<1>4. CASE handler' = handler
  BY <1>4
<1>5. QED
  BY <1>1, <1>2, <1>3, <1>4

LEMMA StepsBefore ==
  ASSUME StreamInv, (\E r \in Reqs : Arrive(r)) \/ Authorized \/ acquireEngine
  PROVE  StreamInv'
<1>1. /\ UNCHANGED <<conn, seen, gone, engine, payload, tr, log>>
      /\ pc \in Before /\ pc' \in Before
  BY DEF Arrive, Authorized, acquireEngine, Before
<1>2. StreamTypes /\ Untouched /\ Progress
  BY DEF StreamInv
<1>3. /\ handler' \in HandlerTypes /\ (handler'.audited <=> handler.audited)
      /\ (handler'.panicking <=> handler.panicking) /\ handler'.audit = handler.audit
      /\ handler'.outcome = handler.outcome
  <2>1. PICK b \in BOOLEAN, e \in {"", "engine", "idle", "max"} : b = TRUE
    OBVIOUS
  <2>2. handler' = handler \/ handler' = [handler EXCEPT !.logged = b]
        \/ handler' = [handler EXCEPT !.slot = b]
    BY <2>1 DEF Arrive, Authorized, acquireEngine
  <2>3. QED
    BY <1>2, <2>2, HandlerKept DEF StreamTypes
<1>4. Untouched'
  BY <1>1, <1>2, <1>3 DEF Untouched
<1>5. req' \in Reqs /\ (pc' \in {"chat", "open"} => req'.route \in Completions)
  <2>1. CASE \E r \in Reqs : Arrive(r)
    BY <2>1 DEF Arrive
  <2>2. CASE Authorized
    BY <1>2, <2>2 DEF Authorized, Progress
  <2>3. CASE acquireEngine
    <3>1. req' = req /\ req \in Reqs /\ req.route # "count"
      BY <1>2, <2>3 DEF acquireEngine, Progress
    <3>2. QED
      BY <3>1 DEF Reqs, Completions
  <2>4. QED
    BY <2>1, <2>2, <2>3
<1>6. StreamTypes'
  BY <1>1, <1>2, <1>3, <1>5 DEF StreamTypes
<1>7. ~handler'.audited
  BY <1>1, <1>2, <1>3 DEF Untouched, Progress
<1>8. QED
  BY <1>1, <1>4, <1>5, <1>6, <1>7, Quiet

LEMMA StreamInit == Init => StreamInv
<1> SUFFICES ASSUME Init PROVE StreamInv
  OBVIOUS
<1>1. /\ req = NoReq /\ pc = "idle" /\ conn = NewConn /\ seen = NewClient("none")
      /\ gone = FALSE /\ engine = NewEngine /\ payload = NoChunk
      /\ tr = newAnthropicStream /\ handler = NewHandler /\ log = NewLog
  BY DEF Init
<1>2. /\ handler.audit = <<>> /\ handler.outcome = "" /\ ~handler.panicking /\ ~handler.audited
      /\ ~conn.sse /\ log.interaction = NoRecord
  BY <1>1 DEF NewHandler, NewConn, NewLog
<1>3. StreamTypes
  <2>1. req \in Reqs \cup {NoReq} /\ gone \in BOOLEAN /\ pc \in Before
    BY <1>1 DEF Before
  <2>2. /\ seen \in ClientTypes /\ engine \in EngineTypes /\ tr \in TranslatorTypes
        /\ payload \in ChunkTypes /\ Len(payload.pieces) <= 3 /\ handler \in HandlerTypes
    BY <1>1, NoneTyped
  <2>3. DOMAIN log = {"request", "interaction", "metric"} /\ log.interaction \in RecordTypes
    BY <1>1, <1>2, NoneTyped DEF NewLog
  <2>4. QED
    BY <2>1, <2>2, <2>3 DEF StreamTypes
<1>4. Untouched
  BY <1>1, <1>2 DEF Untouched
<1>5. Progress
  BY <1>1, <1>2 DEF Progress, Relaying
<1>6. Told
  BY <1>1 DEF Told, Relaying
<1>7. Audited
  <2>1. PICK a : a = handler.audit /\ a = <<>>
    BY <1>2
  <2>2. Len(a) <= AuditLimit
    BY <2>1, EmptyFits
  <2>3. QED
    BY <1>2, <2>1, <2>2 DEF Audited
<1>8. Translating
  BY <1>1, NoneShown DEF Translating
<1>9. Called
  BY <1>1 DEF Called
<1>10. Stopped
  BY <1>1, NoneShown DEF Stopped
<1>11. WellFormed
  BY <1>1, NoneShown DEF WellFormed
<1>12. ClientIsTold
  BY <1>1 DEF ClientIsTold, Ended
<1>13. QED
  BY <1>3, <1>4, <1>5, <1>6, <1>7, <1>8, <1>9, <1>10, <1>11, <1>12 DEF StreamInv

LEMMA StepsToIdle ==
  ASSUME NextRequest PROVE StreamInv'
<1>1. /\ req' = NoReq /\ pc' = "idle" /\ conn' = NewConn /\ seen' = NewClient("none")
      /\ gone' = FALSE /\ engine' = NewEngine /\ payload' = NoChunk
      /\ tr' = newAnthropicStream /\ handler' = NewHandler /\ log' = NewLog
  BY DEF NextRequest
<1>2. /\ handler'.audit = <<>> /\ handler'.outcome = "" /\ ~handler'.panicking /\ ~handler'.audited
      /\ ~conn'.sse /\ log'.interaction = NoRecord
  BY <1>1 DEF NewHandler, NewConn, NewLog
<1>3. StreamTypes'
  <2>1. req' \in Reqs \cup {NoReq} /\ gone' \in BOOLEAN /\ pc' \in Before
    BY <1>1 DEF Before
  <2>2. /\ seen' \in ClientTypes /\ engine' \in EngineTypes /\ tr' \in TranslatorTypes
        /\ payload' \in ChunkTypes /\ Len(payload'.pieces) <= 3 /\ handler' \in HandlerTypes
    BY <1>1, NoneTyped
  <2>3. DOMAIN log' = {"request", "interaction", "metric"} /\ log'.interaction \in RecordTypes
    BY <1>1, <1>2, NoneTyped DEF NewLog
  <2>4. QED
    BY <2>1, <2>2, <2>3 DEF StreamTypes
<1>4. Untouched'
  BY <1>1, <1>2 DEF Untouched
<1>5. QED
  BY <1>1, <1>2, <1>3, <1>4, Quiet DEF Before

\* A request that ends without a stream.
LEMMA Short ==
  ASSUME StreamTypes', pc' = "unwind", ~conn'.sse, ~handler'.audited, handler'.audit = <<>>,
         handler'.outcome = "", tr'.open = "none", req' \in Reqs, seen'.phase # "bad",
         ~seen'.nameless,
         log'.interaction # NoRecord =>
           /\ log'.interaction.mark = ""
           /\ log'.interaction.text = seen'.got \/ (gone' /\ seen'.got = <<>>),
         seen'.stop # "" /\ ~RelayedAsIs' => StopIsRight'
  PROVE  StreamInv'
<1>1. pc' \notin Before \cup Relaying \cup {"start", "finish", "done", "write"}
  BY DEF Before, Relaying
<1>2. Untouched'
  BY <1>1 DEF Untouched
<1>3. Progress'
  BY <1>1 DEF Progress, Before
<1>4. Told'
  BY <1>1 DEF Told
<1>5. Audited'
  <2>1. PICK a : a = handler'.audit /\ a = <<>>
    OBVIOUS
  <2>2. Len(a) <= AuditLimit
    BY <2>1, EmptyFits
  <2>3. QED
    BY <2>1, <2>2 DEF Audited
<1>6. Translating'
  BY <1>1 DEF Translating, Relaying
<1>7. Called'
  BY <1>1 DEF Called, Relaying
<1>8. Stopped'
  BY <1>1 DEF Stopped
<1>9. WellFormed'
  BY DEF WellFormed
<1>10. ClientIsTold'
  BY DEF ClientIsTold, Ended
<1>11. QED
  BY <1>2, <1>3, <1>4, <1>5, <1>6, <1>7, <1>8, <1>9, <1>10 DEF StreamInv

LEMMA HeaderKeeps ==
  ASSUME conn \in ConnTypes, NEW code
  PROVE  (WriteHeader(conn, code).sse <=> conn.sse) /\ WriteHeader(conn, code).wrote
BY DEF WriteHeader, ConnTypes

LEMMA Answered ==
  ASSUME seen \in ClientTypes, conn \in ConnTypes, NEW code, jsonResponse(code)
  PROVE  /\ seen' \in ClientTypes /\ seen'.phase \in {seen.phase, "reply", "failed"}
         /\ seen'.got = seen.got /\ seen'.stop = seen.stop /\ seen'.nameless = seen.nameless
         /\ conn'.sse <=> conn.sse
<1>1. conn'.sse <=> conn.sse
  BY HeaderKeeps DEF jsonResponse
<1>2. CASE gone
  BY <1>1, <1>2 DEF jsonResponse, Reads
<1>3. CASE ~gone
  <2>1. PICK phase \in Phases : phase \in {"reply", "failed"} /\ seen' = [seen EXCEPT !.phase = phase]
    BY <1>3, PhaseNames DEF jsonResponse, Reads
  <2>2. PhaseMoves(seen, phase, seen')
    BY <2>1, PhaseSet
  <2>3. QED
    BY <1>1, <2>1, <2>2 DEF PhaseMoves
<1>4. QED
  BY <1>2, <1>3

LEMMA StepsRefused ==
  ASSUME StreamInv, StatusInv,
         \/ Unauthorized \/ (pc = "admit" /\ \E code \in Refusals : Refuse(code))
         \/ handleCountTokens \/ TranslateFails \/ EngineFails
  PROVE  StreamInv'
<1>1. StreamTypes /\ Untouched /\ Progress /\ conn \in ConnTypes
  BY DEF StreamInv, StatusInv
<1>2. /\ pc \in Before /\ pc # "idle" /\ pc' = "unwind"
      /\ UNCHANGED <<req, gone, engine, payload, tr, log>>
  BY DEF Unauthorized, Refuse, handleCountTokens, TranslateFails, EngineFails, Before
<1>3. (UNCHANGED <<conn, seen>>) \/ \E code : jsonResponse(code)
  BY DEF Unauthorized, Refuse, handleCountTokens, TranslateFails, EngineFails
<1>4. /\ seen' \in ClientTypes /\ seen'.phase \in {seen.phase, "reply", "failed"}
      /\ seen'.got = seen.got /\ seen'.stop = seen.stop /\ seen'.nameless = seen.nameless
      /\ conn'.sse <=> conn.sse
  <2>1. CASE UNCHANGED <<conn, seen>>
    BY <1>1, <2>1 DEF StreamTypes
  <2>2. CASE \E code : jsonResponse(code)
    BY <1>1, <2>2, Answered DEF StreamTypes
  <2>3. QED
    BY <1>3, <2>1, <2>2
<1>5. /\ handler' \in HandlerTypes /\ (handler'.audited <=> handler.audited)
      /\ (handler'.panicking <=> handler.panicking) /\ handler'.audit = handler.audit
      /\ handler'.outcome = handler.outcome
  <2>1. PICK b \in BOOLEAN, e \in {"", "engine", "idle", "max"} : e = "engine"
    OBVIOUS
  <2>2. handler' = handler \/ handler' = [handler EXCEPT !.err = e]
    BY <2>1 DEF Unauthorized, Refuse, handleCountTokens, TranslateFails, EngineFails
  <2>3. QED
    BY <1>1, <2>2, HandlerKept DEF StreamTypes
<1>6. /\ seen.phase = "none" /\ seen.stop = "" /\ ~seen.nameless /\ tr.open = "none"
      /\ log.interaction = NoRecord /\ ~conn.sse /\ handler.audit = <<>> /\ handler.outcome = ""
  BY <1>1, <1>2, NoneShown DEF Untouched
<1>7. ~handler.audited /\ req \in Reqs
  BY <1>1, <1>2, <1>6 DEF Progress
<1>8. StreamTypes'
  BY <1>1, <1>2, <1>4, <1>5 DEF StreamTypes
<1>9. seen'.phase # "bad" /\ ~seen'.nameless /\ seen'.stop = ""
  BY <1>4, <1>6
<1>10. ~conn'.sse /\ ~handler'.audited /\ handler'.audit = <<>> /\ handler'.outcome = ""
  BY <1>4, <1>5, <1>6, <1>7
<1>11. tr'.open = "none" /\ req' \in Reqs /\ log'.interaction = NoRecord
  BY <1>2, <1>6, <1>7
<1>12. QED
  BY <1>2, <1>8, <1>9, <1>10, <1>11, Short

\* What does not concern the stream leaves the invariant alone.
LEMMA StepsAside ==
  ASSUME StreamInv, UNCHANGED <<req, pc, conn, seen, gone, engine, payload, tr, handler, log>>
  PROVE  StreamInv'
<1>1. StreamTypes' /\ Untouched'
  BY DEF StreamInv, StreamTypes, Untouched
<1>2. Progress' /\ (~gone' => Told')
  BY DEF StreamInv, Progress, Told, Synced
<1>3. Audited'
  BY DEF StreamInv, Audited
<1>4. Translating' /\ Called'
  BY DEF StreamInv, Translating, Called
<1>5. Stopped' /\ WellFormed' /\ ClientIsTold'
  BY DEF StreamInv, Stopped, StopIsRight, RelayedAsIs, WellFormed, ClientIsTold, Ended
<1>6. QED
  BY <1>1, <1>2, <1>3, <1>4, <1>5 DEF StreamInv

LEMMA StepsHangUp ==
  ASSUME StreamInv, HangUp PROVE StreamInv'
<1>1. gone' = TRUE /\ UNCHANGED <<req, pc, conn, seen, engine, payload, tr, handler, log>>
  BY DEF HangUp
<1>2. gone'
  BY <1>1
<1>3. StreamTypes' /\ Untouched'
  BY <1>1 DEF StreamInv, StreamTypes, Untouched
<1>4. Progress'
  BY <1>1, <1>2 DEF StreamInv, Progress
<1>5. Audited'
  <2>1. Audited
    BY DEF StreamInv
  <2>2. Len(handler'.audit) <= AuditLimit
    BY <1>1, <2>1 DEF Audited
  <2>3. CASE conn.sse
    <3>1. IsPrefix(Trunc(seen'.got), handler'.audit)
      BY <1>1, <2>1, <2>3 DEF Audited
    <3>2. pc' = "done" => log'.interaction = [text |-> handler'.audit, mark |-> handler'.outcome]
      BY <1>1, <2>1, <2>3 DEF Audited
    <3>3. QED
      BY <1>1, <1>2, <2>2, <2>3, <3>1, <3>2 DEF Audited
  <2>4. CASE ~conn.sse
    <3>1. log'.interaction # NoRecord =>
            /\ log'.interaction.mark = ""
            /\ log'.interaction.text = seen'.got \/ (gone' /\ seen'.got = <<>>)
      BY <1>1, <1>2, <2>1, <2>4 DEF Audited
    <3>2. QED
      BY <1>1, <2>2, <2>4, <3>1 DEF Audited
  <2>5. QED
    BY <2>3, <2>4
<1>6. Translating'
  BY <1>1 DEF StreamInv, Translating
<1>7. Called'
  BY <1>2 DEF Called
<1>8. Stopped' /\ WellFormed'
  BY <1>1 DEF StreamInv, Stopped, StopIsRight, RelayedAsIs, WellFormed
<1>9. ClientIsTold'
  BY <1>2 DEF ClientIsTold, Ended
<1>10. QED
  BY <1>2, <1>3, <1>4, <1>5, <1>6, <1>7, <1>8, <1>9 DEF StreamInv

LEMMA StepsPanic ==
  ASSUME StreamInv, Panic PROVE StreamInv'
<1>1. /\ pc \notin {"idle", "unwind", "done"} /\ pc' = "unwind"
      /\ handler' = [handler EXCEPT !.panicking = TRUE]
      /\ UNCHANGED <<req, conn, seen, gone, engine, payload, tr, log>>
  BY DEF Panic
<1>2. StreamTypes /\ handler \in HandlerTypes
  BY DEF StreamInv, StreamTypes
<1>3. /\ handler' \in HandlerTypes /\ handler'.panicking /\ (handler'.audited <=> handler.audited)
      /\ handler'.audit = handler.audit /\ handler'.outcome = handler.outcome
  BY <1>1, <1>2 DEF HandlerTypes
<1>4. pc' \notin Before \cup Relaying \cup {"start", "finish", "done", "write"}
  BY <1>1 DEF Before, Relaying
<1>5. StreamTypes' /\ Untouched'
  BY <1>1, <1>2, <1>3, <1>4 DEF StreamTypes, Untouched
<1>6. Progress'
  BY <1>1, <1>3, <1>4 DEF StreamInv, Progress, Before
<1>7. ASSUME ~gone' PROVE Told'
  <2>1. SUFFICES ASSUME conn.sse, req.route = "chat" PROVE seen.phase \in {"open", "error"}
    BY <1>1, <1>3, <1>4 DEF Told
  <2>2. Told /\ Untouched /\ Progress
    BY <1>1, <1>7 DEF StreamInv
  <2>3. pc \in Relaying \cup {"finish"}
    BY <1>1, <1>2, <2>1, <2>2 DEF StreamTypes, Untouched, Progress
  <2>4. QED
    BY <1>1, <2>1, <2>2, <2>3 DEF Told
<1>8. Audited'
  BY <1>1, <1>3, <1>4 DEF StreamInv, Audited
<1>9. Translating' /\ Called'
  BY <1>1, <1>4 DEF StreamInv, Translating, Called, Relaying
<1>10. Stopped' /\ WellFormed' /\ ClientIsTold'
  BY <1>1, <1>4 DEF StreamInv, Stopped, StopIsRight, RelayedAsIs, WellFormed, ClientIsTold, Ended
<1>11. QED
  BY <1>5, <1>6, <1>7, <1>8, <1>9, <1>10 DEF StreamInv

-----------------------------------------------------------------------------
(* Answers that do not stream, and the start of a stream.                  *)

LEMMA EngineNew ==
  /\ NewEngine.calls = 0 /\ NewEngine.sent = 0 /\ NewEngine.last = -1 /\ NewEngine.reason = ""
  /\ ~NewEngine.eof /\ ~NewEngine.back
BY DEF NewEngine

LEMMA TranslatorNew ==
  /\ newAnthropicStream.open = "none" /\ newAnthropicStream.blockIndex = -1
  /\ ~newAnthropicStream.sawTool /\ newAnthropicStream.finish = ""
BY DEF newAnthropicStream

LEMMA ReasonNames ==
  ASSUME NEW finish \in Finishes, NEW sawTool \in BOOLEAN
  PROVE  /\ finish \in Stops /\ StopReason(finish, sawTool) \in Stops
         /\ sawTool => StopReason(finish, sawTool) = "tool_use"
         /\ ~sawTool /\ finish = "length" => StopReason(finish, sawTool) = "max_tokens"
<1>1. CASE sawTool
  BY <1>1 DEF StopReason, Stops
<1>2. CASE ~sawTool
  <2>1. StopReason(finish, sawTool) = stopReasonFromFinish(finish)
    BY <1>2 DEF StopReason
  <2>2. stopReasonFromFinish(finish) \in Stops
    BY DEF stopReasonFromFinish, Stops
  <2>3. finish = "length" => stopReasonFromFinish(finish) = "max_tokens"
    BY DEF stopReasonFromFinish
  <2>4. QED
    BY <1>2, <2>1, <2>2, <2>3 DEF Stops
<1>3. QED
  BY <1>1, <1>2

LEMMA StepsAnswer ==
  ASSUME StreamInv, StatusInv, NEW reply \in Replies, ChatAnswers(reply)
  PROVE  StreamInv'
<1>1. StreamTypes /\ Untouched /\ Progress /\ conn \in ConnTypes
  BY DEF StreamInv, StatusInv
<1>2. pc = "chat" /\ pc' = "unwind" /\ UNCHANGED <<req, gone, payload, tr, handler>>
      /\ conn' = WriteHeader(conn, 200)
  BY DEF ChatAnswers
<1>3. pc \in Before /\ pc # "idle"
  BY <1>2 DEF Before
<1>4. /\ seen = NewClient("none") /\ engine = NewEngine /\ tr = newAnthropicStream
      /\ handler.audit = <<>> /\ handler.outcome = "" /\ ~conn.sse
  BY <1>1, <1>3 DEF Untouched
<1>5. /\ ~handler.audited /\ req \in Reqs /\ req.route \in {"chat", "messages"}
      /\ req.engine \in {"ollama", "compat"}
  <2>1. ~handler.audited /\ req \in Reqs /\ req.route \in Completions
    BY <1>1, <1>2, <1>3, <1>4 DEF Progress
  <2>2. QED
    BY <2>1 DEF Reqs, Completions
<1>6. engine.calls = 0 /\ engine.sent = 0 /\ engine.reason = "" /\ EngineCounts
  <2>1. engine.calls = 0 /\ engine.sent = 0
    BY <1>4, EngineNew
  <2>2. engine.reason = ""
    BY <1>4, EngineNew
  <2>3. EngineCounts
    BY <2>1 DEF EngineCounts
  <2>4. QED
    BY <2>1, <2>2, <2>3
<1>7. /\ Continues(reply) /\ reply.finish \in Finishes
      /\ \A i \in DOMAIN reply.pieces : reply.pieces[i].kind = "tool" <=> reply.pieces[i].name
      /\ req.engine = "ollama" /\ NewCalls(reply) > 0 => reply.finish = "tool_calls"
  BY <1>6, RepliesContinue
<1>8. reply.pieces \in Seq(PieceTypes) /\ Len(reply.pieces) <= 3
  BY <1>7 DEF Continues, ChunkTypes
<1>9. PICK units \in Seq(Units) : units = AuditText(reply.pieces)
  BY <1>8, TextTyped
<1>10. PICK tools \in BOOLEAN : tools <=> \E i \in DOMAIN reply.pieces : reply.pieces[i].kind = "tool"
  OBVIOUS
<1>11. CalledTools(units) <=> tools
  BY <1>7, <1>8, <1>9, <1>10, CalledText
<1>12. tools <=> NewCalls(reply) > 0
  BY <1>7, <1>10 DEF Continues
<1>13. PICK stop \in Stops : stop = IF req.route = "chat" THEN reply.finish
                                    ELSE openAIToAnthropic(reply).stop
  <2>1. openAIToAnthropic(reply).stop
          = StopReason(reply.finish, \E i \in DOMAIN reply.pieces : reply.pieces[i].kind = "tool")
    BY DEF openAIToAnthropic
  <2>2. reply.finish \in Stops /\ openAIToAnthropic(reply).stop \in Stops
    BY <1>7, <2>1, ReasonNames
  <2>3. QED
    BY <2>2
<1>14. req.route # "chat" =>
         /\ tools => stop = "tool_use"
         /\ ~tools /\ reply.finish = "length" => stop = "max_tokens"
  <2>1. SUFFICES ASSUME req.route # "chat"
                 PROVE  /\ tools => stop = "tool_use"
                        /\ ~tools /\ reply.finish = "length" => stop = "max_tokens"
    OBVIOUS
  <2>2. stop = StopReason(reply.finish, \E i \in DOMAIN reply.pieces : reply.pieces[i].kind = "tool")
    BY <1>13, <2>1 DEF openAIToAnthropic
  <2>3. QED
    BY <1>7, <1>10, <2>2, ReasonNames
<1>15. PICK e : e = After(reply, TRUE, reply.finish)
  OBVIOUS
<1>16. e \in EngineTypes /\ e.reason = LastFinish(engine.reason, reply.finish)
  <2>1. engine.sent + Len(reply.pieces) <= MaxPieces + 3
    <3>1. PICK n \in Nat : n = Len(reply.pieces)
      BY <1>8
    <3>2. n <= 3 /\ MaxPieces \in Nat
      BY <1>8, <3>1, CompletionAssumption
    <3>3. 0 + n <= MaxPieces + 3
      BY <3>2
    <3>4. engine.sent = 0
      BY <1>6
    <3>5. QED
      BY <3>1, <3>3, <3>4
  <2>2. engine \in EngineTypes
    BY <1>1 DEF StreamTypes
  <2>3. PICK yes \in BOOLEAN : yes = TRUE
    OBVIOUS
  <2>4. e = After(reply, yes, reply.finish)
    BY <1>15, <2>3
  <2>5. QED
    BY <1>7, <2>1, <2>2, <2>4, AfterChunk
<1>17. engine' \in EngineTypes /\ engine'.reason = reply.finish
  <2>1. engine' = [e EXCEPT !.eof = TRUE]
    BY <1>15 DEF ChatAnswers
  <2>2. e.reason = reply.finish
    BY <1>6, <1>16 DEF LastFinish
  <2>3. QED
    BY <1>16, <2>1, <2>2 DEF EngineTypes
<1>18. log'.interaction = [text |-> units, mark |-> ""] /\ log'.interaction \in RecordTypes
       /\ DOMAIN log' = {"request", "interaction", "metric"}
  <2>1. log' = [log EXCEPT !.interaction = [text |-> units, mark |-> ""]]
    BY <1>9 DEF ChatAnswers
  <2>2. log'.interaction = [text |-> units, mark |-> ""]
        /\ DOMAIN log' = {"request", "interaction", "metric"}
    BY <1>1, <2>1 DEF StreamTypes
  <2>3. [text |-> units, mark |-> ""] \in RecordTypes
    BY DEF RecordTypes
  <2>4. QED
    BY <2>2, <2>3
<1>19. /\ seen' \in ClientTypes /\ ~seen'.nameless /\ seen'.phase # "bad"
       /\ IF gone THEN seen'.got = <<>> /\ seen'.stop = ""
          ELSE seen'.got = units /\ seen'.stop = stop
  <2>1. seen \in ClientTypes
    BY <1>1 DEF StreamTypes
  <2>2. CASE gone
    BY <1>4, <2>1, <2>2, NoneShown DEF ChatAnswers, Reads
  <2>3. CASE ~gone
    <3>1. PICK phase \in Phases : phase = "reply"
      BY PhaseNames
    <3>2. seen' = GotIt(seen, phase, units, stop)
      BY <1>9, <1>13, <2>3, <3>1 DEF ChatAnswers, Reads, GotIt
    <3>3. /\ seen' \in ClientTypes /\ seen'.phase = phase /\ seen'.got = units
          /\ seen'.stop = stop /\ seen'.nameless = seen.nameless
      BY <2>1, <3>2, ClientReads
    <3>4. ~seen.nameless
      BY <1>4, NoneShown
    <3>5. QED
      BY <2>3, <3>1, <3>3, <3>4
  <2>4. QED
    BY <2>2, <2>3
<1>20. ASSUME seen'.stop # "", ~RelayedAsIs' PROVE StopIsRight'
  <2>1. ~gone /\ seen'.got = units /\ seen'.stop = stop
    BY <1>19, <1>20
  <2>2. req.route = "chat" => req.engine = "ollama" /\ stop = reply.finish
    BY <1>2, <1>5, <1>13, <1>20 DEF RelayedAsIs
  <2>3. CalledTools(seen'.got) => seen'.stop \in {"tool_calls", "tool_use"}
    BY <1>7, <1>11, <1>12, <1>14, <2>1, <2>2
  <2>4. ~CalledTools(seen'.got) /\ engine'.reason = "length" => seen'.stop \in {"length", "max_tokens"}
    BY <1>11, <1>14, <1>17, <2>1, <2>2
  <2>5. QED
    BY <2>3, <2>4 DEF StopIsRight
<1>21. ~conn'.sse
  BY <1>1, <1>2, <1>4, HeaderKeeps
<1>22. StreamTypes'
  BY <1>1, <1>2, <1>17, <1>18, <1>19 DEF StreamTypes
<1>23. log'.interaction.mark = ""
       /\ (log'.interaction.text = seen'.got \/ (gone' /\ seen'.got = <<>>))
  <2>1. log'.interaction.mark = "" /\ log'.interaction.text = units /\ gone' = gone
    <3>1. gone' = gone
      BY <1>2
    <3>2. PICK i : i = log'.interaction
      OBVIOUS
    <3>3. i = [text |-> units, mark |-> ""]
      BY <1>18, <3>2
    <3>4. i.mark = "" /\ i.text = units
      BY <3>3
    <3>5. QED
      BY <3>1, <3>2, <3>4
  <2>2. CASE gone
    BY <1>19, <2>1, <2>2
  <2>3. CASE ~gone
    BY <1>19, <2>1, <2>3
  <2>4. QED
    BY <2>2, <2>3
<1>24. ~handler'.audited /\ handler'.audit = <<>> /\ handler'.outcome = "" /\ tr'.open = "none"
       /\ req' \in Reqs
  BY <1>2, <1>4, <1>5, TranslatorNew
<1>25. QED
  BY <1>2, <1>19, <1>20, <1>21, <1>22, <1>23, <1>24, Short

LEMMA ClientStarts ==
  ASSUME NEW phase \in Phases
  PROVE  /\ NewClient(phase) \in ClientTypes /\ NewClient(phase).phase = phase
         /\ NewClient(phase).next = 0 /\ NewClient(phase).got = <<>>
         /\ NewClient(phase).stop = "" /\ ~NewClient(phase).nameless
<1>1. PICK k : k = NewClient(phase)
  OBVIOUS
<1>2. k = [phase |-> phase, next |-> 0, got |-> <<>>, stop |-> "", nameless |-> FALSE]
  BY <1>1 DEF NewClient
<1>3. k.phase = phase /\ k.next = 0 /\ k.got = <<>> /\ k.stop = "" /\ ~k.nameless
  BY <1>2
<1>4. k \in ClientTypes
  <2>1. PICK got \in Seq(Units) : got = <<>>
    <3>1. <<>> \in Seq(Units)
      OBVIOUS
    <3>2. QED
      BY <3>1
  <2>2. PICK stop \in Stops : stop = ""
    BY DEF Stops, Finishes
  <2>3. [phase |-> phase, next |-> 0, got |-> got, stop |-> stop, nameless |-> FALSE] \in ClientTypes
    BY DEF ClientTypes
  <2>4. QED
    BY <1>2, <2>1, <2>2, <2>3
<1>5. QED
  BY <1>1, <1>3, <1>4

LEMMA NothingCalled == ~CalledTools(<<>>)
BY DEF CalledTools

LEMMA StepsAccept ==
  ASSUME StreamInv, StatusInv, StreamChat PROVE StreamInv'
<1>1. StreamTypes /\ Untouched /\ Progress /\ conn \in ConnTypes
  BY DEF StreamInv, StatusInv
<1>2. /\ pc = "open" /\ UNCHANGED <<req, gone, engine, payload, tr, log>>
      /\ pc' = IF req.route = "chat" THEN "recv" ELSE "start"
      /\ handler' = [handler EXCEPT !.audited = TRUE]
      /\ conn' = [WriteHeader(conn, 200) EXCEPT !.sse = TRUE]
  BY DEF StreamChat
<1>3. /\ seen = NewClient("none") /\ engine = NewEngine /\ payload = NoChunk
      /\ tr = newAnthropicStream /\ handler.audit = <<>> /\ handler.outcome = ""
      /\ ~handler.panicking /\ req \in Reqs /\ req.route \in Completions
  BY <1>1, <1>2 DEF Untouched, Progress, Before
<1>4. conn'.sse /\ conn'.wrote
  BY <1>1, <1>2 DEF WriteHeader, ConnTypes
<1>5. /\ handler' \in HandlerTypes /\ handler'.audited /\ handler'.audit = <<>>
      /\ handler'.outcome = "" /\ ~handler'.panicking
  BY <1>1, <1>2, <1>3 DEF HandlerTypes, StreamTypes
<1>6. PICK phase \in Phases : phase = IF req.route = "chat" THEN "open" ELSE "waiting"
  BY PhaseNames
<1>7. /\ seen' \in ClientTypes /\ seen'.got = <<>> /\ seen'.stop = "" /\ ~seen'.nameless
      /\ seen'.phase # "bad" /\ (~gone => seen'.phase = phase /\ seen'.next = 0)
  <2>1. CASE gone
    BY <1>3, <2>1, NoneShown, NoneTyped DEF StreamChat, Reads
  <2>2. CASE ~gone
    <3>1. seen' = NewClient(phase)
      BY <1>6, <2>2 DEF StreamChat, Reads
    <3>2. QED
      BY <1>6, <2>2, <3>1, ClientStarts
  <2>3. QED
    BY <2>1, <2>2
<1>8. pc' \in {"start", "recv"} /\ (pc' = "recv" <=> req.route = "chat")
      /\ (pc' = "start" => req.route = "messages")
  BY <1>2, <1>3 DEF Completions
<1>9. pc' \notin Before \cup {"write", "interrupted", "finish", "unwind", "done"} /\ pc' # "idle"
  BY <1>8 DEF Before
<1>10. StreamTypes' /\ Untouched'
  <2>1. pc' \in Relaying \cup {"start"}
    BY <1>8 DEF Relaying
  <2>2. QED
    BY <1>1, <1>2, <1>5, <1>7, <1>9, <2>1 DEF StreamTypes, Untouched
<1>11. Progress'
  BY <1>2, <1>3, <1>4, <1>5, <1>8, <1>9, EngineNew DEF Progress
<1>12. ASSUME ~gone' PROVE Told'
  BY <1>2, <1>6, <1>7, <1>8, <1>9, <1>12 DEF Told, Relaying
<1>13. Audited'
  <2>1. PICK a \in Seq(Units) : a = <<>>
    <3>1. <<>> \in Seq(Units)
      OBVIOUS
    <3>2. QED
      BY <3>1
  <2>2. Trunc(a) = a /\ IsPrefix(a, a) /\ Len(a) <= AuditLimit
    BY <2>1, TruncTyped, PrefixOfSelf, EmptyFits
  <2>3. seen'.got = a /\ handler'.audit = a
    BY <1>5, <1>7, <2>1
  <2>4. QED
    BY <1>4, <1>9, <2>2, <2>3 DEF Audited
<1>14. Translating'
  <2>1. tr'.open = "none" /\ ~tr'.sawTool /\ tr'.finish = ""
    BY <1>2, <1>3, TranslatorNew
  <2>2. engine'.calls = 0 /\ engine'.last = -1
    BY <1>2, <1>3, EngineNew
  <2>3. engine'.reason = ""
    BY <1>2, <1>3, EngineNew
  <2>4. ~(engine'.calls > 0) /\ Follows(tr', engine'.last)
    BY <2>2 DEF Follows
  <2>5. pc' # "write"
    BY <1>9
  <2>6. QED
    BY <2>1, <2>2, <2>3, <2>4, <2>5 DEF Translating
<1>15. Called'
  <2>1. engine'.calls = 0
    BY <1>2, <1>3, EngineNew
  <2>2. ~(engine'.calls > 0)
    BY <2>1
  <2>3. ~CalledTools(seen'.got)
    BY <1>7, NothingCalled
  <2>4. pc' # "write"
    BY <1>9
  <2>5. QED
    BY <2>2, <2>3, <2>4 DEF Called
<1>16. Stopped' /\ WellFormed' /\ ClientIsTold'
  BY <1>7, <1>9 DEF Stopped, WellFormed, ClientIsTold, Ended
<1>17. QED
  BY <1>10, <1>11, <1>12, <1>13, <1>14, <1>15, <1>16 DEF StreamInv

-----------------------------------------------------------------------------
(* Steps of a stream that relay nothing.                                   *)

\* A handler that gives up on a client that has left.
LEMMA StepsAbandon ==
  ASSUME StreamInv, pc \in {"start", "write"}, gone,
         handler' = [handler EXCEPT !.outcome = "client disconnected"], pc' = "unwind",
         payload' \in ChunkTypes, Len(payload'.pieces) <= 3,
         UNCHANGED <<req, conn, seen, gone, engine, tr, log>>
  PROVE  StreamInv'
<1>1. StreamTypes /\ Progress /\ Audited /\ handler \in HandlerTypes
  BY DEF StreamInv, StreamTypes
<1>2. /\ handler' \in HandlerTypes /\ (handler'.audited <=> handler.audited)
      /\ (handler'.panicking <=> handler.panicking) /\ handler'.audit = handler.audit
      /\ handler'.outcome = "client disconnected"
  BY <1>1 DEF HandlerTypes
<1>3. pc' \notin Before \cup Relaying \cup {"start", "finish", "done", "write"}
  BY DEF Before, Relaying
<1>4. conn.sse /\ ~handler.panicking
  BY <1>1 DEF Progress, Relaying
<1>5. StreamTypes' /\ Untouched'
  BY <1>1, <1>2, <1>3 DEF StreamTypes, Untouched
<1>6. Progress'
  BY <1>1, <1>2, <1>3, <1>4 DEF Progress, Before
<1>7. gone' /\ conn'.sse
  BY <1>4
<1>8. Audited'
  <2>1. Len(handler'.audit) <= AuditLimit /\ IsPrefix(Trunc(seen'.got), handler'.audit)
    BY <1>1, <1>2, <1>4 DEF Audited
  <2>2. QED
    BY <1>3, <1>7, <2>1 DEF Audited
<1>9. Translating' /\ Called'
  BY <1>3, <1>7 DEF StreamInv, Translating, Called, Relaying
<1>10. Stopped' /\ WellFormed' /\ ClientIsTold'
  BY <1>3 DEF StreamInv, Stopped, StopIsRight, RelayedAsIs, WellFormed, ClientIsTold, Ended
<1>11. QED
  BY <1>5, <1>6, <1>7, <1>8, <1>9, <1>10 DEF StreamInv

\* What the client reads when only its phase moves.
LEMMA OnlyPhase ==
  ASSUME seen \in ClientTypes, NEW phase, NEW r, PhaseMoves(seen, phase, r), phase # "bad",
         seen.phase # "bad", Reads(r)
  PROVE  /\ seen' \in ClientTypes /\ seen'.got = seen.got /\ seen'.stop = seen.stop
         /\ seen'.next = seen.next /\ seen'.nameless = seen.nameless /\ seen'.phase # "bad"
         /\ ~gone => seen'.phase = phase
<1>1. CASE gone
  BY <1>1 DEF Reads
<1>2. CASE ~gone
  BY <1>2 DEF Reads, PhaseMoves
<1>3. QED
  BY <1>1, <1>2

LEMMA StepsStart ==
  ASSUME StreamInv, SendStart PROVE StreamInv'
<1>1. pc = "start" /\ UNCHANGED <<req, conn, gone, engine, payload, log>>
  BY DEF SendStart
<1>2. StreamTypes /\ Progress /\ WellFormed
  BY DEF StreamInv
<1>3. CASE Abandon("client disconnected")
  BY <1>1, <1>2, <1>3, StepsAbandon DEF Abandon, StreamTypes
<1>4. CASE /\ Reads(ParseEvent(seen, Event("message_start", 0, <<>>)))
           /\ pc' = "recv" /\ UNCHANGED <<tr, handler>>
  <2>1. seen.phase # "bad" /\ seen \in ClientTypes
    BY <1>1, <1>2 DEF WellFormed, StreamTypes
  <2>2. /\ seen' \in ClientTypes /\ seen'.got = seen.got /\ seen'.stop = seen.stop
        /\ seen'.next = seen.next /\ seen'.nameless = seen.nameless /\ seen'.phase # "bad"
        /\ ~gone => seen'.phase = "between"
    <3>1. CASE gone
      BY <1>4, <2>1, <3>1 DEF Reads
    <3>2. CASE ~gone
      <4>1. seen.phase = "waiting"
        BY <1>1, <3>2 DEF StreamInv, Told
      <4>2. QED
        BY <1>4, <2>1, <4>1, StartRead, OnlyPhase
    <3>3. QED
      BY <3>1, <3>2
  <2>3. pc' \notin Before \cup {"start", "write", "finish", "unwind", "done", "interrupted"}
        /\ pc' \in Relaying
    BY <1>4 DEF Before, Relaying
  <2>4. /\ conn.sse /\ ~handler.panicking /\ ~engine.eof /\ handler.outcome = ""
        /\ req.route = "messages" /\ tr = newAnthropicStream
    BY <1>1, <1>2 DEF Progress
  <2>5. StreamTypes' /\ Untouched' /\ Progress'
    BY <1>1, <1>2, <1>4, <2>2, <2>3, <2>4 DEF StreamTypes, Untouched, Progress
  <2>6. ASSUME ~gone' PROVE Told'
    <3>1. seen.next = 0
      BY <1>1, <2>6 DEF StreamInv, Told
    <3>2. seen'.phase = "between" /\ seen'.next = 0
      BY <1>1, <2>2, <2>6, <3>1
    <3>3. tr'.open = "none" /\ tr'.blockIndex = -1
      BY <1>4, <2>4, TranslatorNew
    <3>4. Synced(seen, tr)'
      BY <3>2, <3>3 DEF Synced
    <3>5. QED
      BY <1>1, <2>3, <2>4, <3>4 DEF Told
  <2>7. Audited'
    BY <1>1, <1>4, <2>2, <2>3 DEF StreamInv, Audited
  <2>8. Translating'
    BY <1>1, <1>4 DEF StreamInv, Translating
  <2>9. Called'
    BY <1>1, <1>4, <2>2 DEF StreamInv, Called
  <2>10. Stopped'
    BY <1>1, <1>4, <2>2, <2>4 DEF StreamInv, Stopped
  <2>11. WellFormed' /\ ClientIsTold'
    BY <1>1, <1>2, <1>4, <2>2 DEF WellFormed, ClientIsTold, Ended
  <2>12. QED
    BY <2>5, <2>6, <2>7, <2>8, <2>9, <2>10, <2>11 DEF StreamInv
<1>5. QED
  BY <1>3, <1>4 DEF SendStart

\* The engine's fields that the invariant is not about, and its end.
LEMMA EngineKept ==
  ASSUME engine \in EngineTypes, NEW x \in Causes \cup {"no"},
         engine' = [engine EXCEPT !.eof = TRUE] \/ engine' = [engine EXCEPT !.broke = x]
  PROVE  /\ engine' \in EngineTypes /\ (engine'.done <=> engine.done) /\ engine'.calls = engine.calls
         /\ engine'.reason = engine.reason /\ engine'.last = engine.last
         /\ (engine'.back <=> engine.back)
         /\ engine'.eof <=> engine.eof \/ engine' = [engine EXCEPT !.eof = TRUE]
<1>1. CASE engine' = [engine EXCEPT !.eof = TRUE]
  BY <1>1 DEF EngineTypes
<1>2. CASE engine' = [engine EXCEPT !.broke = x] /\ engine' # [engine EXCEPT !.eof = TRUE]
  BY <1>2 DEF EngineTypes
<1>3. QED
  BY <1>1, <1>2

LEMMA StepsRecvEnds ==
  ASSUME StreamInv, CauseInv, RecvEOF \/ RecvFails PROVE StreamInv'
<1>1. /\ pc = "recv" /\ pc' \in {"finish", "interrupted"}
      /\ UNCHANGED <<req, conn, seen, gone, payload, tr, handler, log>>
  BY DEF RecvEOF, RecvFails
<1>2. StreamTypes /\ Progress /\ WellFormed
  BY DEF StreamInv
<1>3. /\ engine' \in EngineTypes /\ (engine'.done <=> engine.done) /\ engine'.calls = engine.calls
      /\ engine'.reason = engine.reason /\ engine'.last = engine.last
      /\ (engine'.back <=> engine.back)
      /\ IF RecvEOF THEN engine'.eof /\ pc' = "finish"
         ELSE ~engine'.eof /\ ~engine.done /\ pc' = "interrupted"
  <2>1. engine \in EngineTypes /\ ~engine.eof
    BY <1>1, <1>2 DEF StreamTypes, Progress, Relaying
  <2>2. CASE RecvEOF
    <3>1. PICK x \in Causes \cup {"no"} : x = "no"
      OBVIOUS
    <3>2. engine' = [engine EXCEPT !.eof = TRUE] /\ pc' = "finish"
      BY <2>2 DEF RecvEOF
    <3>3. QED
      BY <2>1, <2>2, <3>2, EngineKept
  <2>3. CASE ~RecvEOF
    <3>1. PICK x \in Causes \cup {"no"} : x = deadline.cause
      BY DEF CauseInv, Bounded, DeadlineTypes
    <3>2. engine' = [engine EXCEPT !.broke = x] /\ pc' = "interrupted" /\ ~engine.done
      BY <2>3, <3>1 DEF RecvFails
    <3>3. engine'.eof <=> engine.eof
      BY <2>1, <3>2 DEF EngineTypes
    <3>4. QED
      BY <2>1, <2>3, <3>2, <3>3, EngineKept
  <2>4. QED
    BY <2>2, <2>3
<1>4. pc' \notin Before \cup {"idle", "start", "write", "unwind", "done"}
      /\ pc' \in Relaying \cup {"finish"}
  BY <1>1 DEF Before, Relaying
<1>5. /\ conn.sse /\ ~handler.panicking /\ ~engine.eof /\ handler.outcome = ""
  BY <1>1, <1>2 DEF Progress, Relaying
<1>6. StreamTypes' /\ Untouched'
  BY <1>1, <1>2, <1>3, <1>4 DEF StreamTypes, Untouched
<1>7. Progress'
  BY <1>1, <1>2, <1>3, <1>4, <1>5 DEF Progress, Relaying
<1>8. ASSUME ~gone' PROVE Told'
  <2>1. IF req.route = "chat" THEN seen.phase = "open" ELSE Synced(seen, tr)
    BY <1>1, <1>8 DEF StreamInv, Told, Relaying
  <2>2. IF req'.route = "chat" THEN seen'.phase = "open" ELSE Synced(seen, tr)'
    BY <1>1, <2>1 DEF Synced
  <2>3. pc' = "finish" => engine'.eof
    BY <1>3
  <2>4. QED
    BY <1>4, <2>2, <2>3 DEF Told
<1>9. Audited'
  BY <1>1, <1>4 DEF StreamInv, Audited
<1>10. Translating'
  BY <1>1, <1>3 DEF StreamInv, Translating
<1>11. Called'
  BY <1>1, <1>3 DEF StreamInv, Called
<1>12. Stopped'
  BY <1>1, <1>3 DEF StreamInv, Stopped, StopIsRight, RelayedAsIs
<1>13. WellFormed' /\ ClientIsTold'
  BY <1>1, <1>2, <1>3, <1>4 DEF WellFormed, ClientIsTold, Ended
<1>14. QED
  BY <1>6, <1>7, <1>8, <1>9, <1>10, <1>11, <1>12, <1>13 DEF StreamInv

LEMMA StepsInterrupted ==
  ASSUME StreamInv, Interrupted PROVE StreamInv'
<1>1. /\ pc = "interrupted" /\ UNCHANGED <<req, conn, gone, engine, payload, tr, log>>
      /\ pc' = IF req.route = "chat" THEN "finish" ELSE "unwind"
  BY DEF Interrupted
<1>2. StreamTypes /\ Progress /\ WellFormed /\ handler \in HandlerTypes
  BY DEF StreamInv, StreamTypes
<1>3. /\ handler' \in HandlerTypes /\ (handler'.audited <=> handler.audited)
      /\ (handler'.panicking <=> handler.panicking) /\ handler'.audit = handler.audit
      /\ handler'.outcome = "stream interrupted"
  <2>1. PICK e \in {"", "engine", "idle", "max"} : e = cause(deadline)
    BY DEF cause
  <2>2. handler' = [handler EXCEPT !.outcome = "stream interrupted", !.err = e]
    BY <2>1 DEF Interrupted
  <2>3. QED
    BY <1>2, <2>2 DEF HandlerTypes
<1>4. seen.phase # "bad" /\ seen \in ClientTypes
  BY <1>1, <1>2 DEF WellFormed, StreamTypes
<1>5. /\ conn.sse /\ ~handler.panicking /\ ~engine.eof
  BY <1>1, <1>2 DEF Progress, Relaying
<1>6. /\ seen' \in ClientTypes /\ seen'.got = seen.got /\ seen'.stop = seen.stop
      /\ seen'.nameless = seen.nameless /\ seen'.phase # "bad"
      /\ ~gone => seen'.phase = IF req.route = "chat" THEN "error" ELSE "failed"
  <2>1. CASE gone
    BY <1>4, <2>1 DEF Interrupted, Reads
  <2>2. CASE ~gone /\ req.route = "chat"
    <3>1. seen.phase = "open"
      BY <1>1, <2>2 DEF StreamInv, Told, Relaying
    <3>2. Reads(ParseFrame(seen, ErrorFrame))
      BY <2>2 DEF Interrupted, WithError
    <3>3. QED
      BY <1>4, <2>2, <3>1, <3>2, ErrorFramed, OnlyPhase
  <2>3. CASE ~gone /\ req.route # "chat"
    <3>1. Synced(seen, tr)
      BY <1>1, <2>3 DEF StreamInv, Told, Relaying
    <3>2. tr.open \in {"none", "text", "tool"}
      BY <1>2 DEF StreamTypes, TranslatorTypes
    <3>3. seen.phase \in InStream
      BY <3>1, <3>2 DEF Synced, InStream
    <3>4. Reads(ParseEvent(seen, Event("error", 0, <<>>)))
      BY <2>3 DEF Interrupted, WithError
    <3>5. QED
      BY <1>4, <2>3, <3>3, <3>4, ErrorRead, OnlyPhase
  <2>4. QED
    BY <2>1, <2>2, <2>3
<1>7. pc' \notin Before \cup Relaying \cup {"idle", "start", "write", "done", "recv", "interrupted"}
      /\ pc' \in {"finish", "unwind"}
  BY <1>1 DEF Before, Relaying
<1>8. StreamTypes' /\ Untouched'
  BY <1>1, <1>2, <1>3, <1>6, <1>7 DEF StreamTypes, Untouched
<1>9. Progress'
  BY <1>1, <1>2, <1>3, <1>5, <1>7 DEF Progress, Relaying
<1>10. ASSUME ~gone' PROVE Told'
  BY <1>1, <1>3, <1>5, <1>6, <1>7, <1>10 DEF Told
<1>11. Audited'
  BY <1>1, <1>3, <1>5, <1>6, <1>7 DEF StreamInv, Audited
<1>12. Translating'
  BY <1>1, <1>7 DEF StreamInv, Translating
<1>13. Called'
  BY <1>1, <1>6, <1>7 DEF StreamInv, Called
<1>14. Stopped'
  BY <1>1, <1>6, <1>7 DEF StreamInv, Stopped, StopIsRight, RelayedAsIs
<1>15. WellFormed' /\ ClientIsTold'
  BY <1>1, <1>2, <1>6, <1>7 DEF WellFormed, ClientIsTold, Ended
<1>16. QED
  BY <1>8, <1>9, <1>10, <1>11, <1>12, <1>13, <1>14, <1>15 DEF StreamInv

-----------------------------------------------------------------------------
(* A chunk is read.                                                        *)

\* The reason a chunk gives for the end is the one the engine has, unless the
\* reply of Ollama called tools.
Reasoned(c, done, reason) ==
  IF req.engine = "ollama"
    THEN /\ ~done => reason = ""
         /\ c.finish = IF ~done THEN ""
                       ELSE IF engine.calls + NewCalls(c) > 0 THEN "tool_calls" ELSE reason
    ELSE c.finish = reason

\* What a chunk has in it, for the translator and for the client.
LEMMA ChunkHas ==
  ASSUME engine \in EngineTypes, NEW c, Continues(c)
  PROVE  /\ engine.calls \in Nat /\ NewCalls(c) \in Nat /\ c \in ChunkTypes
         /\ engine.calls + NewCalls(c) > 0 <=> engine.calls > 0 \/ HasTool(c.pieces)
         /\ engine.calls + NewCalls(c) > 0 <=> engine.calls > 0 \/ CalledTools(AuditText(c.pieces))
         /\ \A i \in DOMAIN c.pieces :
              /\ c.pieces[i] \in PieceTypes /\ c.pieces[i].index \in Nat
              /\ c.pieces[i].name => c.pieces[i].kind = "tool"
<1>1. engine.calls \in Nat /\ NewCalls(c) \in Nat /\ c \in ChunkTypes /\ c.pieces \in Seq(PieceTypes)
  BY DEF EngineTypes, Continues, ChunkTypes
<1>2. ASSUME NEW i \in DOMAIN c.pieces
      PROVE  /\ c.pieces[i] \in PieceTypes /\ c.pieces[i].index \in Nat
             /\ c.pieces[i].name => c.pieces[i].kind = "tool"
  <2>1. c.pieces[i] \in PieceTypes
    BY <1>1
  <2>2. QED
    BY <2>1, PieceTyped
<1>3. NewCalls(c) > 0 <=> \E i \in DOMAIN c.pieces : c.pieces[i].name
  BY DEF Continues
<1>4. engine.calls + NewCalls(c) > 0 <=> engine.calls > 0 \/ NewCalls(c) > 0
  BY <1>1
<1>5. engine.calls + NewCalls(c) > 0 <=> engine.calls > 0 \/ HasTool(c.pieces)
  <2>1. NewCalls(c) > 0 => HasTool(c.pieces)
    BY <1>2, <1>3 DEF HasTool
  <2>2. ASSUME HasTool(c.pieces) PROVE engine.calls + NewCalls(c) > 0
    <3>1. PICK i \in DOMAIN c.pieces : c.pieces[i].kind = "tool"
      BY <2>2 DEF HasTool
    <3>2. PICK x \in Nat : x = c.pieces[i].index
      BY <1>2
    <3>3. x < engine.calls + NewCalls(c)
      BY <3>1, <3>2 DEF Continues
    <3>4. QED
      BY <1>1, <3>3
  <2>3. QED
    BY <1>4, <2>1, <2>2
<1>6. CalledTools(AuditText(c.pieces)) <=> NewCalls(c) > 0
  BY <1>1, <1>3, CalledText
<1>7. QED
  BY <1>1, <1>2, <1>4, <1>5, <1>6

\* In front of the translator, a chunk is in order.
LEMMA ChunkInOrder ==
  ASSUME engine \in EngineTypes, tr \in TranslatorTypes, NEW c, Continues(c), NEW e,
         NEW reason \in Finishes, c.finish \in Finishes,
         e.calls = engine.calls + NewCalls(c), e.reason = LastFinish(engine.reason, reason),
         e.calls = 0 => c.finish = reason,
         e.last = IF c.pieces = <<>> THEN engine.last ELSE CallOf(Last(c.pieces)),
         \A i \in DOMAIN c.pieces : c.pieces[i].kind = "tool" /\ ~c.pieces[i].name =>
           e.back \/ engine.last = c.pieces[i].index,
         tr.open = "tool" => tr.sawTool /\ tr.toolIndex < engine.calls,
         tr.sawTool <=> engine.calls > 0, engine.calls = 0 => tr.finish = engine.reason,
         Follows(tr, engine.last)
  PROVE  /\ tr.open = "tool" => tr.sawTool /\ tr.toolIndex < e.calls
         /\ Fresh(tr, c.pieces)
         /\ \A i \in DOMAIN c.pieces : c.pieces[i].kind = "tool" => c.pieces[i].index < e.calls
         /\ e.calls > 0 <=> tr.sawTool \/ HasTool(c.pieces)
         /\ e.calls = 0 => LastFinish(tr.finish, c.finish) = e.reason
         /\ IF c.pieces = <<>> THEN Follows(tr, e.last) ELSE e.last = CallOf(Last(c.pieces))
         /\ \A i \in DOMAIN c.pieces :
              LET p == c.pieces[i]
              IN p.kind = "tool" /\ ~p.name => i = 1 /\ (e.back \/ Belongs(tr, p))
<1>1. /\ engine.calls \in Nat /\ NewCalls(c) \in Nat /\ tr.toolIndex \in Nat
      /\ e.calls \in Nat /\ engine.calls <= e.calls /\ (e.calls = 0 => engine.calls = 0)
  <2>1. engine.calls \in Nat /\ NewCalls(c) \in Nat
    BY ChunkHas
  <2>2. tr.toolIndex \in Nat
    BY DEF TranslatorTypes
  <2>3. QED
    BY <2>1, <2>2
<1>2. tr.open = "tool" => tr.sawTool /\ tr.toolIndex < e.calls
  BY <1>1
<1>3. Fresh(tr, c.pieces)
  <2>1. ASSUME NEW i \in DOMAIN c.pieces, c.pieces[i].name, tr.open = "tool"
        PROVE  tr.toolIndex # c.pieces[i].index
    <3>1. PICK x \in Nat : x = c.pieces[i].index
      BY ChunkHas
    <3>2. x >= engine.calls
      BY <2>1, <3>1 DEF Continues
    <3>3. tr.toolIndex < engine.calls
      BY <2>1
    <3>4. QED
      BY <1>1, <3>1, <3>2, <3>3
  <2>2. ASSUME NEW i \in DOMAIN c.pieces, c.pieces[i].name
        PROVE  \A j \in 1..(i - 1) : c.pieces[j].kind = "tool" => c.pieces[j].index # c.pieces[i].index
    BY <2>2 DEF Continues
  <2>3. QED
    BY <2>1, <2>2 DEF Fresh
<1>4. \A i \in DOMAIN c.pieces : c.pieces[i].kind = "tool" => c.pieces[i].index < e.calls
  BY DEF Continues
<1>5. e.calls > 0 <=> tr.sawTool \/ HasTool(c.pieces)
  BY ChunkHas
<1>6. e.calls = 0 => LastFinish(tr.finish, c.finish) = e.reason
  BY <1>1
<1>7. IF c.pieces = <<>> THEN Follows(tr, e.last) ELSE e.last = CallOf(Last(c.pieces))
  BY DEF Follows
<1>8. ASSUME NEW i \in DOMAIN c.pieces, c.pieces[i].kind = "tool", ~c.pieces[i].name
      PROVE  i = 1 /\ (e.back \/ Belongs(tr, c.pieces[i]))
  <2>1. i = 1
    BY <1>8 DEF Continues
  <2>2. ASSUME engine.last = c.pieces[i].index PROVE Belongs(tr, c.pieces[i])
    <3>1. c.pieces[i].index \in Nat
      BY ChunkHas
    <3>2. engine.last # -1
      BY <2>2, <3>1
    <3>3. tr.open = "tool" /\ tr.toolIndex = engine.last
      BY <3>2 DEF Follows
    <3>4. QED
      BY <1>8, <2>2, <3>3 DEF Belongs
  <2>3. QED
    BY <1>8, <2>1, <2>2
<1>9. QED
  BY <1>2, <1>3, <1>4, <1>5, <1>6, <1>7, <1>8

LEMMA StepsReceived ==
  ASSUME StreamInv, NEW c, NEW done \in BOOLEAN, NEW reason \in Finishes,
         Received(c, done, reason), Continues(c), c.finish \in Finishes, Reasoned(c, done, reason)
  PROVE  StreamInv'
<1>1. /\ pc = "recv" /\ pc' = "write" /\ ~engine.done /\ payload' = c
      /\ UNCHANGED <<req, conn, seen, gone, tr, handler, log>>
  BY DEF Received
<1>2. StreamTypes /\ Progress /\ WellFormed /\ engine \in EngineTypes /\ tr \in TranslatorTypes
  BY DEF StreamInv, StreamTypes
<1>3. PICK e : e = After(c, done, reason)
  OBVIOUS
<1>4. engine' = e
  BY <1>3 DEF Received
<1>5. /\ e \in EngineTypes /\ (e.done <=> done) /\ e.calls = engine.calls + NewCalls(c)
      /\ (e.eof <=> engine.eof) /\ e.reason = LastFinish(engine.reason, reason)
      /\ e.last = IF c.pieces = <<>> THEN engine.last ELSE CallOf(Last(c.pieces))
      /\ engine.back => e.back
      /\ \A i \in DOMAIN c.pieces :
           c.pieces[i].kind = "tool" /\ ~c.pieces[i].name =>
             e.back \/ engine.last = c.pieces[i].index
  <2>1. engine.sent + Len(c.pieces) <= MaxPieces + 3
    <3>1. PICK n \in Nat : n = Len(c.pieces)
      <4>1. c.pieces \in Seq(PieceTypes)
        BY DEF Continues, ChunkTypes
      <4>2. QED
        BY <4>1
    <3>2. PICK m \in Int : m = engine.sent
      BY <1>2 DEF EngineTypes, Numbers
    <3>3. m + n <= MaxPieces
      BY <3>1, <3>2 DEF Received
    <3>4. QED
      BY <3>1, <3>2, <3>3, CompletionAssumption
  <2>2. QED
    BY <1>2, <1>3, <2>1, AfterChunk
<1>6. /\ conn.sse /\ ~handler.panicking /\ ~engine.eof /\ handler.outcome = "" /\ req \in Reqs
  BY <1>1, <1>2 DEF Progress, Relaying
<1>7. pc' \notin Before \cup {"idle", "start", "recv", "interrupted", "finish", "unwind", "done"}
      /\ pc' \in Relaying
  BY <1>1 DEF Before, Relaying
<1>8. c \in ChunkTypes /\ Len(c.pieces) <= 3
  BY DEF Continues
<1>9. StreamTypes' /\ Untouched'
  BY <1>1, <1>2, <1>4, <1>5, <1>7, <1>8 DEF StreamTypes, Untouched
<1>10. Progress'
  BY <1>1, <1>2, <1>4, <1>5, <1>6, <1>7 DEF Progress
<1>11. ASSUME ~gone' PROVE Told'
  <2>1. IF req.route = "chat" THEN seen.phase = "open" ELSE Synced(seen, tr)
    BY <1>1, <1>11 DEF StreamInv, Told, Relaying
  <2>2. IF req'.route = "chat" THEN seen'.phase = "open" ELSE Synced(seen, tr)'
    BY <1>1, <2>1 DEF Synced
  <2>3. QED
    BY <1>7, <2>2 DEF Told
<1>12. Audited'
  BY <1>1, <1>7 DEF StreamInv, Audited
<1>13. e.calls = 0 => c.finish = reason
  <2>1. engine.calls + NewCalls(c) = 0 => ~(engine.calls + NewCalls(c) > 0)
    OBVIOUS
  <2>2. QED
    BY <1>5, <2>1 DEF Reasoned
<1>14. Translating'
  <2>1. SUFFICES ASSUME req.route = "messages" PROVE Translating'
    BY <1>1 DEF Translating
  <2>2. /\ tr.open = "tool" => tr.sawTool /\ tr.toolIndex < engine.calls
        /\ tr.sawTool <=> engine.calls > 0
        /\ engine.calls = 0 => tr.finish = engine.reason
        /\ Follows(tr, engine.last)
    BY <1>1, <2>1 DEF StreamInv, Translating
  <2>3. /\ tr.open = "tool" => tr.sawTool /\ tr.toolIndex < e.calls
        /\ Fresh(tr, c.pieces)
        /\ \A i \in DOMAIN c.pieces : c.pieces[i].kind = "tool" => c.pieces[i].index < e.calls
        /\ e.calls > 0 <=> tr.sawTool \/ HasTool(c.pieces)
        /\ e.calls = 0 => LastFinish(tr.finish, c.finish) = e.reason
        /\ IF c.pieces = <<>> THEN Follows(tr, e.last) ELSE e.last = CallOf(Last(c.pieces))
        /\ \A i \in DOMAIN c.pieces :
             LET p == c.pieces[i]
             IN p.kind = "tool" /\ ~p.name => i = 1 /\ (e.back \/ Belongs(tr, p))
    BY <1>2, <1>5, <1>13, <2>2, ChunkInOrder
  <2>4. QED
    BY <1>1, <1>4, <1>7, <2>3 DEF Translating
<1>15. Called'
  <2>1. SUFFICES ASSUME ~gone PROVE Called'
    BY <1>1 DEF Called
  <2>2. CalledTools(seen.got) <=> engine.calls > 0
    BY <1>1, <2>1 DEF StreamInv, Called
  <2>3. e.calls > 0 <=> CalledTools(seen.got) \/ CalledTools(AuditText(c.pieces))
    BY <1>2, <1>5, <2>2, ChunkHas
  <2>4. QED
    BY <1>1, <1>4, <1>7, <2>3 DEF Called
<1>16. Stopped'
  <2>1. seen.stop # "" => req.route = "chat" /\ req.engine # "ollama"
    BY <1>1 DEF StreamInv, Stopped
  <2>2. req.route = "chat" /\ req.engine # "ollama" => req.engine = "compat"
    <3>1. req \in Reqs
      BY <1>6
    <3>2. CASE req \in [route : {"chat", "messages"}, engine : {"ollama", "compat"}, stream : BOOLEAN]
      BY <3>2
    <3>3. CASE req = [route |-> "count", engine |-> "compat", stream |-> FALSE]
      BY <3>3
    <3>4. QED
      BY <3>1, <3>2, <3>3 DEF Reqs
  <2>3. seen'.stop # "" => RelayedAsIs' /\ req'.route = "chat" /\ req'.engine # "ollama"
    BY <1>1, <2>1, <2>2 DEF RelayedAsIs
  <2>4. ASSUME req.engine = "ollama", c.finish # ""
        PROVE  e.done /\ c.finish = IF e.calls > 0 THEN "tool_calls" ELSE e.reason
    <3>1. done /\ c.finish = IF e.calls > 0 THEN "tool_calls" ELSE reason
      BY <1>5, <2>4 DEF Reasoned
    <3>2. reason # "" => e.reason = reason
      BY <1>5 DEF LastFinish
    <3>3. QED
      BY <1>5, <2>4, <3>1, <3>2
  <2>5. QED
    BY <1>1, <1>4, <2>3, <2>4 DEF Stopped
<1>17. WellFormed' /\ ClientIsTold'
  BY <1>1, <1>2, <1>4, <1>5, <1>7 DEF WellFormed, ClientIsTold, Ended
<1>18. QED
  BY <1>9, <1>10, <1>11, <1>12, <1>14, <1>15, <1>16, <1>17 DEF StreamInv

LEMMA StepsRecv ==
  ASSUME StreamInv, CauseInv, Recv PROVE StreamInv'
<1>1. EngineCounts /\ engine.sent \in Nat
  <2>1. engine \in EngineTypes
    BY DEF StreamInv, StreamTypes
  <2>2. engine.calls \in Nat /\ engine.sent \in Nat
    BY <2>1 DEF EngineTypes, Numbers
  <2>3. QED
    BY <2>2 DEF EngineCounts
<1>2. ASSUME NEW c, NEW done, NEW reason, Received(c, done, reason), Len(c.pieces) \in Nat
      PROVE  /\ engine.sent + Len(c.pieces) <= MaxPieces
             /\ engine.sent + Len(c.pieces) <= MaxPieces + 3
  <2>1. PICK n \in Nat : n = Len(c.pieces)
    BY <1>2
  <2>2. engine.sent + n <= MaxPieces
    BY <1>2, <2>1 DEF Received
  <2>3. QED
    BY <1>1, <2>1, <2>2, CompletionAssumption
<1>3. ASSUME NEW line \in OllamaLines, RecvOllama(line) PROVE StreamInv'
  <2>1. PICK c : c = ollamaChunk(line)
    OBVIOUS
  <2>2. req.engine = "ollama" /\ Received(c, line.done, line.reason)
    BY <1>3, <2>1 DEF RecvOllama
  <2>3. engine.sent + Len(c.pieces) <= MaxPieces + 3
    <3>1. Len(c.pieces) \in Nat
      BY <2>1, LineLength
    <3>2. PICK done, reason : done = line.done /\ reason = line.reason
      OBVIOUS
    <3>3. QED
      BY <1>2, <2>2, <3>1, <3>2
  <2>4. /\ Continues(c)
        /\ c.finish = IF ~line.done THEN ""
                      ELSE IF engine.calls + NewCalls(c) > 0 THEN "tool_calls" ELSE line.reason
        /\ line.done \in BOOLEAN /\ line.reason \in Finishes
        /\ ~line.done => line.reason = ""
    BY <1>1, <2>1, <2>3, LineContinues
  <2>5. c.finish \in Finishes
    BY <2>4 DEF Continues, ChunkTypes
  <2>6. Reasoned(c, line.done, line.reason)
    BY <2>2, <2>4 DEF Reasoned
  <2>7. QED
    BY <2>2, <2>4, <2>5, <2>6, StepsReceived
<1>4. ASSUME NEW c \in CompatChunks, RecvCompat(c) PROVE StreamInv'
  <2>1. PICK no \in BOOLEAN : no = FALSE
    OBVIOUS
  <2>2. req.engine = "compat" /\ Received(c, no, c.finish)
    BY <1>4, <2>1 DEF RecvCompat
  <2>3. engine.sent + Len(c.pieces) <= MaxPieces
    BY <2>2 DEF Received
  <2>4. Continues(c) /\ c.finish \in Finishes
    BY <1>1, <2>3, CompatContinues
  <2>5. Reasoned(c, no, c.finish)
    BY <2>2 DEF Reasoned
  <2>6. QED
    BY <2>2, <2>4, <2>5, StepsReceived
<1>5. QED
  BY <1>3, <1>4, StepsRecvEnds DEF Recv

-----------------------------------------------------------------------------
(* A chunk is written.                                                     *)

LEMMA RouteIs ==
  ASSUME req \in Reqs, req.route \in Completions
  PROVE  /\ req.route # "chat" <=> req.route = "messages"
         /\ req.engine # "ollama" <=> req.engine = "compat"
<1>1. CASE req \in [route : {"chat", "messages"}, engine : {"ollama", "compat"}, stream : BOOLEAN]
  BY <1>1 DEF Completions
<1>2. CASE req = [route |-> "count", engine |-> "compat", stream |-> FALSE]
  BY <1>2 DEF Completions
<1>3. QED
  BY <1>1, <1>2 DEF Reqs

\* What the translator knows of a chunk it has passed on.
LEMMA TranslatorMoves ==
  ASSUME NEW s \in TranslatorTypes, NEW c \in ChunkTypes, NEW calls \in Nat, NEW last, NEW reason,
         s.open = "tool" => s.sawTool /\ s.toolIndex < calls,
         \A i \in DOMAIN c.pieces : c.pieces[i].kind = "tool" => c.pieces[i].index < calls,
         calls > 0 <=> s.sawTool \/ HasTool(c.pieces),
         calls = 0 => LastFinish(s.finish, c.finish) = reason,
         IF c.pieces = <<>> THEN Follows(s, last) ELSE last = CallOf(Last(c.pieces))
  PROVE  LET t == chunk(s, c).s
         IN /\ t \in TranslatorTypes
            /\ t.open = "tool" => t.sawTool /\ t.toolIndex < calls
            /\ t.sawTool <=> calls > 0
            /\ calls = 0 => t.finish = reason
            /\ Follows(t, last)
<1>1. PICK a : a = chunk(s, c)
  OBVIOUS
<1>2. PICK t : t = a.s
  OBVIOUS
<1>3. /\ t \in TranslatorTypes
      /\ t.open = "tool" => t.sawTool
      /\ t.sawTool <=> s.sawTool \/ HasTool(c.pieces)
      /\ t.finish = LastFinish(s.finish, c.finish)
      /\ c.pieces = <<>> => t.open = s.open /\ t.toolIndex = s.toolIndex
      /\ c.pieces # <<>> =>
           /\ Follows(t, CallOf(Last(c.pieces)))
           /\ t.open = c.pieces[Len(c.pieces)].kind
           /\ t.open = "tool" => t.toolIndex = c.pieces[Len(c.pieces)].index
  <2>1. /\ a \in TranslationTypes
        /\ a.s.open = "tool" => a.s.sawTool
        /\ a.s.sawTool <=> s.sawTool \/ HasTool(c.pieces)
        /\ a.s.finish = LastFinish(s.finish, c.finish)
        /\ c.pieces = <<>> => a.s.open = s.open /\ a.s.toolIndex = s.toolIndex
        /\ c.pieces # <<>> =>
             /\ Follows(a.s, CallOf(Last(c.pieces)))
             /\ a.s.open = c.pieces[Len(c.pieces)].kind
             /\ a.s.open = "tool" => a.s.toolIndex = c.pieces[Len(c.pieces)].index
    BY <1>1, ChunkState
  <2>2. t \in TranslatorTypes
    BY <1>2, <2>1 DEF TranslationTypes
  <2>3. QED
    BY <1>2, <2>1, <2>2
<1>4. t.open = "tool" => t.toolIndex < calls
  <2>1. CASE c.pieces = <<>>
    BY <1>3, <2>1
  <2>2. CASE c.pieces # <<>>
    <3>1. Len(c.pieces) \in DOMAIN c.pieces
      <4>1. c.pieces \in Seq(PieceTypes)
        BY DEF ChunkTypes
      <4>2. QED
        BY <2>2, <4>1
    <3>2. QED
      BY <1>3, <2>2, <3>1
  <2>3. QED
    BY <2>1, <2>2
<1>5. Follows(t, last)
  BY <1>3 DEF Follows
<1>6. QED
  BY <1>1, <1>2, <1>3, <1>4, <1>5

LEMMA AuditMoves ==
  ASSUME NEW a \in Seq(Units), NEW g \in Seq(Units), NEW u \in Seq(Units), NEW b \in Seq(Units),
         Len(a) <= AuditLimit, IsPrefix(Trunc(g), a), b = auditWrite(a, u)
  PROVE  /\ Len(b) <= AuditLimit /\ IsPrefix(Trunc(g), b)
         /\ \A h \in Seq(Units) : h = g \o u /\ a = Trunc(g) => b = Trunc(h) /\ IsPrefix(Trunc(h), b)
<1>1. Len(b) <= AuditLimit /\ IsPrefix(a, b)
  <2>1. Len(b) = (IF Len(a) + Len(u) <= AuditLimit THEN Len(a) + Len(u) ELSE AuditLimit)
        /\ IsPrefix(a, b)
    BY AuditWritten
  <2>2. PICK n \in Nat, m \in Nat : n = Len(a) /\ m = Len(u)
    OBVIOUS
  <2>3. QED
    BY <2>1, <2>2, CompletionAssumption
<1>2. PICK t \in Seq(Units) : t = Trunc(g)
  BY TruncTyped
<1>3. IsPrefix(Trunc(g), b)
  BY <1>1, <1>2, PrefixGrows
<1>4. ASSUME NEW h \in Seq(Units), h = g \o u, a = Trunc(g) PROVE b = Trunc(h) /\ IsPrefix(Trunc(h), b)
  <2>1. b = Trunc(h)
    BY <1>4, TruncGrows
  <2>2. QED
    BY <2>1, PrefixOfSelf
<1>5. QED
  BY <1>1, <1>3, <1>4

\* The client and the translator after a chunk.
LEMMA RelaySeen ==
  ASSUME StreamInv, pc = "write", NEW t, t = chunk(tr, payload),
         Reads(IF req.route = "chat" THEN ParseFrame(seen, Frame("chunk", payload))
               ELSE ParseEvents(seen, t.events)),
         tr' = IF req.route = "chat" THEN tr ELSE t.s
  PROVE  /\ seen' \in ClientTypes /\ seen'.phase # "bad" /\ (seen'.nameless => engine.back)
         /\ gone => seen' = seen
         /\ ~gone => /\ seen'.got = seen.got \o AuditText(payload.pieces)
                     /\ IF req.route = "chat" THEN seen'.phase = "open" ELSE Synced(seen', tr')
         /\ seen'.stop = IF ~gone /\ req.route = "chat" THEN LastFinish(seen.stop, payload.finish)
                         ELSE seen.stop
<1>1. StreamTypes /\ Progress /\ WellFormed /\ Translating
  BY DEF StreamInv
<1>2. /\ seen \in ClientTypes /\ tr \in TranslatorTypes /\ payload \in ChunkTypes
      /\ seen.phase # "bad" /\ (seen.nameless => engine.back)
  BY <1>1 DEF StreamTypes, WellFormed
<1>3. /\ req.route # "chat" <=> req.route = "messages"
  BY <1>1, RouteIs DEF Progress, Relaying
<1>4. CASE gone
  BY <1>2, <1>4 DEF Reads
<1>5. CASE ~gone /\ req.route = "chat"
  <2>1. seen.phase = "open"
    BY <1>5 DEF StreamInv, Told, Relaying
  <2>2. PICK r : r = ParseFrame(seen, Frame("chunk", payload))
    OBVIOUS
  <2>3. seen' = r
    BY <1>5, <2>2 DEF Reads
  <2>4. /\ r \in ClientTypes /\ r.phase = "open" /\ r.got = seen.got \o AuditText(payload.pieces)
        /\ r.stop = LastFinish(seen.stop, payload.finish) /\ r.nameless = seen.nameless
    BY <1>2, <2>1, <2>2, ChunkFramed
  <2>5. QED
    BY <1>2, <1>5, <2>3, <2>4
<1>6. CASE ~gone /\ req.route # "chat"
  <2>1. Synced(seen, tr)
    BY <1>6 DEF StreamInv, Told, Relaying
  <2>2. /\ tr.open = "tool" => tr.sawTool
        /\ Fresh(tr, payload.pieces)
        /\ \A i \in DOMAIN payload.pieces :
             payload.pieces[i].kind = "tool" /\ ~payload.pieces[i].name =>
               i = 1 /\ (engine.back \/ Belongs(tr, payload.pieces[i]))
    BY <1>1, <1>3, <1>6 DEF Translating
  <2>3. PICK b \in BOOLEAN : b <=> engine.back
    OBVIOUS
  <2>4. \A i \in DOMAIN payload.pieces :
          payload.pieces[i].kind = "tool" /\ ~payload.pieces[i].name =>
            i = 1 /\ (b \/ Belongs(tr, payload.pieces[i]))
    BY <2>2, <2>3
  <2>5. PICK r : r = ParseEvents(seen, t.events)
    OBVIOUS
  <2>6. seen' = r /\ tr' = t.s
    BY <1>6, <2>5 DEF Reads
  <2>7. /\ r \in ClientTypes /\ Synced(r, t.s)
        /\ r.got = seen.got \o AuditText(payload.pieces) /\ r.stop = seen.stop
        /\ r.nameless => seen.nameless \/ b
    <3>1. PICK k \in ClientTypes, s \in TranslatorTypes, c \in ChunkTypes :
            k = seen /\ s = tr /\ c = payload
      BY <1>2
    <3>2. /\ s.open = "tool" => s.sawTool
          /\ Fresh(s, c.pieces) /\ Synced(k, s)
      BY <2>1, <2>2, <3>1
    <3>3. \A i \in DOMAIN c.pieces :
            c.pieces[i].kind = "tool" /\ ~c.pieces[i].name => i = 1 /\ (b \/ Belongs(s, c.pieces[i]))
      BY <2>4, <3>1
    <3>4. LET x == chunk(s, c)
              y == ParseEvents(k, x.events)
          IN /\ y \in ClientTypes /\ Synced(y, x.s)
             /\ y.got = k.got \o AuditText(c.pieces) /\ y.stop = k.stop
             /\ y.nameless => k.nameless \/ b
      BY <3>2, <3>3, ChunkRelayed
    <3>5. t = chunk(s, c)
      BY <3>1
    <3>6. r = ParseEvents(k, t.events)
      BY <2>5, <3>1
    <3>7. QED
      BY <3>1, <3>4, <3>5, <3>6
  <2>8. r.phase # "bad"
    <3>1. t \in TranslationTypes
      BY <1>2, <2>2, ChunkState
    <3>2. t.s.open \in {"none", "text", "tool"}
      BY <3>1 DEF TranslationTypes, TranslatorTypes
    <3>3. QED
      BY <2>7, <3>2 DEF Synced
  <2>9. Synced(seen', tr')
    BY <2>6, <2>7
  <2>10. QED
    BY <1>2, <1>6, <2>3, <2>6, <2>7, <2>8, <2>9
<1>7. QED
  BY <1>4, <1>5, <1>6

LEMMA StepsRelay ==
  ASSUME StreamInv, Relay PROVE StreamInv'
<1>1. pc = "write" /\ payload' = NoChunk /\ UNCHANGED <<req, conn, gone, engine, log>>
  BY DEF Relay
<1>2. /\ StreamTypes /\ Progress /\ WellFormed /\ Translating /\ Audited
      /\ seen \in ClientTypes /\ handler \in HandlerTypes /\ payload \in ChunkTypes
      /\ tr \in TranslatorTypes /\ engine \in EngineTypes
  BY DEF StreamInv, StreamTypes
<1>3. payload' \in ChunkTypes /\ Len(payload'.pieces) <= 3
  <2>1. PICK c : c = NoChunk
    OBVIOUS
  <2>2. c \in ChunkTypes /\ Len(c.pieces) = 0
    BY <2>1, NoneTyped
  <2>3. QED
    BY <1>1, <2>1, <2>2
<1>4. CASE Abandon("client disconnected")
  BY <1>1, <1>3, <1>4, StepsAbandon DEF Abandon
<1>5. ASSUME NEW t, t = chunk(tr, payload),
             Reads(IF req.route = "chat" THEN ParseFrame(seen, Frame("chunk", payload))
                   ELSE ParseEvents(seen, t.events)),
             tr' = IF req.route = "chat" THEN tr ELSE t.s,
             handler' = [handler EXCEPT !.audit = auditWrite(@, AuditText(payload.pieces))],
             pc' = "recv"
      PROVE  StreamInv'
  <2>1. PICK u \in Seq(Units) : u = AuditText(payload.pieces)
    BY <1>2, TextTyped DEF ChunkTypes
  <2>2. PICK a \in Seq(Units) : a = auditWrite(handler.audit, u)
    BY <1>2, <2>1, AuditWritten DEF HandlerTypes, Audited
  <2>3. /\ handler' \in HandlerTypes /\ handler'.audit = a /\ (handler'.audited <=> handler.audited)
        /\ (handler'.panicking <=> handler.panicking) /\ handler'.outcome = handler.outcome
    <3>1. handler' = [handler EXCEPT !.audit = a]
      BY <1>5, <2>1, <2>2
    <3>2. QED
      BY <1>2, <3>1 DEF HandlerTypes
  <2>4. /\ seen' \in ClientTypes /\ seen'.phase # "bad" /\ (seen'.nameless => engine.back)
        /\ gone => seen' = seen
        /\ ~gone => /\ seen'.got = seen.got \o u
                    /\ IF req.route = "chat" THEN seen'.phase = "open" ELSE Synced(seen', tr')
        /\ seen'.stop = IF ~gone /\ req.route = "chat" THEN LastFinish(seen.stop, payload.finish)
                        ELSE seen.stop
    BY <1>1, <1>5, <2>1, RelaySeen
  <2>5. /\ conn.sse /\ ~handler.panicking /\ ~engine.eof /\ handler.outcome = ""
        /\ req \in Reqs /\ req.route \in Completions
    BY <1>1, <1>2 DEF Progress, Relaying
  <2>6. /\ req.route # "chat" <=> req.route = "messages"
        /\ req.engine # "ollama" <=> req.engine = "compat"
    BY <2>5, RouteIs
  <2>7. pc' \notin Before \cup {"idle", "start", "write", "interrupted", "finish", "unwind", "done"}
        /\ pc' \in Relaying
    BY <1>5 DEF Before, Relaying
  <2>8. req.route = "messages" =>
          LET s == tr'
          IN /\ s \in TranslatorTypes
             /\ s.open = "tool" => s.sawTool /\ s.toolIndex < engine.calls
             /\ s.sawTool <=> engine.calls > 0
             /\ engine.calls = 0 => s.finish = engine.reason
             /\ Follows(s, engine.last)
    <3>1. SUFFICES ASSUME req.route = "messages"
                   PROVE  LET s == tr'
                          IN /\ s \in TranslatorTypes
                             /\ s.open = "tool" => s.sawTool /\ s.toolIndex < engine.calls
                             /\ s.sawTool <=> engine.calls > 0
                             /\ engine.calls = 0 => s.finish = engine.reason
                             /\ Follows(s, engine.last)
      OBVIOUS
    <3>2. tr' = chunk(tr, payload).s
      BY <1>5, <2>6, <3>1
    <3>3. /\ tr.open = "tool" => tr.sawTool /\ tr.toolIndex < engine.calls
          /\ \A i \in DOMAIN payload.pieces :
               payload.pieces[i].kind = "tool" => payload.pieces[i].index < engine.calls
          /\ engine.calls > 0 <=> tr.sawTool \/ HasTool(payload.pieces)
          /\ engine.calls = 0 => LastFinish(tr.finish, payload.finish) = engine.reason
          /\ IF payload.pieces = <<>> THEN Follows(tr, engine.last)
             ELSE engine.last = CallOf(Last(payload.pieces))
      BY <1>1, <1>2, <3>1 DEF Translating
    <3>4. PICK calls \in Nat, last \in Int, reason \in Finishes :
            calls = engine.calls /\ last = engine.last /\ reason = engine.reason
      BY <1>2 DEF EngineTypes
    <3>5. /\ tr.open = "tool" => tr.sawTool /\ tr.toolIndex < calls
          /\ \A i \in DOMAIN payload.pieces :
               payload.pieces[i].kind = "tool" => payload.pieces[i].index < calls
          /\ calls > 0 <=> tr.sawTool \/ HasTool(payload.pieces)
          /\ calls = 0 => LastFinish(tr.finish, payload.finish) = reason
          /\ IF payload.pieces = <<>> THEN Follows(tr, last) ELSE last = CallOf(Last(payload.pieces))
      BY <3>3, <3>4
    <3>6. LET s == chunk(tr, payload).s
          IN /\ s \in TranslatorTypes
             /\ s.open = "tool" => s.sawTool /\ s.toolIndex < calls
             /\ s.sawTool <=> calls > 0
             /\ calls = 0 => s.finish = reason
             /\ Follows(s, last)
      BY <1>2, <3>5, TranslatorMoves
    <3>7. QED
      BY <3>2, <3>4, <3>6
  <2>9. tr' \in TranslatorTypes
    BY <1>2, <1>5, <2>6, <2>8
  <2>10. StreamTypes' /\ Untouched'
    BY <1>1, <1>2, <1>3, <2>3, <2>4, <2>7, <2>9 DEF StreamTypes, Untouched
  <2>11. Progress'
    BY <1>1, <1>2, <1>5, <2>3, <2>5, <2>7 DEF Progress
  <2>12. ASSUME ~gone' PROVE Told'
    <3>1. IF req'.route = "chat" THEN seen'.phase = "open" ELSE Synced(seen, tr)'
      BY <1>1, <2>4, <2>12
    <3>2. QED
      BY <2>7, <3>1 DEF Told
  <2>13. Audited'
    <3>1. /\ Len(handler.audit) <= AuditLimit /\ IsPrefix(Trunc(seen.got), handler.audit)
          /\ ~gone => handler.audit = Trunc(seen.got)
      BY <1>2, <2>5 DEF Audited
    <3>2. seen.got \in Seq(Units) /\ handler.audit \in Seq(Units) /\ seen'.got \in Seq(Units)
      BY <1>2, <2>4 DEF ClientTypes, HandlerTypes
    <3>3. /\ Len(a) <= AuditLimit /\ IsPrefix(Trunc(seen.got), a)
          /\ \A h \in Seq(Units) : h = seen.got \o u /\ handler.audit = Trunc(seen.got) =>
               a = Trunc(h) /\ IsPrefix(Trunc(h), a)
      <4>1. PICK g \in Seq(Units), old \in Seq(Units) : g = seen.got /\ old = handler.audit
        BY <3>2
      <4>2. Len(old) <= AuditLimit /\ IsPrefix(Trunc(g), old) /\ a = auditWrite(old, u)
        BY <2>2, <3>1, <4>1
      <4>3. /\ Len(a) <= AuditLimit /\ IsPrefix(Trunc(g), a)
            /\ \A h \in Seq(Units) : h = g \o u /\ old = Trunc(g) => a = Trunc(h) /\ IsPrefix(Trunc(h), a)
        BY <4>2, AuditMoves
      <4>4. QED
        BY <4>1, <4>3
    <3>4. IsPrefix(Trunc(seen'.got), a) /\ (~gone => a = Trunc(seen'.got))
      BY <2>4, <3>1, <3>2, <3>3
    <3>5. QED
      BY <1>1, <2>3, <2>5, <2>7, <3>3, <3>4 DEF Audited
  <2>14. Translating'
    BY <1>1, <1>5, <2>7, <2>8 DEF Translating
  <2>15. ~gone => (CalledTools(seen'.got) <=> engine.calls > 0)
    <3>1. SUFFICES ASSUME ~gone PROVE CalledTools(seen'.got) <=> engine.calls > 0
      OBVIOUS
    <3>2. engine.calls > 0 <=> CalledTools(seen.got) \/ CalledTools(u)
      BY <1>1, <2>1, <3>1 DEF StreamInv, Called
    <3>3. PICK g \in Seq(Units) : g = seen.got
      BY <1>2 DEF ClientTypes
    <3>4. CalledTools(g \o u) <=> CalledTools(g) \/ CalledTools(u)
      BY CalledConcat
    <3>5. seen'.got = g \o u
      BY <2>4, <3>1, <3>3
    <3>6. QED
      BY <3>2, <3>3, <3>4, <3>5
  <2>16. Called'
    BY <1>1, <2>7, <2>15 DEF Called
  <2>17. Stopped'
    <3>1. seen.stop # "" => req.route = "chat" /\ req.engine # "ollama"
      BY <1>1 DEF StreamInv, Stopped
    <3>2. ASSUME seen'.stop # "", req.engine = "ollama"
          PROVE  ~gone /\ req.route = "chat" /\ engine.done /\ seen'.stop = payload.finish
                 /\ payload.finish = IF engine.calls > 0 THEN "tool_calls" ELSE engine.reason
      <4>1. seen.stop = ""
        BY <3>1, <3>2
      <4>2. ~gone /\ req.route = "chat" /\ payload.finish # "" /\ seen'.stop = payload.finish
        BY <2>4, <3>2, <4>1 DEF LastFinish
      <4>3. QED
        BY <1>1, <3>2, <4>2 DEF StreamInv, Stopped
    <3>3. seen'.stop # "" => req.route = "chat"
      BY <2>4, <3>1
    <3>4. ASSUME seen'.stop # "", ~RelayedAsIs PROVE StopIsRight'
      <4>1. req.engine = "ollama"
        BY <2>6, <3>3, <3>4 DEF RelayedAsIs
      <4>2. ~gone /\ seen'.stop = IF engine.calls > 0 THEN "tool_calls" ELSE engine.reason
        BY <3>2, <3>4, <4>1
      <4>3. CASE engine.calls > 0
        BY <1>1, <2>15, <4>2, <4>3 DEF StopIsRight
      <4>4. CASE ~(engine.calls > 0)
        BY <1>1, <2>15, <4>2, <4>4 DEF StopIsRight
      <4>5. QED
        BY <4>3, <4>4
    <3>5. RelayedAsIs' <=> RelayedAsIs
      BY <1>1 DEF RelayedAsIs
    <3>6. QED
      BY <1>1, <1>5, <3>2, <3>3, <3>4, <3>5 DEF Stopped
  <2>18. WellFormed' /\ ClientIsTold'
    BY <1>1, <2>4, <2>7 DEF WellFormed, ClientIsTold, Ended
  <2>19. QED
    BY <2>10, <2>11, <2>12, <2>13, <2>14, <2>16, <2>17, <2>18 DEF StreamInv
<1>6. QED
  BY <1>4, <1>5 DEF Relay

-----------------------------------------------------------------------------
(* The end of a stream, and the way out.                                   *)

\* What the client of a stream reads at its end.
LEMMA FinishSeen ==
  ASSUME StreamInv, Finish
  PROVE  /\ seen' \in ClientTypes /\ seen'.got = seen.got /\ seen'.nameless = seen.nameless
         /\ gone => seen' = seen
         /\ ~gone => /\ seen'.phase = IF engine.eof THEN "ended" ELSE "failed"
                     /\ seen'.stop = IF req.route = "chat" THEN seen.stop
                                     ELSE StopReason(tr.finish, tr.sawTool)
<1>1. pc = "finish" /\ Reads(IF req.route = "chat" THEN ParseFrame(seen, DoneFrame)
                             ELSE ParseEvents(seen, end(tr)))
  BY DEF Finish
<1>2. StreamTypes /\ seen \in ClientTypes /\ tr \in TranslatorTypes /\ engine.eof \in BOOLEAN
  BY DEF StreamInv, StreamTypes, EngineTypes
<1>3. CASE gone
  BY <1>1, <1>2, <1>3 DEF Reads
<1>4. CASE ~gone /\ req.route = "chat"
  <2>1. seen.phase = IF engine.eof THEN "open" ELSE "error"
    BY <1>1, <1>4 DEF StreamInv, Told
  <2>2. PICK r : r = ParseFrame(seen, DoneFrame)
    OBVIOUS
  <2>3. seen' = r
    BY <1>1, <1>4, <2>2 DEF Reads
  <2>4. PhaseMoves(seen, IF seen.phase = "open" THEN "ended" ELSE "failed", r)
    BY <1>2, <2>1, <2>2, DoneFramed
  <2>5. (IF seen.phase = "open" THEN "ended" ELSE "failed") = IF engine.eof THEN "ended" ELSE "failed"
    BY <2>1
  <2>6. QED
    BY <1>4, <2>3, <2>4, <2>5 DEF PhaseMoves
<1>5. CASE ~gone /\ req.route # "chat"
  <2>1. engine.eof /\ Synced(seen, tr)
    BY <1>1, <1>5 DEF StreamInv, Told
  <2>2. PICK r : r = ParseEvents(seen, end(tr))
    OBVIOUS
  <2>3. seen' = r
    BY <1>1, <1>5, <2>2 DEF Reads
  <2>4. /\ r \in ClientTypes
        /\ r.phase = "ended" /\ r.got = seen.got /\ r.stop = StopReason(tr.finish, tr.sawTool)
        /\ r.nameless = seen.nameless
    BY <1>2, <2>1, <2>2, EndRelayed
  <2>5. QED
    BY <1>5, <2>1, <2>3, <2>4
<1>6. QED
  BY <1>3, <1>4, <1>5

LEMMA StepsFinish ==
  ASSUME StreamInv, Finish PROVE StreamInv'
<1>1. pc = "finish" /\ pc' = "unwind" /\ UNCHANGED <<req, conn, gone, engine, payload, tr, handler, log>>
  BY DEF Finish
<1>2. /\ StreamTypes /\ Progress /\ WellFormed
      /\ tr.finish \in Finishes /\ tr.sawTool \in BOOLEAN
  BY DEF StreamInv, StreamTypes, TranslatorTypes
<1>3. /\ seen' \in ClientTypes /\ seen'.got = seen.got /\ seen'.nameless = seen.nameless
      /\ gone => seen' = seen
      /\ ~gone => /\ seen'.phase = IF engine.eof THEN "ended" ELSE "failed"
                  /\ seen'.stop = IF req.route = "chat" THEN seen.stop
                                  ELSE StopReason(tr.finish, tr.sawTool)
  BY FinishSeen
<1>4. /\ conn.sse /\ ~handler.panicking /\ req.route \in Completions /\ req \in Reqs
  BY <1>1, <1>2 DEF Progress
<1>5. req.route # "chat" <=> req.route = "messages"
  BY <1>4, RouteIs
<1>6. pc' \notin Before \cup Relaying \cup {"idle", "start", "write", "interrupted", "finish", "recv", "done"}
  BY <1>1 DEF Before, Relaying
<1>7. seen'.phase # "bad"
  BY <1>1, <1>2, <1>3 DEF WellFormed
<1>8. StreamTypes' /\ Untouched'
  BY <1>1, <1>2, <1>3, <1>6 DEF StreamTypes, Untouched
<1>9. Progress'
  BY <1>1, <1>2, <1>4, <1>6 DEF Progress
<1>10. ASSUME ~gone' PROVE Told'
  BY <1>1, <1>3, <1>4, <1>6, <1>10 DEF Told
<1>11. Audited'
  BY <1>1, <1>3, <1>6 DEF StreamInv, Audited
<1>12. Translating' /\ Called'
  BY <1>1, <1>6 DEF StreamInv, Translating, Called
<1>13. Stopped'
  <2>1. CASE seen'.stop = seen.stop
    <3>1. StopIsRight => StopIsRight'
      BY <1>1, <1>3, <2>1 DEF StopIsRight
    <3>2. seen'.stop # "" /\ ~RelayedAsIs' => StopIsRight'
      BY <1>1, <2>1, <3>1 DEF StreamInv, Stopped, RelayedAsIs
    <3>3. QED
      BY <1>1, <1>6, <3>2 DEF Stopped
  <2>2. CASE ~gone /\ req.route = "messages"
    <3>1. seen'.stop = StopReason(tr.finish, tr.sawTool)
      BY <1>3, <1>5, <2>2
    <3>2. /\ tr.sawTool <=> engine.calls > 0
          /\ engine.calls = 0 => tr.finish = engine.reason
      BY <1>1, <2>2 DEF StreamInv, Translating
    <3>3. CalledTools(seen.got) <=> engine.calls > 0
      BY <1>1, <2>2 DEF StreamInv, Called
    <3>4. ~(engine.calls > 0) => engine.calls = 0
      BY <1>2 DEF StreamTypes, EngineTypes
    <3>5. CalledTools(seen'.got) => seen'.stop = "tool_use"
      BY <1>2, <1>3, <3>1, <3>2, <3>3, ReasonNames
    <3>6. ~CalledTools(seen'.got) /\ engine.reason = "length" => seen'.stop = "max_tokens"
      BY <1>2, <1>3, <3>1, <3>2, <3>3, <3>4, ReasonNames
    <3>7. StopIsRight'
      BY <1>1, <3>5, <3>6 DEF StopIsRight
    <3>8. QED
      BY <1>1, <1>6, <3>7 DEF Stopped
  <2>3. QED
    BY <1>3, <1>5, <2>1, <2>2
<1>14. WellFormed' /\ ClientIsTold'
  BY <1>1, <1>2, <1>3, <1>6, <1>7 DEF WellFormed, ClientIsTold, Ended
<1>15. QED
  BY <1>8, <1>9, <1>10, <1>11, <1>12, <1>13, <1>14 DEF StreamInv

\* What the client reads while the deferred calls run.
LEMMA UnwindSeen ==
  ASSUME StreamInv, conn \in ConnTypes, Unwind
  PROVE  /\ seen' \in ClientTypes /\ seen'.got = seen.got /\ seen'.stop = seen.stop
         /\ seen'.nameless = seen.nameless
         /\ conn'.sse <=> conn.sse
         /\ conn.wrote => conn'.wrote
         /\ ~conn.sse => seen'.phase # "bad"
         /\ conn.sse /\ (gone \/ ~handler.panicking) => seen' = seen
         /\ conn.sse /\ ~gone /\ handler.panicking =>
              seen'.phase = IF req.route = "chat" THEN "failed" ELSE "bad"
<1>1. pc = "unwind"
  BY DEF Unwind
<1>2. /\ StreamTypes /\ Progress /\ WellFormed /\ seen \in ClientTypes /\ seen.phase # "bad"
      /\ conn.sse => conn.wrote
  BY <1>1 DEF StreamInv, StreamTypes, WellFormed, Progress
<1>3. CASE handler.panicking /\ ~conn.wrote
  <2>1. PICK code : code = 500
    OBVIOUS
  <2>2. jsonResponse(code)
    BY <1>3, <2>1 DEF Unwind, writePanicResponse
  <2>3. /\ seen' \in ClientTypes /\ seen'.phase \in {seen.phase, "reply", "failed"}
        /\ seen'.got = seen.got /\ seen'.stop = seen.stop /\ seen'.nameless = seen.nameless
        /\ conn'.sse <=> conn.sse
    BY <1>2, <2>2, Answered
  <2>4. QED
    BY <1>2, <1>3, <2>3
<1>4. CASE handler.panicking /\ conn.wrote /\ (gone \/ ~conn.sse)
  <2>1. conn' = conn /\ seen' = seen
    BY <1>4 DEF Unwind, writePanicResponse, Reads
  <2>2. QED
    BY <1>2, <1>4, <2>1
<1>5. CASE handler.panicking /\ conn.sse /\ ~gone
  <2>1. conn' = conn
    BY <1>2, <1>5 DEF Unwind, writePanicResponse
  <2>2. CASE req.route = "chat"
    <3>1. seen.phase \in {"open", "error"}
      BY <1>1, <1>5, <2>2 DEF StreamInv, Told
    <3>2. PICK k : k = ParseFrame(seen, ErrorFrame)
      OBVIOUS
    <3>3. PICK r : r = ParseFrame(k, DoneFrame)
      OBVIOUS
    <3>4. seen' = r
      BY <1>2, <1>5, <2>2, <3>2, <3>3 DEF Unwind, writePanicResponse, Reads
    <3>5. PhaseMoves(seen, "error", k)
      BY <1>2, <3>1, <3>2, ErrorFramed
    <3>6. k \in ClientTypes /\ k.phase = "error"
      BY <3>5 DEF PhaseMoves
    <3>7. PhaseMoves(k, IF k.phase = "open" THEN "ended" ELSE "failed", r)
      BY <3>3, <3>6, DoneFramed
    <3>8. PhaseMoves(k, "failed", r)
      BY <3>6, <3>7
    <3>9. QED
      BY <1>5, <2>1, <2>2, <3>4, <3>5, <3>8 DEF PhaseMoves
  <2>3. CASE req.route # "chat"
    <3>1. PICK r : r = Bad(seen)
      OBVIOUS
    <3>2. seen' = r
      BY <1>2, <1>5, <2>3, <3>1 DEF Unwind, writePanicResponse, Reads
    <3>3. PhaseMoves(seen, "bad", r)
      BY <1>2, <3>1, BadRead
    <3>4. QED
      BY <1>5, <2>1, <2>3, <3>2, <3>3 DEF PhaseMoves
  <2>4. QED
    BY <2>2, <2>3
<1>6. CASE ~handler.panicking
  <2>1. (conn'.sse <=> conn.sse) /\ (conn.wrote => conn'.wrote)
    BY <1>6 DEF Unwind, ConnTypes
  <2>2. CASE conn.wrote \/ gone
    <3>1. seen' = seen
      BY <1>6, <2>2 DEF Unwind, Reads
    <3>2. QED
      BY <1>2, <1>6, <2>1, <3>1
  <2>3. CASE ~conn.wrote /\ ~gone
    <3>1. PICK phase \in Phases : phase = "reply"
      BY PhaseNames
    <3>2. seen' = [seen EXCEPT !.phase = phase]
      BY <1>6, <2>3, <3>1 DEF Unwind, Reads
    <3>3. PhaseMoves(seen, phase, seen')
      BY <1>2, <3>2, PhaseSet
    <3>4. QED
      BY <1>2, <2>1, <2>3, <3>1, <3>3 DEF PhaseMoves
  <2>4. QED
    BY <2>2, <2>3
<1>7. QED
  BY <1>2, <1>3, <1>4, <1>5, <1>6

LEMMA StepsUnwind ==
  ASSUME StreamInv, conn \in ConnTypes, Unwind PROVE StreamInv'
<1>1. /\ pc = "unwind" /\ pc' = "done" /\ handler' = [handler EXCEPT !.slot = FALSE]
      /\ log' = [request |-> RequestRow, interaction |-> InteractionRow, metric |-> conn'.status]
      /\ UNCHANGED <<req, gone, engine, payload, tr>>
  BY DEF Unwind
<1>2. /\ StreamTypes /\ Progress /\ WellFormed /\ Audited /\ seen.phase # "bad"
      /\ req \in Reqs /\ handler \in HandlerTypes
  BY <1>1 DEF StreamInv, StreamTypes, Progress, WellFormed
<1>3. /\ handler' \in HandlerTypes /\ (handler'.audited <=> handler.audited)
      /\ (handler'.panicking <=> handler.panicking) /\ handler'.audit = handler.audit
      /\ handler'.outcome = handler.outcome
  <2>1. PICK b \in BOOLEAN, e \in {"", "engine", "idle", "max"} : b = FALSE
    OBVIOUS
  <2>2. handler' = [handler EXCEPT !.slot = b]
    BY <1>1, <2>1
  <2>3. QED
    BY <1>2, <2>2, HandlerKept
<1>4. /\ seen' \in ClientTypes /\ seen'.got = seen.got /\ seen'.stop = seen.stop
      /\ seen'.nameless = seen.nameless
      /\ conn'.sse <=> conn.sse
      /\ conn.wrote => conn'.wrote
      /\ ~conn.sse => seen'.phase # "bad"
      /\ conn.sse /\ (gone \/ ~handler.panicking) => seen' = seen
      /\ conn.sse /\ ~gone /\ handler.panicking =>
           seen'.phase = IF req.route = "chat" THEN "failed" ELSE "bad"
  BY UnwindSeen
<1>5. pc' \notin Before \cup Relaying \cup {"idle", "start", "write", "interrupted", "finish", "recv", "unwind"}
  BY <1>1 DEF Before, Relaying
<1>6. /\ DOMAIN log' = {"request", "interaction", "metric"} /\ log'.interaction = InteractionRow
      /\ InteractionRow \in RecordTypes
  <2>1. DOMAIN log' = {"request", "interaction", "metric"} /\ log'.interaction = InteractionRow
    BY <1>1
  <2>2. CASE handler.audited
    <3>1. PICK text \in Seq(Units), mark \in {"none", "", "client disconnected", "stream interrupted"} :
            text = handler.audit /\ mark = handler.outcome
      BY <1>2 DEF HandlerTypes
    <3>2. InteractionRow = [text |-> text, mark |-> mark]
      BY <2>2, <3>1 DEF InteractionRow
    <3>3. [text |-> text, mark |-> mark] \in RecordTypes
      BY DEF RecordTypes
    <3>4. QED
      BY <2>1, <3>2, <3>3
  <2>3. CASE ~handler.audited
    BY <1>2, <2>1, <2>3 DEF InteractionRow, StreamTypes
  <2>4. QED
    BY <2>2, <2>3
<1>7. StreamTypes' /\ Untouched'
  BY <1>1, <1>2, <1>3, <1>4, <1>5, <1>6 DEF StreamTypes, Untouched
<1>8. Progress'
  BY <1>1, <1>2, <1>3, <1>4, <1>5 DEF Progress
<1>9. Told'
  BY <1>5 DEF Told
<1>10. Audited'
  <2>1. Len(handler'.audit) <= AuditLimit
    BY <1>2, <1>3 DEF Audited
  <2>2. CASE conn.sse
    <3>1. handler.audited
      BY <1>2, <2>2 DEF Progress
    <3>2. log'.interaction = [text |-> handler'.audit, mark |-> handler'.outcome]
      BY <1>3, <1>6, <3>1 DEF InteractionRow
    <3>3. IsPrefix(Trunc(seen'.got), handler'.audit) /\ (~gone => handler'.audit = Trunc(seen'.got))
      BY <1>2, <1>3, <1>4, <2>2 DEF Audited
    <3>4. QED
      BY <1>1, <1>4, <2>1, <2>2, <3>2, <3>3 DEF Audited
  <2>3. CASE ~conn.sse
    <3>1. ~handler.audited
      BY <1>2, <2>3 DEF Progress
    <3>2. log'.interaction = log.interaction
      BY <1>6, <3>1 DEF InteractionRow
    <3>3. log.interaction # NoRecord =>
            /\ log.interaction.mark = ""
            /\ log.interaction.text = seen.got \/ (gone /\ seen.got = <<>>)
      BY <1>2, <2>3 DEF Audited
    <3>4. QED
      BY <1>1, <1>4, <2>1, <2>3, <3>2, <3>3 DEF Audited
  <2>4. QED
    BY <2>2, <2>3
<1>11. Translating' /\ Called'
  BY <1>1, <1>5 DEF StreamInv, Translating, Called
<1>12. Stopped'
  <2>1. StopIsRight => StopIsRight'
    BY <1>1, <1>4 DEF StopIsRight
  <2>2. seen'.stop # "" /\ ~RelayedAsIs' => StopIsRight'
    BY <1>1, <1>4, <2>1 DEF StreamInv, Stopped, RelayedAsIs
  <2>3. QED
    BY <1>1, <1>5, <2>2 DEF Stopped
<1>13. conn.sse => (req.route # "chat" <=> req.route = "messages")
  BY <1>2, RouteIs DEF Progress
<1>14. WellFormed'
  BY <1>1, <1>2, <1>3, <1>4, <1>13 DEF WellFormed
<1>15. ClientIsTold'
  <2>1. SUFFICES ASSUME conn.sse, ~gone
                 PROVE  /\ (seen'.phase = "ended") = (engine'.eof /\ ~handler'.panicking)
                        /\ \/ seen'.phase \in {"ended", "failed"}
                           \/ handler'.panicking /\ req'.route = "messages"
    BY <1>1, <1>4 DEF ClientIsTold, Ended
  <2>2. engine.eof \in BOOLEAN
    BY <1>2 DEF StreamTypes, EngineTypes
  <2>3. CASE handler.panicking
    <3>1. seen'.phase # "ended" /\ (seen'.phase = "failed" \/ req'.route = "messages")
      BY <1>1, <1>4, <1>13, <2>1, <2>3
    <3>2. handler'.panicking
      BY <1>3, <2>3
    <3>3. (seen'.phase = "ended") = FALSE /\ (engine'.eof /\ ~handler'.panicking) = FALSE
      BY <3>1, <3>2
    <3>4. QED
      BY <3>1, <3>2, <3>3
  <2>4. CASE ~handler.panicking
    <3>1. seen'.phase = IF engine.eof THEN "ended" ELSE "failed"
      BY <1>1, <1>4, <2>1, <2>4 DEF StreamInv, Told
    <3>2. ~handler'.panicking /\ engine'.eof = engine.eof
      BY <1>1, <1>3, <2>4
    <3>3. CASE engine.eof
      BY <3>1, <3>2, <3>3
    <3>4. CASE ~engine.eof
      BY <3>1, <3>2, <3>4
    <3>5. QED
      BY <3>3, <3>4
  <2>5. QED
    BY <2>3, <2>4
<1>16. QED
  BY <1>7, <1>8, <1>9, <1>10, <1>11, <1>12, <1>14, <1>15 DEF StreamInv

LEMMA StreamStep == StreamInv /\ StatusInv /\ CauseInv /\ [Next]_vars => StreamInv'
<1> SUFFICES ASSUME StreamInv, StatusInv, CauseInv, [Next]_vars PROVE StreamInv'
  OBVIOUS
<1>1. CASE UNCHANGED vars
  BY <1>1, StepsAside DEF vars
<1>2. CASE (\E r \in Reqs : Arrive(r)) \/ Authorized \/ acquireEngine
  BY <1>2, StepsBefore
<1>3. CASE Unauthorized \/ (pc = "admit" /\ \E code \in Refusals : Refuse(code))
           \/ handleCountTokens \/ TranslateFails \/ EngineFails
  BY <1>3, StepsRefused
<1>4. CASE \E reply \in Replies : ChatAnswers(reply)
  BY <1>4, StepsAnswer
<1>5. CASE StreamChat
  BY <1>5, StepsAccept
<1>6. CASE SendStart
  BY <1>6, StepsStart
<1>7. CASE Interrupted
  BY <1>7, StepsInterrupted
<1>8. CASE Relay
  BY <1>8, StepsRelay
<1>9. CASE Finish
  BY <1>9, StepsFinish
<1>10. CASE Unwind
  BY <1>10, StepsUnwind DEF StatusInv
<1>11. CASE Recv
  BY <1>11, StepsRecv
<1>12. CASE Tick \/ fired
  BY <1>12, StepsAside DEF Tick, fired
<1>13. CASE HangUp
  BY <1>13, StepsHangUp
<1>14. CASE Panic
  BY <1>14, StepsPanic
<1>15. CASE NextRequest
  BY <1>15, StepsToIdle
<1>16. Handle => \/ Unauthorized \/ Authorized \/ handleCountTokens \/ acquireEngine
                 \/ pc = "admit" /\ \E code \in Refusals : Refuse(code)
                 \/ \E reply \in Replies : ChatAnswers(reply)
                 \/ TranslateFails \/ EngineFails
                 \/ StreamChat \/ SendStart \/ Interrupted \/ Relay \/ Finish
                 \/ Unwind
  BY DEF Handle
<1>17. QED
  BY <1>1, <1>2, <1>3, <1>4, <1>5, <1>6, <1>7, <1>8, <1>9, <1>10, <1>11, <1>12, <1>13, <1>14,
     <1>15, <1>16 DEF Next

LEMMA StreamInvariant == Spec => [](StreamInv /\ StatusInv /\ CauseInv)
<1>1. Init => StreamInv /\ StatusInv /\ CauseInv
  BY StreamInit, StatusInit, CauseInit DEF Init
<1>2. StreamInv /\ StatusInv /\ CauseInv /\ [Next]_vars => (StreamInv /\ StatusInv /\ CauseInv)'
  BY StreamStep, StatusStep, CauseStep
<1>3. QED
  BY <1>1, <1>2, PTL DEF Spec

\* A client that stays to the end of a stream sees the end of a message exactly
\* if the engine's stream was relayed to its end, and an error otherwise,
\* except after a panic on /v1/messages (api_handlers.go streamChat and
\* streamMessages, main.go recoveryMiddleware).
THEOREM ClientLearns == Spec => []ClientIsTold
<1>1. StreamInv => ClientIsTold
  BY DEF StreamInv
<1>2. QED
  BY <1>1, StreamInvariant, PTL

\* In whatever order text and tool calls arrive, the translator's events form a
\* stream of blocks that the client accepts, and each call is a block that
\* starts with its name (anthropic.go chunk, closeBlock and end).
THEOREM StreamIsRead == Spec => []StreamIsWellFormed
<1>1. StreamInv => StreamIsWellFormed
  BY DEF StreamInv, WellFormed, StreamIsWellFormed
<1>2. QED
  BY <1>1, StreamInvariant, PTL

\* A reply that calls tools is never finished for another reason, and a reply
\* that was cut short is never taken for complete (engine.go ollamaChunk,
\* anthropic.go stopReasonFromFinish and openAIToAnthropic).
THEOREM ReasonIsRight == Spec => []StopReasonIsRight
<1>1. StreamInv => StopReasonIsRight
  <2>1. SUFFICES ASSUME StreamInv PROVE StopReasonIsRight
    OBVIOUS
  <2>2. seen.stop # "" /\ ~RelayedAsIs => StopIsRight
    BY <2>1 DEF StreamInv, Stopped
  <2>3. QED
    BY <2>2 DEF RelayedAsIs, StopIsRight, StopReasonIsRight
<1>2. QED
  BY <1>1, StreamInvariant, PTL

\* The interaction log holds what reached the client, up to its limit, and is
\* unmarked only if the reply ended (api_handlers.go streamAudit, and the
\* deferred logging of both handlers).
THEOREM AuditIsRight == Spec => []AuditIsWhatClientGot
<1>1. StreamInv => AuditIsWhatClientGot
  <2>1. SUFFICES ASSUME StreamInv, pc = "done", log.interaction # NoRecord
                 PROVE  LET row == log.interaction
                            kept == IF conn.sse THEN SubSeq(seen.got, 1, Min({Len(seen.got), AuditLimit}))
                                    ELSE seen.got
                        IN /\ IsPrefix(kept, row.text) /\ (~gone => row.text = kept)
                           /\ conn.sse /\ row.mark = "" => engine.eof \/ handler.panicking
                           /\ row.mark = "client disconnected" => gone
    BY DEF AuditIsWhatClientGot
  <2>2. StreamTypes /\ Progress /\ Audited /\ seen.got \in Seq(Units)
    BY <2>1 DEF StreamInv, StreamTypes, ClientTypes
  <2>3. PICK row \in RecordTypes : row = log.interaction
    BY <2>2 DEF StreamTypes
  <2>4. CASE conn.sse
    <3>1. PICK kept : kept = Trunc(seen.got)
      OBVIOUS
    <3>2. kept = SubSeq(seen.got, 1, Min({Len(seen.got), AuditLimit}))
      BY <3>1 DEF Trunc
    <3>3. IsPrefix(kept, handler.audit) /\ (~gone => handler.audit = kept)
          /\ row = [text |-> handler.audit, mark |-> handler.outcome]
      BY <2>1, <2>2, <2>3, <2>4, <3>1 DEF Audited
    <3>4. row.text = handler.audit /\ row.mark = handler.outcome
      BY <3>3
    <3>5. /\ handler.outcome = "" => engine.eof \/ handler.panicking
          /\ handler.outcome = "client disconnected" => gone
      BY <2>1, <2>2, <2>4 DEF Progress
    <3>6. QED
      BY <2>3, <2>4, <3>2, <3>3, <3>4, <3>5
  <2>5. CASE ~conn.sse
    <3>1. row.mark = "" /\ (row.text = seen.got \/ (gone /\ seen.got = <<>>))
      BY <2>1, <2>2, <2>3, <2>5 DEF Audited
    <3>2. row.text \in Seq(Units)
      BY <2>3 DEF RecordTypes
    <3>3. IsPrefix(seen.got, row.text)
      <4>1. CASE row.text = seen.got
        BY <2>2, <4>1, PrefixOfSelf
      <4>2. CASE seen.got = <<>>
        <5>1. Len(seen.got) = 0 /\ Len(row.text) \in Nat
          BY <3>2, <4>2
        <5>2. Len(seen.got) <= Len(row.text)
          BY <5>1
        <5>3. \A i \in 1..Len(seen.got) : seen.got[i] = row.text[i]
          BY <5>1
        <5>4. QED
          BY <2>2, <3>2, <5>2, <5>3, PrefixMeans
      <4>3. QED
        BY <3>1, <4>1, <4>2
    <3>4. QED
      BY <2>3, <2>5, <3>1, <3>3
  <2>6. QED
    BY <2>4, <2>5
<1>2. QED
  BY <1>1, StreamInvariant, PTL

-----------------------------------------------------------------------------
(* Types.                                                                  *)

\* Only statuses the handlers use go out, and nothing is counted before a
\* request has ended.
Sendable ==
  /\ conn.sent \in {0} \cup Codes /\ conn.status \in Codes
  /\ pc # "done" => log.metric = 0

\* The metric is counted by Unwind alone.
LEMMA MetricKept ==
  ASSUME StreamTypes,
         \/ \E r \in Reqs : Arrive(r)
         \/ Unauthorized \/ Authorized \/ handleCountTokens \/ acquireEngine
         \/ \E code \in Refusals : Refuse(code)
         \/ \E reply \in Replies : ChatAnswers(reply)
         \/ TranslateFails \/ EngineFails
         \/ StreamChat \/ SendStart \/ Interrupted \/ Relay \/ Finish
         \/ Tick \/ fired \/ HangUp \/ Panic
         \/ RecvEOF \/ RecvFails
         \/ \E c, done, reason : Received(c, done, reason)
  PROVE  log'.metric = log.metric
<1>1. CASE \E reply \in Replies : ChatAnswers(reply)
  <2>1. PICK x : log' = [log EXCEPT !.interaction = x]
    BY <1>1 DEF ChatAnswers
  <2>2. QED
    BY <2>1 DEF StreamTypes
<1>2. CASE ~\E reply \in Replies : ChatAnswers(reply)
  <2>1. log' = log
    BY <1>2 DEF Arrive, Unauthorized, Authorized, handleCountTokens, acquireEngine, Refuse,
       TranslateFails, EngineFails, StreamChat, SendStart, Interrupted, Relay, Finish, Tick, fired,
       HangUp, Panic, RecvEOF, RecvFails, Received
  <2>2. QED
    BY <2>1
<1>3. QED
  BY <1>1, <1>2

LEMMA HeaderSendable ==
  ASSUME conn \in ConnTypes, conn.sent \in {0} \cup Codes, conn.status \in Codes,
         NEW code \in Codes
  PROVE  LET c == WriteHeader(conn, code) IN
           /\ c.sent \in {0} \cup Codes /\ c.status \in Codes
           /\ [c EXCEPT !.sse = TRUE].sent = c.sent /\ [c EXCEPT !.sse = TRUE].status = c.status
BY DEF WriteHeader, ConnTypes

LEMMA MovesSendable ==
  ASSUME conn \in ConnTypes, conn.sent \in {0} \cup Codes, conn.status \in Codes, ConnMoves
  PROVE  conn'.sent \in {0} \cup Codes /\ conn'.status \in Codes
<1>1. CASE conn' = conn
  BY <1>1
<1>2. ASSUME NEW code \in Codes, conn' = WriteHeader(conn, code)
      PROVE  conn'.sent \in {0} \cup Codes /\ conn'.status \in Codes
  BY <1>2, HeaderSendable
<1>3. CASE conn' = [WriteHeader(conn, 200) EXCEPT !.sse = TRUE]
  <2>1. PICK code \in Codes : code = 200
    BY DEF Codes
  <2>2. QED
    BY <1>3, <2>1, HeaderSendable
<1>4. QED
  BY <1>1, <1>2, <1>3 DEF ConnMoves

LEMMA SendableStep ==
  ASSUME Sendable, StreamInv, StatusInv, [Next]_vars PROVE Sendable'
<1>1. StreamTypes /\ conn \in ConnTypes /\ DOMAIN handler = HandlerFields
  BY DEF StreamInv, StatusInv
<1>2. CASE UNCHANGED vars
  BY <1>2 DEF vars, Sendable
<1>3. CASE NextRequest
  <2>1. conn' = NewConn /\ log' = NewLog
    BY <1>3 DEF NextRequest
  <2>2. conn'.sent = 0 /\ conn'.status = 200
    BY <2>1 DEF NewConn
  <2>3. log'.metric = 0
    BY <2>1 DEF NewLog
  <2>4. QED
    BY <2>2, <2>3 DEF Sendable, Codes
<1>4. CASE Unwind
  <2>1. pc' = "done"
    BY <1>4 DEF Unwind
  <2>2. conn'.sent \in {0} \cup Codes /\ conn'.status \in Codes
    <3>1. CASE ConnMoves
      BY <1>1, <3>1, MovesSendable DEF Sendable
    <3>2. CASE handler.panicking
      <4>1. PICK code \in Codes : code = 500
        BY DEF Codes
      <4>2. conn' = conn \/ conn' = WriteHeader(conn, code)
        BY <1>4, <3>2, <4>1 DEF Unwind, writePanicResponse, jsonResponse
      <4>3. QED
        BY <3>1, <4>2 DEF ConnMoves
    <3>3. CASE ~handler.panicking
      <4>1. conn' = [conn EXCEPT !.sent = IF @ = 0 THEN 200 ELSE @]
        BY <1>4, <3>3 DEF Unwind
      <4>2. QED
        BY <1>1, <4>1 DEF Sendable, Codes, ConnTypes
    <3>4. QED
      BY <3>2, <3>3
  <2>3. QED
    BY <2>1, <2>2 DEF Sendable
<1>5. ASSUME pc # "done",
             \/ \E r \in Reqs : Arrive(r)
             \/ Unauthorized \/ Authorized \/ handleCountTokens \/ acquireEngine
             \/ \E code \in Refusals : Refuse(code)
             \/ \E reply \in Replies : ChatAnswers(reply)
             \/ TranslateFails \/ EngineFails
             \/ StreamChat \/ SendStart \/ Interrupted \/ Relay \/ Finish
             \/ Tick \/ fired \/ HangUp \/ Panic
             \/ RecvEOF \/ RecvFails
             \/ \E c, done, reason : Received(c, done, reason)
      PROVE  Sendable'
  <2>1. UnderWay
    BY <1>1, <1>5, HandleMoves
  <2>2. log'.metric = log.metric
    BY <1>1, <1>5, MetricKept
  <2>3. QED
    BY <1>1, <1>5, <2>1, <2>2, MovesSendable DEF UnderWay, Sendable
<1>6. CASE \E r \in Reqs : Arrive(r)
  BY <1>5, <1>6 DEF Arrive
<1>7. CASE Handle
  <2>1. pc # "done"
    BY <1>7 DEF Handle, Unauthorized, Authorized, handleCountTokens, acquireEngine, Refuse,
         ChatAnswers, TranslateFails, EngineFails, StreamChat, SendStart, Interrupted, Relay,
         Finish, Unwind
  <2>2. QED
    BY <1>4, <1>5, <1>7, <2>1 DEF Handle
<1>8. CASE Recv
  <2>1. pc # "done" /\ (RecvEOF \/ RecvFails \/ \E c, done, reason : Received(c, done, reason))
    BY <1>8 DEF Recv, RecvOllama, RecvCompat
  <2>2. QED
    BY <1>5, <2>1
<1>9. CASE Tick \/ fired \/ HangUp \/ Panic
  <2>1. pc # "done"
    BY <1>9 DEF Tick, fired, HangUp, Panic, Armed, Streaming
  <2>2. QED
    BY <1>5, <1>9, <2>1
<1>10. QED
  BY <1>2, <1>3, <1>4, <1>6, <1>7, <1>8, <1>9 DEF Next

\* Every variable keeps its type; the audit never outgrows its limit, and the
\* timer never outlives its bounds (engine.go streamDeadline, api_handlers.go
\* streamAudit).
THEOREM TypeCorrect == Spec => []TypeOK
<1>1. Init => Sendable
  <2>1. SUFFICES ASSUME Init PROVE Sendable
    OBVIOUS
  <2>2. conn = NewConn /\ log = NewLog
    BY <2>1 DEF Init
  <2>3. conn.sent = 0 /\ conn.status = 200
    BY <2>2 DEF NewConn
  <2>4. log.metric = 0
    BY <2>2 DEF NewLog
  <2>5. QED
    BY <2>3, <2>4 DEF Sendable, Codes
<1>2. StreamInv /\ StatusInv /\ Sendable /\ [Next]_vars => Sendable'
  BY SendableStep
<1>3. StreamInv /\ StatusInv /\ CauseInv /\ Sendable => TypeOK
  <2>1. SUFFICES ASSUME StreamInv, StatusInv, CauseInv, Sendable PROVE TypeOK
    OBVIOUS
  <2>2. StreamTypes /\ Audited /\ StatusAgrees
    BY <2>1 DEF StreamInv, StatusInv
  <2>3. req \in Reqs \cup {NoReq} /\ gone \in BOOLEAN /\ Len(payload.pieces) <= 3
    BY <2>2 DEF StreamTypes
  <2>4. conn.sent \in {0, 200, 400, 401, 404, 413, 429, 500, 502, 503}
    BY <2>1 DEF Sendable, Codes
  <2>5. engine.sent \in 0..MaxPieces + 3
    BY <2>2 DEF StreamTypes, EngineTypes, Numbers
  <2>6. deadline.left \in 0..StreamIdle /\ deadline.life \in 0..StreamMax
    BY <2>1 DEF CauseInv, Bounded, DeadlineTypes
  <2>7. handler.audit \in Seq(Units) /\ Len(handler.audit) <= AuditLimit
    BY <2>2 DEF StreamTypes, HandlerTypes, Audited
  <2>8. seen.got \in Seq(Units)
    BY <2>2 DEF StreamTypes, ClientTypes
  <2>9. log.metric \in {0, conn.sent}
    BY <2>1, <2>2 DEF Sendable, StatusAgrees
  <2>10. QED
    BY <2>3, <2>4, <2>5, <2>6, <2>7, <2>8, <2>9 DEF TypeOK
<1>4. QED
  BY <1>1, <1>2, <1>3, StreamInvariant, PTL DEF Spec
===============================================================================
