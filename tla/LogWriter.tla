------------------------------ MODULE LogWriter ------------------------------
(***************************************************************************)
(* One of the two asynchronous log writers of logwriter.go, together with  *)
(* the request handlers that feed it and the shutdown sequence of main.go. *)
(* The interaction writer and the request writer are the same code over    *)
(* two channels and two tables, and share no state.                        *)
(*                                                                         *)
(* An entry is the number of the enqueue call that carried it.             *)
(***************************************************************************)
EXTENDS Naturals, Sequences, SequencesExt

CONSTANTS Handlers,        \* request goroutines of the HTTP server
          logQueueSize,    \* capacity of the channel
          flushThreshold,  \* batch size that triggers a flush
          MaxEntries       \* bound on the number of enqueue calls

ASSUME LogWriterAssumption ==
  /\ logQueueSize \in Nat \ {0}
  /\ flushThreshold \in Nat \ {0}
  /\ MaxEntries \in Nat

VARIABLES offered,      \* enqueue calls so far
          queue,        \* the channel's buffer
          dropped,      \* entries refused because the channel was full
          batch,        \* the writer's local slice
          timer,        \* the flush timer: "off", "armed" or "fired" (a tick is ready)
          timerActive,  \* the writer's own idea of it
          writer,       \* where the writer goroutine is
          stored,       \* entries committed to the database
          lost,         \* entries of a failed transaction or a failed insert
          handler,      \* handler[h]: "idle" or "busy" with a request
          phase,        \* main: "serving", "stopping", "cancelled" or "closed"
          forced        \* srv.Shutdown gave up on requests still running

entryVars == <<offered, queue, dropped>>
writerVars == <<batch, timer, timerActive, writer, stored, lost>>
mainVars == <<handler, phase, forced>>
vars == <<entryVars, writerVars, mainVars>>

Entries == 1 .. offered

Init ==
  /\ offered = 0 /\ queue = <<>> /\ dropped = {}
  /\ batch = <<>> /\ timer = "off" /\ timerActive = FALSE
  /\ writer = "select" /\ stored = {} /\ lost = {}
  /\ handler = [h \in Handlers |-> "idle"] /\ phase = "serving" /\ forced = FALSE

-----------------------------------------------------------------------------
(* Request handlers.                                                       *)

\* The server takes no new request once srv.Shutdown has begun.
BeginRequest(h) ==
  /\ phase = "serving" /\ handler[h] = "idle"
  /\ handler' = [handler EXCEPT ![h] = "busy"]
  /\ UNCHANGED <<entryVars, writerVars, phase, forced>>

\* Mutant: the entry sent is numbered as the call before it.
enqueueLog_OldNumber(h) ==
  /\ phase # "closed" /\ handler[h] = "busy" /\ offered < MaxEntries
  /\ offered' = offered + 1
  /\ IF Len(queue) < logQueueSize
       THEN queue' = Append(queue, offered) /\ UNCHANGED dropped
       ELSE dropped' = dropped \cup {offered'} /\ UNCHANGED queue
  /\ handler' = [handler EXCEPT ![h] = "idle"]
  /\ UNCHANGED <<writerVars, phase, forced>>

\* enqueueInteractionLog, enqueueRequestLog: a send that never blocks.  It is
\* the last thing a request does with this writer.
enqueueLog(h) ==
  /\ phase # "closed" /\ handler[h] = "busy" /\ offered < MaxEntries
  /\ offered' = offered + 1
  /\ IF Len(queue) < logQueueSize
       THEN queue' = Append(queue, offered') /\ UNCHANGED dropped
       ELSE dropped' = dropped \cup {offered'} /\ UNCHANGED queue
  /\ handler' = [handler EXCEPT ![h] = "idle"]
  /\ UNCHANGED <<writerVars, phase, forced>>

\* A request that writes no entry of this kind.
EndUnlogged(h) ==
  /\ phase # "closed" /\ handler[h] = "busy"
  /\ handler' = [handler EXCEPT ![h] = "idle"]
  /\ UNCHANGED <<entryVars, writerVars, phase, forced>>

-----------------------------------------------------------------------------
(* The writer goroutine.                                                   *)

\* Half a second has passed since the timer was reset.
TimerFires ==
  /\ timer = "armed" /\ phase # "closed"
  /\ timer' = "fired"
  /\ UNCHANGED <<entryVars, batch, timerActive, writer, stored, lost, mainVars>>

\* Mutant: the threshold is compared with > instead of >=.
Receive_OneTooMany ==
  /\ writer = "select" /\ queue # <<>>
  /\ batch' = Append(batch, Head(queue))
  /\ queue' = Tail(queue)
  /\ timer' = IF timerActive THEN timer ELSE "armed"
  /\ timerActive' = TRUE
  /\ writer' = IF Len(batch') > flushThreshold THEN "flush" ELSE "select"
  /\ UNCHANGED <<offered, dropped, stored, lost, mainVars>>

\* Mutant: the first entry of a batch does not start the timer.
Receive_NoTimer ==
  /\ writer = "select" /\ queue # <<>>
  /\ batch' = Append(batch, Head(queue))
  /\ queue' = Tail(queue)
  /\ writer' = IF Len(batch') >= flushThreshold THEN "flush" ELSE "select"
  /\ UNCHANGED <<offered, dropped, timer, timerActive, stored, lost, mainVars>>

\* select: an entry arrived.  The first of a batch starts the timer.
Receive ==
  /\ writer = "select" /\ queue # <<>>
  /\ batch' = Append(batch, Head(queue))
  /\ queue' = Tail(queue)
  /\ timer' = IF timerActive THEN timer ELSE "armed"
  /\ timerActive' = TRUE
  /\ writer' = IF Len(batch') >= flushThreshold THEN "flush" ELSE "select"
  /\ UNCHANGED <<offered, dropped, stored, lost, mainVars>>

\* select: the timer fired.
Tick ==
  /\ writer = "select" /\ timer = "fired"
  /\ timer' = "off" /\ timerActive' = FALSE
  /\ writer' = "flush"
  /\ UNCHANGED <<entryVars, batch, stored, lost, mainVars>>

\* select: the context is cancelled.  With several cases ready the choice is
\* random, so entries may still be received first.
StartDrain ==
  /\ writer = "select" /\ phase = "cancelled"
  /\ writer' = "drain"
  /\ UNCHANGED <<entryVars, batch, timer, timerActive, stored, lost, mainVars>>

DrainOne ==
  /\ writer = "drain" /\ queue # <<>>
  /\ batch' = Append(batch, Head(queue))
  /\ queue' = Tail(queue)
  /\ UNCHANGED <<offered, dropped, timer, timerActive, writer, stored, lost, mainVars>>

\* Mutant: what the batch holds is flushed, the channel is not emptied first.
DrainDone_LeavesQueue ==
  /\ writer = "drain"
  /\ writer' = "lastflush"
  /\ UNCHANGED <<entryVars, batch, timer, timerActive, stored, lost, mainVars>>

\* The drain stops the first time it finds the channel empty.
DrainDone ==
  /\ writer = "drain" /\ queue = <<>>
  /\ writer' = "lastflush"
  /\ UNCHANGED <<entryVars, batch, timer, timerActive, stored, lost, mainVars>>

\* Mutant: the slice is not cut back to length zero.
flush_KeepsBatch ==
  /\ writer \in {"flush", "lastflush"}
  /\ \E written \in SUBSET ToSet(batch) :
       /\ stored' = stored \cup written
       /\ lost' = lost \cup (ToSet(batch) \ written)
  /\ timer' = IF timerActive THEN "off" ELSE timer
  /\ timerActive' = FALSE
  /\ writer' = IF writer = "flush" THEN "select" ELSE "done"
  /\ UNCHANGED <<entryVars, batch, mainVars>>

\* Mutant: the batch is emptied also when nothing was done with it.
flush_ForgetsFailures ==
  /\ writer \in {"flush", "lastflush"}
  /\ \E written \in SUBSET ToSet(batch) :
       stored' = stored \cup written
  /\ batch' = <<>>
  /\ timer' = IF timerActive THEN "off" ELSE timer
  /\ timerActive' = FALSE
  /\ writer' = IF writer = "flush" THEN "select" ELSE "done"
  /\ UNCHANGED <<entryVars, lost, mainVars>>

\* Mutant: the timer is stopped and the flag left set, so that the next batch
\* does not start it.
flush_FlagLeftSet ==
  /\ writer \in {"flush", "lastflush"}
  /\ \E written \in SUBSET ToSet(batch) :
       /\ stored' = stored \cup written
       /\ lost' = lost \cup (ToSet(batch) \ written)
  /\ batch' = <<>>
  /\ timer' = IF timerActive THEN "off" ELSE timer
  /\ writer' = IF writer = "flush" THEN "select" ELSE "done"
  /\ UNCHANGED <<entryVars, timerActive, mainVars>>

\* flush, with flushInteractionBatch or flushRequestBatch: one transaction.  A
\* failed Begin, Prepare or Commit loses the whole batch, a failed Exec its own
\* row; neither is retried nor counted.
flush ==
  /\ writer \in {"flush", "lastflush"}
  /\ \E written \in SUBSET ToSet(batch) :
       /\ stored' = stored \cup written
       /\ lost' = lost \cup (ToSet(batch) \ written)
  /\ batch' = <<>>
  /\ timer' = IF timerActive THEN "off" ELSE timer
  /\ timerActive' = FALSE
  /\ writer' = IF writer = "flush" THEN "select" ELSE "done"
  /\ UNCHANGED <<entryVars, mainVars>>

-----------------------------------------------------------------------------
(* Shutdown, in main.                                                      *)

\* SIGINT or SIGTERM.
Signal ==
  /\ phase = "serving"
  /\ phase' = "stopping"
  /\ UNCHANGED <<entryVars, writerVars, handler, forced>>

\* srv.Shutdown returns once every request has; then writersCancel.
ShutdownClean ==
  /\ phase = "stopping" /\ \A h \in Handlers : handler[h] = "idle"
  /\ phase' = "cancelled"
  /\ UNCHANGED <<entryVars, writerVars, handler, forced>>

\* Mutant: srv.Shutdown is given no deadline.
ShutdownTimesOut_Never ==
  /\ phase = "stopping" /\ phase = "cancelled"
  /\ UNCHANGED vars

\* srv.Shutdown gives up after thirty seconds: the error is only logged, and
\* the requests still running go on while the writers stop.
ShutdownTimesOut ==
  /\ phase = "stopping" /\ \E h \in Handlers : handler[h] = "busy"
  /\ phase' = "cancelled"
  /\ forced' = TRUE
  /\ UNCHANGED <<entryVars, writerVars, handler>>

\* waitWriters returns, the database is closed and the process ends.
CloseDB ==
  /\ phase = "cancelled" /\ writer = "done"
  /\ phase' = "closed"
  /\ UNCHANGED <<entryVars, writerVars, handler, forced>>

WriterStep ==
  Receive \/ Tick \/ StartDrain \/ DrainOne \/ DrainDone \/ flush

MainStep == ShutdownClean \/ ShutdownTimesOut \/ CloseDB

Next ==
  \/ \E h \in Handlers : BeginRequest(h) \/ enqueueLog(h) \/ EndUnlogged(h)
  \/ WriterStep
  \/ TimerFires
  \/ Signal
  \/ MainStep

Spec == Init /\ [][Next]_vars

\* The writer goroutine and main are scheduled, and the timer keeps time.
\* Nothing is assumed of the handlers: a stream may run for hours.
FairSpec == Spec /\ WF_vars(WriterStep) /\ WF_vars(TimerFires) /\ WF_vars(MainStep)

-----------------------------------------------------------------------------

TypeOK ==
  /\ offered \in 0 .. MaxEntries
  /\ queue \in Seq(1 .. MaxEntries) /\ batch \in Seq(1 .. MaxEntries)
  /\ dropped \subseteq Entries /\ stored \subseteq Entries /\ lost \subseteq Entries
  /\ timer \in {"off", "armed", "fired"} /\ timerActive \in BOOLEAN
  /\ writer \in {"select", "flush", "drain", "lastflush", "done"}
  /\ handler \in [Handlers -> {"idle", "busy"}]
  /\ phase \in {"serving", "stopping", "cancelled", "closed"}
  /\ forced \in BOOLEAN

Settled == stored \cup lost

\* Every entry is in exactly one place: refused and counted, waiting, in the
\* batch, committed, or gone with a failed transaction.  Nothing else loses one.
EveryEntryAccounted ==
  /\ Entries = dropped \cup Settled \cup ToSet(batch) \cup ToSet(queue)
  /\ stored \cap lost = {} /\ dropped \cap Settled = {}
  /\ ToSet(batch) \cap (dropped \cup Settled) = {}
  /\ ToSet(queue) \cap (dropped \cup Settled \cup ToSet(batch)) = {}

Increasing(s) == \A i, j \in 1 .. Len(s) : i < j => s[i] < s[j]

\* Rows are written in the order the requests logged them, none of them twice:
\* what is settled is older than the batch, which is older than the queue.
WrittenInOrder ==
  /\ Increasing(batch) /\ Increasing(queue)
  /\ \A i \in 1 .. Len(batch) :
       /\ \A s \in Settled : s < batch[i]
       /\ \A j \in 1 .. Len(queue) : batch[i] < queue[j]
  /\ \A j \in 1 .. Len(queue), s \in Settled : s < queue[j]

\* A buffered entry never waits without a deadline: whenever the writer goes
\* back to its select with entries in hand, its timer is set (logwriter.go:16-17,
\* "flushInterval has elapsed since the first buffered entry").
BufferedIsTimed ==
  writer = "select" =>
    /\ batch # <<>> => timerActive
    /\ timerActive = (timer # "off")

\* Outside the final drain a batch never outgrows the threshold, and the queue
\* never outgrows its capacity: the memory of the log path is bounded.
MemoryBounded ==
  /\ Len(queue) <= logQueueSize
  /\ writer = "select" => Len(batch) < flushThreshold
  /\ writer = "flush" => Len(batch) <= flushThreshold

\* A clean exit leaves nothing behind (README.md:637-638, "a clean exit does not
\* lose buffered entries"): it can only when a request outlived srv.Shutdown.
CleanExitKeepsAll ==
  phase = "closed" /\ ~forced => queue = <<>> /\ batch = <<>>

\* Every accepted entry is settled, also when no later entry ever arrives to
\* fill its batch, unless a request outlived srv.Shutdown.
AcceptedIsSettled ==
  \A i \in 1 .. MaxEntries :
    i \in ToSet(queue) \cup ToSet(batch) ~> i \in Settled \/ forced

\* Shutdown ends, whatever the handlers do.
ShutdownEnds == phase = "stopping" ~> phase = "closed"

\* ---- The strengthening that makes the invariants above inductive ----

\* The writer's flag tells whether its timer runs, wherever the writer is.
TimerIsKnown == timerActive = (timer # "off")

\* How far the writer has got in its shutdown, and what that says of the rest.
ShutdownShape ==
  /\ writer \in {"drain", "lastflush", "done"} => phase \in {"cancelled", "closed"}
  /\ phase = "closed" => writer = "done"
  /\ phase \in {"cancelled", "closed"} /\ ~forced => \A h \in Handlers : handler[h] = "idle"
  /\ writer \in {"lastflush", "done"} /\ ~forced => queue = <<>>
  /\ writer = "done" => batch = <<>>

LogInv ==
  /\ TypeOK
  /\ EveryEntryAccounted
  /\ WrittenInOrder
  /\ BufferedIsTimed
  /\ MemoryBounded
  /\ TimerIsKnown
  /\ ShutdownShape
==============================================================================
