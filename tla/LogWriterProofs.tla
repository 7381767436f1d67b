--------------------------- MODULE LogWriterProofs ---------------------------
(***************************************************************************)
(* Proofs about LogWriter for any number of handlers, any queue size and   *)
(* any flush threshold.  LogInv is inductive: the order of the entries is  *)
(* what keeps the places an entry can be in apart.                         *)
(***************************************************************************)
EXTENDS LogWriter, TLAPS

-----------------------------------------------------------------------------
(* Sequences.                                                              *)

\* Sending one entry adds it to the set of entries in the channel.
LEMMA ToSetAppend ==
  ASSUME NEW S, NEW s \in Seq(S), NEW x \in S
  PROVE  ToSet(Append(s, x)) = ToSet(s) \cup {x}
<1>1. /\ Append(s, x) \in Seq(S)
      /\ Len(Append(s, x)) = Len(s) + 1
      /\ \A i \in 1 .. Len(s) : Append(s, x)[i] = s[i]
      /\ Append(s, x)[Len(s) + 1] = x
  OBVIOUS
<1>2. DOMAIN s = 1 .. Len(s) /\ DOMAIN Append(s, x) = 1 .. Len(s) + 1
  BY <1>1
<1>3. QED
  BY <1>1, <1>2 DEF ToSet

\* Receiving one takes the oldest out and leaves the others.
LEMMA ToSetTail ==
  ASSUME NEW S, NEW s \in Seq(S), s # <<>>
  PROVE  ToSet(s) = {Head(s)} \cup ToSet(Tail(s))
<1>1. /\ Len(s) \in Nat /\ Len(s) >= 1
      /\ Tail(s) \in Seq(S)
      /\ Len(Tail(s)) = Len(s) - 1
      /\ \A i \in 1 .. Len(s) - 1 : Tail(s)[i] = s[i + 1]
      /\ Head(s) = s[1]
  OBVIOUS
<1>2. DOMAIN s = 1 .. Len(s) /\ DOMAIN Tail(s) = 1 .. Len(s) - 1
  BY <1>1
<1>3. ASSUME NEW y \in ToSet(s) PROVE y \in {Head(s)} \cup ToSet(Tail(s))
  <2>1. PICK i \in 1 .. Len(s) : y = s[i]
    BY <1>2 DEF ToSet
  <2>2. CASE i = 1
    BY <2>1, <2>2, <1>1
  <2>3. CASE i # 1
    <3>1. i - 1 \in 1 .. Len(s) - 1 /\ Tail(s)[i - 1] = y
      BY <2>1, <2>3, <1>1
    <3>2. QED
      BY <3>1, <1>2 DEF ToSet
  <2>4. QED
    BY <2>2, <2>3
<1>4. ASSUME NEW y \in {Head(s)} \cup ToSet(Tail(s)) PROVE y \in ToSet(s)
  <2>1. CASE y = Head(s)
    BY <2>1, <1>1, <1>2 DEF ToSet
  <2>2. CASE y \in ToSet(Tail(s))
    <3>1. PICK i \in 1 .. Len(s) - 1 : y = Tail(s)[i]
      BY <2>2, <1>2 DEF ToSet
    <3>2. i + 1 \in 1 .. Len(s) /\ y = s[i + 1]
      BY <3>1, <1>1
    <3>3. QED
      BY <3>2, <1>2 DEF ToSet
  <2>3. QED
    BY <2>1, <2>2
<1>5. QED
  BY <1>3, <1>4

\* A sequence and its set of elements: the same bounds hold of both.
LEMMA ToSetElements ==
  ASSUME NEW S, NEW s \in Seq(S)
  PROVE  /\ ToSet(s) \subseteq S
         /\ \A i \in 1 .. Len(s) : s[i] \in ToSet(s)
         /\ \A y \in ToSet(s) : \E i \in 1 .. Len(s) : y = s[i]
  BY DEF ToSet

\* A new highest entry keeps a sequence increasing.
LEMMA IncreasingAppend ==
  ASSUME NEW S \in SUBSET Nat, NEW s \in Seq(S), NEW x \in S,
         Increasing(s), \A y \in ToSet(s) : y < x
  PROVE  Increasing(Append(s, x))
<1>1. /\ Len(s) \in Nat
      /\ Len(Append(s, x)) = Len(s) + 1
      /\ \A i \in 1 .. Len(s) : Append(s, x)[i] = s[i]
      /\ Append(s, x)[Len(s) + 1] = x
  OBVIOUS
<1>2. \A i \in 1 .. Len(s) : s[i] < x
  BY ToSetElements
<1>3. QED
  BY <1>1, <1>2 DEF Increasing

\* The head of an increasing sequence is below all the others.
LEMMA IncreasingTail ==
  ASSUME NEW S \in SUBSET Nat, NEW s \in Seq(S), s # <<>>, Increasing(s)
  PROVE  Increasing(Tail(s)) /\ \A y \in ToSet(Tail(s)) : Head(s) < y
<1>1. /\ Len(s) \in Nat /\ Len(s) >= 1
      /\ Tail(s) \in Seq(S)
      /\ Len(Tail(s)) = Len(s) - 1
      /\ \A i \in 1 .. Len(s) - 1 : Tail(s)[i] = s[i + 1]
      /\ Head(s) = s[1]
  OBVIOUS
<1>2. Increasing(Tail(s))
  BY <1>1 DEF Increasing
<1>3. ASSUME NEW y \in ToSet(Tail(s)) PROVE Head(s) < y
  <2>1. PICK i \in 1 .. Len(Tail(s)) : y = Tail(s)[i]
    BY <1>1, ToSetElements
  <2>2. i \in 1 .. Len(s) - 1 /\ y = s[i + 1]
    BY <2>1, <1>1
  <2>3. QED
    BY <2>2, <1>1 DEF Increasing
<1>4. QED
  BY <1>2, <1>3

-----------------------------------------------------------------------------
(* Types.                                                                  *)

\* The gateway starts with both channels empty and the writers idle.
LEMMA TypeInit == Init => TypeOK
<1> SUFFICES ASSUME Init PROVE TypeOK
  OBVIOUS
<1>1. queue \in Seq(1 .. MaxEntries) /\ batch \in Seq(1 .. MaxEntries)
  BY DEF Init
<1>2. offered \in 0 .. MaxEntries
  BY LogWriterAssumption DEF Init
<1>3. handler \in [Handlers -> {"idle", "busy"}]
  BY DEF Init
<1>4. QED
  BY <1>1, <1>2, <1>3 DEF Init, TypeOK

\* The batch comes from the queue, so what a flush settles was offered.
LEMMA TypeStep == TypeOK /\ EveryEntryAccounted /\ [Next]_vars => TypeOK'
<1> SUFFICES ASSUME TypeOK, EveryEntryAccounted, [Next]_vars PROVE TypeOK'
  OBVIOUS
<1> USE LogWriterAssumption
<1>1. /\ queue # <<>> => Head(queue) \in 1 .. MaxEntries /\ Tail(queue) \in Seq(1 .. MaxEntries)
      /\ \A x \in 1 .. MaxEntries : /\ Append(queue, x) \in Seq(1 .. MaxEntries)
                                   /\ Append(batch, x) \in Seq(1 .. MaxEntries)
      /\ <<>> \in Seq(1 .. MaxEntries)
  BY DEF TypeOK
<1>2. ToSet(batch) \subseteq Entries
  BY DEF EveryEntryAccounted
<1>3. CASE \E h \in Handlers : BeginRequest(h) \/ EndUnlogged(h)
  BY <1>3 DEF BeginRequest, EndUnlogged, TypeOK, entryVars, writerVars, Entries
<1>4. ASSUME NEW h \in Handlers, enqueueLog(h) PROVE TypeOK'
  <2>1. offered' \in 1 .. MaxEntries /\ Entries \subseteq Entries' /\ offered' \in Entries'
    BY <1>4 DEF enqueueLog, TypeOK, Entries
  <2>2. queue' \in Seq(1 .. MaxEntries) /\ dropped' \subseteq Entries'
    BY <1>1, <1>4, <2>1 DEF enqueueLog, TypeOK
  <2>3. handler' \in [Handlers -> {"idle", "busy"}]
    BY <1>4 DEF enqueueLog, TypeOK
  <2>4. QED
    BY <1>4, <2>1, <2>2, <2>3 DEF enqueueLog, TypeOK, writerVars
<1>5. CASE Receive
  BY <1>1, <1>5 DEF Receive, TypeOK, mainVars, Entries
<1>6. CASE DrainOne
  BY <1>1, <1>6 DEF DrainOne, TypeOK, mainVars, Entries
<1>7. CASE flush
  BY <1>1, <1>2, <1>7 DEF flush, TypeOK, entryVars, mainVars, Entries
<1>8. CASE Tick \/ StartDrain \/ DrainDone \/ TimerFires
  BY <1>8 DEF Tick, StartDrain, DrainDone, TimerFires, TypeOK, entryVars, mainVars, Entries
<1>9. CASE Signal \/ MainStep
  BY <1>9 DEF Signal, MainStep, ShutdownClean, ShutdownTimesOut, CloseDB,
              TypeOK, entryVars, writerVars, Entries
<1>10. CASE UNCHANGED vars
  BY <1>10 DEF vars, TypeOK, entryVars, writerVars, mainVars, Entries
<1>11. QED
  BY <1>3, <1>4, <1>5, <1>6, <1>7, <1>8, <1>9, <1>10 DEF Next, WriterStep

-----------------------------------------------------------------------------
(* Where the entries are, and in which order.                              *)

EntriesOrdered ==
  /\ Increasing(batch) /\ Increasing(queue)
  /\ \A b \in ToSet(batch) : /\ \A s \in Settled : s < b
                            /\ \A q \in ToSet(queue) : b < q
  /\ \A q \in ToSet(queue), s \in Settled : s < q

\* What WrittenInOrder says of positions, said of the sets of entries.
LEMMA OrderOfSets == TypeOK => (WrittenInOrder <=> EntriesOrdered)
<1> SUFFICES ASSUME TypeOK PROVE WrittenInOrder <=> EntriesOrdered
  OBVIOUS
<1>1. batch \in Seq(1 .. MaxEntries) /\ queue \in Seq(1 .. MaxEntries)
  BY DEF TypeOK
<1>2. /\ \A i \in 1 .. Len(batch) : batch[i] \in ToSet(batch)
      /\ \A y \in ToSet(batch) : \E i \in 1 .. Len(batch) : y = batch[i]
      /\ \A i \in 1 .. Len(queue) : queue[i] \in ToSet(queue)
      /\ \A y \in ToSet(queue) : \E i \in 1 .. Len(queue) : y = queue[i]
  BY <1>1, ToSetElements
<1>3. QED
  BY <1>2 DEF WrittenInOrder, EntriesOrdered

Ordered == EveryEntryAccounted /\ WrittenInOrder

\* A step that moves no entry keeps every entry in its place.
LEMMA OrderedUnmoved ==
  ASSUME Ordered, UNCHANGED <<entryVars, batch, stored, lost>>
  PROVE  Ordered'
  BY DEF Ordered, EveryEntryAccounted, WrittenInOrder, Settled, Entries, Increasing,
         ToSet, entryVars

\* An entry goes from the head of the queue to the end of the batch.
LEMMA OrderedReceive ==
  ASSUME TypeOK, TypeOK', Ordered, queue # <<>>,
         batch' = Append(batch, Head(queue)), queue' = Tail(queue),
         UNCHANGED <<offered, dropped, stored, lost>>
  PROVE  Ordered'
<1> DEFINE S == 1 .. MaxEntries
           x == Head(queue)
<1>1. batch \in Seq(S) /\ queue \in Seq(S) /\ x \in S /\ S \in SUBSET Nat
  BY LogWriterAssumption DEF TypeOK
<1>2. /\ ToSet(batch') = ToSet(batch) \cup {x}
      /\ ToSet(queue) = {x} \cup ToSet(queue')
  BY <1>1, ToSetAppend, ToSetTail
<1>3. EntriesOrdered
  BY OrderOfSets DEF Ordered
<1>4. /\ Increasing(queue')
      /\ \A q \in ToSet(queue') : x < q
  BY <1>1, <1>3, IncreasingTail DEF EntriesOrdered
<1>5. Increasing(batch')
  <2>1. \A b \in ToSet(batch) : b < x
    BY <1>2, <1>3 DEF EntriesOrdered
  <2>2. QED
    BY <2>1, <1>1, <1>3, IncreasingAppend DEF EntriesOrdered
<1>6. Settled' = Settled /\ Entries' = Entries
  BY DEF Settled, Entries
<1>7. WrittenInOrder'
  <2>1. EntriesOrdered'
    BY <1>2, <1>3, <1>4, <1>5, <1>6 DEF EntriesOrdered
  <2>2. QED
    BY <2>1, OrderOfSets, PTL
<1>8. EveryEntryAccounted'
  <2>1. x \notin ToSet(queue')
    BY <1>1, <1>4
  <2>2. QED
    BY <2>1, <1>2, <1>6 DEF Ordered, EveryEntryAccounted
<1>9. QED
  BY <1>7, <1>8 DEF Ordered

\* A new entry has the highest number: it goes to the end of the queue, or is
\* refused.
LEMMA OrderedEnqueue ==
  ASSUME TypeOK, TypeOK', Ordered, NEW h \in Handlers, enqueueLog(h)
  PROVE  Ordered'
<1> DEFINE S == 1 .. MaxEntries
           x == offered'
<1>1. /\ batch \in Seq(S) /\ queue \in Seq(S) /\ S \in SUBSET Nat
      /\ x \in S /\ x = offered + 1 /\ offered \in Nat
  BY LogWriterAssumption DEF TypeOK, enqueueLog
<1>2. Entries' = Entries \cup {x} /\ \A y \in Entries : y < x
  BY <1>1 DEF Entries
<1>3. Settled' = Settled /\ batch' = batch /\ Settled \subseteq Entries
  BY DEF Settled, enqueueLog, writerVars, TypeOK
<1>4. EntriesOrdered
  BY OrderOfSets DEF Ordered
<1>5. ToSet(queue) \subseteq Entries /\ ToSet(batch) \subseteq Entries /\ dropped \subseteq Entries
  BY DEF Ordered, EveryEntryAccounted
<1>6. x \notin Entries
  BY <1>1 DEF Entries
<1>7. CASE Len(queue) < logQueueSize
  <2>1. queue' = Append(queue, x) /\ dropped' = dropped
    BY <1>7 DEF enqueueLog
  <2>2. ToSet(queue') = ToSet(queue) \cup {x}
    <3>1. ToSet(Append(queue, x)) = ToSet(queue) \cup {x}
      <4>1. queue \in Seq(S) /\ x \in S
        BY <1>1
      <4> HIDE DEF S, x
      <4>2. QED
        BY <4>1, ToSetAppend
    <3>2. QED
      BY <3>1, <2>1
  <2>3. Increasing(queue')
    BY <2>1, <1>1, <1>2, <1>4, <1>5, IncreasingAppend DEF EntriesOrdered
  <2>4. WrittenInOrder'
    <3>1. EntriesOrdered'
      BY <2>2, <2>3, <1>2, <1>3, <1>4, <1>5 DEF EntriesOrdered
    <3>2. QED
      BY <3>1, OrderOfSets, PTL
  <2>5. EveryEntryAccounted'
    BY <2>1, <2>2, <1>2, <1>3, <1>5, <1>6
    DEF Ordered, EveryEntryAccounted, Settled, enqueueLog, writerVars
  <2>6. QED
    BY <2>4, <2>5 DEF Ordered
<1>8. CASE ~(Len(queue) < logQueueSize)
  <2>1. queue' = queue /\ dropped' = dropped \cup {x}
    BY <1>8 DEF enqueueLog
  <2>2. WrittenInOrder'
    BY <2>1, <1>3 DEF Ordered, WrittenInOrder, Increasing
  <2>3. EveryEntryAccounted'
    BY <2>1, <1>2, <1>3, <1>5, <1>6
    DEF Ordered, EveryEntryAccounted, Settled, enqueueLog, writerVars
  <2>4. QED
    BY <2>2, <2>3 DEF Ordered
<1>9. QED
  BY <1>7, <1>8

\* The whole batch is settled, one part of it stored and the other lost.
LEMMA OrderedFlush ==
  ASSUME TypeOK, TypeOK', Ordered, flush
  PROVE  Ordered'
<1>1. PICK written \in SUBSET ToSet(batch) :
        stored' = stored \cup written /\ lost' = lost \cup (ToSet(batch) \ written)
  BY DEF flush
<1>2. Settled' = Settled \cup ToSet(batch)
  BY <1>1 DEF Settled
<1>3. batch' = <<>> /\ queue' = queue /\ dropped' = dropped /\ Entries' = Entries
  BY DEF flush, entryVars, Entries
<1>4. ToSet(batch') = {} /\ Increasing(batch')
  BY <1>3 DEF ToSet, Increasing
<1>5. EntriesOrdered
  BY OrderOfSets DEF Ordered
<1>6. WrittenInOrder'
  <2>1. EntriesOrdered'
    BY <1>2, <1>3, <1>4, <1>5 DEF EntriesOrdered
  <2>2. QED
    BY <2>1, OrderOfSets, PTL
<1>7. EveryEntryAccounted'
  BY <1>1, <1>2, <1>3, <1>4 DEF Ordered, EveryEntryAccounted, Settled
<1>8. QED
  BY <1>6, <1>7 DEF Ordered

\* Every step of the gateway keeps each entry in one place and in order.
LEMMA OrderedStep == TypeOK /\ TypeOK' /\ Ordered /\ [Next]_vars => Ordered'
<1> SUFFICES ASSUME TypeOK, TypeOK', Ordered, [Next]_vars PROVE Ordered'
  OBVIOUS
<1>1. CASE \E h \in Handlers : BeginRequest(h) \/ EndUnlogged(h)
  BY <1>1, OrderedUnmoved DEF BeginRequest, EndUnlogged, writerVars
<1>2. ASSUME NEW h \in Handlers, enqueueLog(h) PROVE Ordered'
  BY <1>2, OrderedEnqueue
<1>3. CASE Receive \/ DrainOne
  BY <1>3, OrderedReceive DEF Receive, DrainOne
<1>4. CASE flush
  BY <1>4, OrderedFlush
<1>5. CASE Tick \/ StartDrain \/ DrainDone \/ TimerFires
  BY <1>5, OrderedUnmoved DEF Tick, StartDrain, DrainDone, TimerFires
<1>6. CASE Signal \/ MainStep \/ UNCHANGED vars
  BY <1>6, OrderedUnmoved DEF Signal, MainStep, ShutdownClean, ShutdownTimesOut, CloseDB,
                              vars, writerVars
<1>7. QED
  BY <1>1, <1>2, <1>3, <1>4, <1>5, <1>6 DEF Next, WriterStep

-----------------------------------------------------------------------------
(* The timer, the bounds and the shutdown.                                 *)

Timed == TimerIsKnown /\ BufferedIsTimed

\* Receive starts the timer before it buffers, flush empties the batch when it
\* stops it, and Tick hands the batch to a flush.
LEMMA TimedStep == TypeOK /\ Timed /\ [Next]_vars => Timed'
<1> SUFFICES ASSUME TypeOK, Timed, [Next]_vars PROVE Timed'
  OBVIOUS
<1>1. timerActive \in BOOLEAN /\ timer \in {"off", "armed", "fired"}
  BY DEF TypeOK
<1> USE DEF Timed, TimerIsKnown, BufferedIsTimed
<1>2. CASE \E h \in Handlers : BeginRequest(h) \/ enqueueLog(h) \/ EndUnlogged(h)
  BY <1>2 DEF BeginRequest, enqueueLog, EndUnlogged, writerVars
<1>3. CASE Receive
  BY <1>1, <1>3 DEF Receive
<1>4. CASE DrainOne \/ StartDrain \/ DrainDone
  BY <1>4 DEF DrainOne, StartDrain, DrainDone
<1>5. CASE Tick \/ TimerFires
  BY <1>1, <1>5 DEF Tick, TimerFires
<1>6. CASE flush
  BY <1>1, <1>6 DEF flush
<1>7. CASE Signal \/ MainStep \/ UNCHANGED vars
  BY <1>7 DEF Signal, MainStep, ShutdownClean, ShutdownTimesOut, CloseDB, vars, writerVars
<1>8. QED
  BY <1>2, <1>3, <1>4, <1>5, <1>6, <1>7 DEF Next, WriterStep

\* The send that never blocks bounds the queue, the threshold the batch.
LEMMA MemoryStep == TypeOK /\ MemoryBounded /\ [Next]_vars => MemoryBounded'
<1> SUFFICES ASSUME TypeOK, MemoryBounded, [Next]_vars PROVE MemoryBounded'
  OBVIOUS
<1> USE LogWriterAssumption DEF MemoryBounded
<1>1. /\ Len(queue) \in Nat /\ Len(batch) \in Nat
      /\ queue # <<>> => Len(Tail(queue)) = Len(queue) - 1
      /\ \A x : Len(Append(queue, x)) = Len(queue) + 1 /\ Len(Append(batch, x)) = Len(batch) + 1
  BY DEF TypeOK
<1>2. CASE \E h \in Handlers : BeginRequest(h) \/ EndUnlogged(h)
  BY <1>2 DEF BeginRequest, EndUnlogged, writerVars, entryVars
<1>3. ASSUME NEW h \in Handlers, enqueueLog(h) PROVE MemoryBounded'
  BY <1>1, <1>3 DEF enqueueLog, writerVars
<1>4. CASE Receive
  BY <1>1, <1>4 DEF Receive
<1>5. CASE DrainOne
  BY <1>1, <1>5 DEF DrainOne
<1>6. CASE Tick
  BY <1>1, <1>6 DEF Tick, entryVars
<1>7. CASE StartDrain \/ DrainDone \/ TimerFires
  BY <1>7 DEF StartDrain, DrainDone, TimerFires, entryVars
<1>8. CASE flush
  <2>1. batch' = <<>> /\ queue' = queue /\ Len(<<>>) = 0
    BY <1>8 DEF flush, entryVars
  <2>2. QED
    BY <1>1, <2>1
<1>9. CASE Signal \/ MainStep \/ UNCHANGED vars
  BY <1>9 DEF Signal, MainStep, ShutdownClean, ShutdownTimesOut, CloseDB, vars,
              writerVars, entryVars
<1>10. QED
  BY <1>2, <1>3, <1>4, <1>5, <1>6, <1>7, <1>8, <1>9 DEF Next, WriterStep

\* Without a timed-out Shutdown no handler runs when the writers are cancelled,
\* so the channel the drain has found empty stays empty.
LEMMA ShutdownStep == TypeOK /\ ShutdownShape /\ [Next]_vars => ShutdownShape'
<1> SUFFICES ASSUME TypeOK, ShutdownShape, [Next]_vars PROVE ShutdownShape'
  OBVIOUS
<1> USE DEF ShutdownShape
<1>1. /\ handler \in [Handlers -> {"idle", "busy"}] /\ forced \in BOOLEAN
      /\ writer \in {"select", "flush", "drain", "lastflush", "done"}
      /\ phase \in {"serving", "stopping", "cancelled", "closed"}
  BY DEF TypeOK
<1>2. ASSUME NEW h \in Handlers, BeginRequest(h) \/ EndUnlogged(h) PROVE ShutdownShape'
  BY <1>1, <1>2 DEF BeginRequest, EndUnlogged, writerVars, entryVars
<1>3. ASSUME NEW h \in Handlers, enqueueLog(h) PROVE ShutdownShape'
  BY <1>1, <1>3 DEF enqueueLog, writerVars
<1>4. CASE Receive \/ DrainOne
  BY <1>1, <1>4 DEF Receive, DrainOne, mainVars
<1>5. CASE Tick \/ StartDrain \/ DrainDone \/ TimerFires
  BY <1>1, <1>5 DEF Tick, StartDrain, DrainDone, TimerFires, entryVars, mainVars
<1>6. CASE flush
  BY <1>1, <1>6 DEF flush, entryVars, mainVars
<1>7. CASE Signal \/ MainStep
  BY <1>1, <1>7 DEF Signal, MainStep, ShutdownClean, ShutdownTimesOut, CloseDB,
                    writerVars, entryVars
<1>8. CASE UNCHANGED vars
  BY <1>8 DEF vars, writerVars, entryVars, mainVars
<1>9. QED
  BY <1>2, <1>3, <1>4, <1>5, <1>6, <1>7, <1>8 DEF Next, WriterStep

-----------------------------------------------------------------------------

\* The invariant holds when the writers start ...
LEMMA InvInit == Init => LogInv
<1> SUFFICES ASSUME Init PROVE LogInv
  OBVIOUS
<1>1. TypeOK
  BY TypeInit
<1>2. ToSet(batch) = {} /\ ToSet(queue) = {} /\ Entries = {}
  BY DEF Init, ToSet, Entries
<1>3. EveryEntryAccounted
  BY <1>2 DEF Init, EveryEntryAccounted, Settled
<1>4. WrittenInOrder
  BY DEF Init, WrittenInOrder, Increasing
<1>5. BufferedIsTimed /\ TimerIsKnown
  BY DEF Init, BufferedIsTimed, TimerIsKnown
<1>6. MemoryBounded
  BY LogWriterAssumption DEF Init, MemoryBounded
<1>7. ShutdownShape
  BY DEF Init, ShutdownShape
<1>8. QED
  BY <1>1, <1>3, <1>4, <1>5, <1>6, <1>7 DEF LogInv

\* ... and every step of handlers, writer, timer and main keeps it.
LEMMA InvStep == LogInv /\ [Next]_vars => LogInv'
<1> SUFFICES ASSUME LogInv, [Next]_vars PROVE LogInv'
  OBVIOUS
<1>1. TypeOK'
  BY TypeStep DEF LogInv
<1>2. Ordered'
  BY <1>1, OrderedStep DEF LogInv, Ordered
<1>3. Timed'
  BY TimedStep DEF LogInv, Timed
<1>4. MemoryBounded' /\ ShutdownShape'
  BY MemoryStep, ShutdownStep DEF LogInv
<1>5. QED
  BY <1>1, <1>2, <1>3, <1>4 DEF LogInv, Ordered, Timed

\* LogInv is an invariant of the log writer.
LEMMA LogInvariant == Spec => []LogInv
<1>1. QED
  BY InvInit, InvStep, PTL DEF Spec

\* Every variable of the writer, the handlers and main keeps its type.
THEOREM TypeCorrect == Spec => []TypeOK
<1>1. LogInv => TypeOK
  BY DEF LogInv
<1>2. QED
  BY <1>1, LogInvariant, PTL

\* No entry handed to enqueueInteractionLog or enqueueRequestLog disappears or
\* is in two places: only a full channel and a failed transaction lose one.
THEOREM NothingVanishes == Spec => []EveryEntryAccounted
<1>1. LogInv => EveryEntryAccounted
  BY DEF LogInv
<1>2. QED
  BY <1>1, LogInvariant, PTL

\* Rows reach the database in the order they were enqueued, none of them twice.
THEOREM RowsInOrder == Spec => []WrittenInOrder
<1>1. LogInv => WrittenInOrder
  BY DEF LogInv
<1>2. QED
  BY <1>1, LogInvariant, PTL

\* The writer never waits in its select with entries in hand and no timer set.
THEOREM NoEntryWaitsForever == Spec => []BufferedIsTimed
<1>1. LogInv => BufferedIsTimed
  BY DEF LogInv
<1>2. QED
  BY <1>1, LogInvariant, PTL

\* For every queue size and threshold the log path's memory is bounded by them
\* until the final drain.
THEOREM LogMemoryBounded == Spec => []MemoryBounded
<1>1. LogInv => MemoryBounded
  BY DEF LogInv
<1>2. QED
  BY <1>1, LogInvariant, PTL

\* A shutdown that did not time out leaves no accepted entry behind.
THEOREM CleanExit == Spec => []CleanExitKeepsAll
<1>1. LogInv => CleanExitKeepsAll
  BY DEF LogInv, ShutdownShape, CleanExitKeepsAll
<1>2. QED
  BY <1>1, LogInvariant, PTL
=============================================================================
