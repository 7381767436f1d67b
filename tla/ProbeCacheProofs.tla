-------------------------- MODULE ProbeCacheProofs --------------------------
(* What ProbeCache guarantees for every set of engines and callers and     *)
(* every bound, checked by TLAPS.                                          *)
EXTENDS ProbeCache, RecursionFacts, TLAPS

-----------------------------------------------------------------------------
(* Frames and data.                                                        *)

\* The program counter tells the shape of a stack frame.
LEMMA FrameShape ==
  ASSUME NEW f \in Frames
  PROVE  /\ f.pc = "done" => f \in DoneFrames
         /\ f.pc \notin {"idle", "done"} => f \in OpenFrames
         /\ f.pc = "idle" => f = NoCall
BY DEF Frames, OpenFrames, DoneFrames, NoCall

\* What a probe may find is probe data.
LEMMA DataType ==
  ASSUME NEW a \in Adapters, NEW v \in Nat
  PROVE  {Down, Unlisted, Listed(a, v)} \subseteq ProbeData
BY DEF ProbeData, Sightings, Down, Unlisted, Listed

\* An id that is not in the map reads as an entry.
LEMMA NoEntryType == NoEntry \in Entries
BY DEF NoEntry, Entries, ProbeData, Down

\* A set of adapters has an oldest one.
LEMMA OldestExists ==
  ASSUME NEW S \in SUBSET Adapters, S # {}
  PROVE  Min(S) \in S /\ \A b \in S : Min(S) <= b
<1>1. S \subseteq Nat
  BY DEF Adapters
<1>2. PICK a \in S : \A b \in S : a <= b
  BY <1>1, LeastElement
<1> QED
  BY <1>2 DEF Min

\* Some adapter held is the oldest.
LEMMA HeldFacts ==
  ASSUME TypeOK, NEW e \in Engines
  PROVE  /\ Min(Held(e)) \in Adapters
         /\ Min(Held(e)) \in Held(e)
         /\ \A b \in Held(e) : Min(Held(e)) <= b
<1>1. \A c \in Open(e) : call[c] \in OpenFrames
  BY FrameShape DEF Open, TypeOK
<1>2. Held(e) \in SUBSET Adapters
  BY <1>1 DEF Held, OpenFrames, TypeOK
<1>3. Held(e) # {}
  BY DEF Held
<1> QED
  BY <1>2, <1>3, OldestExists DEF Held

-----------------------------------------------------------------------------
(* Type correctness.                                                       *)

\* The process starts with an empty cache and no probe running.
LEMMA TypeInit == Init => TypeOK
<1> SUFFICES ASSUME Init PROVE TypeOK
  OBVIOUS
<1>1. 0 \in Adapters
  BY CacheBounds DEF Adapters
<1>2. upstream \in [Engines -> Lists]
  BY DEF Init, Lists
<1> QED
  BY <1>1, <1>2, NoEntryType DEF Init, TypeOK, Frames, NoCall

\* Every critical section, probe, panic, expiry and invalidation keeps the types.
LEMMA TypeStep == TypeOK /\ [Next]_vars => TypeOK'
<1> SUFFICES ASSUME TypeOK, [Next]_vars PROVE TypeOK'
  OBVIOUS
<1> USE DEF TypeOK, history
<1>1. ASSUME NEW e \in Engines, ReplaceAdapter(e) PROVE TypeOK'
  BY <1>1, CacheBounds DEF ReplaceAdapter, Adapters
<1>2. ASSUME NEW e \in Engines, Expire(e) PROVE TypeOK'
  BY <1>2 DEF Expire, Entries
<1>3. ASSUME NEW e \in Engines, NEW a \in Adapters, ChangeList(e, a) PROVE TypeOK'
  BY <1>3 DEF ChangeList, Lists
<1>4. CASE invalidateProbeCache
  <2>1. oldest' \in [Engines -> Adapters]
    <3>1. ASSUME NEW e \in Engines PROVE Min(Held(e)) \in Adapters
      BY <3>1, HeldFacts
    <3> QED
      BY <1>4, <3>1 DEF invalidateProbeCache, NoteInvalidation
  <2> QED
    BY <1>4, <2>1, NoEntryType DEF invalidateProbeCache, NoteInvalidation
<1>5. ASSUME NEW c \in Callers, NEW e \in Engines, StartCall(c, e) PROVE TypeOK'
  <2>1. Down \in ProbeData
    BY DEF ProbeData, Down
  <2>2. Begun(e) \in OpenFrames
    BY <2>1 DEF Begun, OpenFrames
  <2> QED
    BY <1>5, <2>2 DEF StartCall, Frames
<1>6. ASSUME NEW c \in Callers, Proceed(c) PROVE TypeOK'
  <2>1. call[c].pc \notin {"idle", "done"} => call[c] \in OpenFrames
    BY FrameShape
  <2>2. CASE WaitForRefresh(c)
    <3>1. probeCache[call[c].engine].inflight \in Callers \cup {NoChannel}
      BY <2>1, <2>2 DEF WaitForRefresh, OpenFrames, Entries
    <3>2. call'[c] \in OpenFrames
      BY <2>1, <2>2, <3>1 DEF WaitForRefresh, OpenFrames
    <3> QED
      BY <2>2, <3>2 DEF WaitForRefresh, Frames
  <2>3. CASE ServeCached(c)
    <3>1. call'[c] \in DoneFrames
      BY <2>1, <2>3 DEF ServeCached, OpenFrames, DoneFrames, Returned, Entries
    <3> QED
      BY <2>3, <3>1 DEF ServeCached, Frames
  <2>4. CASE ClaimRefresh(c)
    <3>1. call'[c] \in OpenFrames
      BY <2>1, <2>4 DEF ClaimRefresh, OpenFrames
    <3>2. probeCache' \in [Engines -> Entries]
      BY <2>1, <2>4, SMTT(30) DEF ClaimRefresh, OpenFrames, Entries
    <3> QED
      BY <2>4, <3>1, <3>2 DEF ClaimRefresh, Frames
  <2>5. CASE ProbeUpstream(c)
    <3>1. call[c] \in OpenFrames
      BY <2>1, <2>5 DEF ProbeUpstream
    <3>2. upstream[call[c].engine][call[c].via] \in Nat
      BY <3>1 DEF OpenFrames, Lists
    <3>3. PICK data \in {Down, Unlisted, Listed(call[c].via, upstream[call[c].engine][call[c].via])} :
            /\ call' = [call EXCEPT ![c].pc = "probed", ![c].data = data]
            /\ answered' = IF call[c].gen = probeGen
                             THEN [answered EXCEPT ![call[c].engine] = @ \cup {data.status}]
                             ELSE answered
      BY <2>5 DEF ProbeUpstream
    <3>4. data \in ProbeData
      BY <3>1, <3>2, <3>3, DataType DEF OpenFrames
    <3>5. call'[c] \in OpenFrames
      BY <3>1, <3>3, <3>4 DEF OpenFrames
    <3>6. call' \in [Callers -> Frames]
      BY <3>3, <3>5 DEF Frames
    <3>7. answered' \in [Engines -> SUBSET BOOLEAN]
      BY <3>1, <3>3, <3>4 DEF OpenFrames, ProbeData
    <3> QED
      BY <2>5, <3>6, <3>7 DEF ProbeUpstream
  <2>6. CASE StoreProbe(c)
    <3>1. call[c] \in OpenFrames
      BY <2>1, <2>6 DEF StoreProbe
    <3>2. call'[c] \in OpenFrames
      BY <2>6, <3>1 DEF StoreProbe, OpenFrames
    <3>3. probeCache' \in [Engines -> Entries]
      BY <2>6, <3>1 DEF StoreProbe, OpenFrames, Entries
    <3> QED
      BY <2>6, <3>2, <3>3 DEF StoreProbe, Frames
  <2>7. CASE ProbePanics(c)
    <3>1. call'[c] \in OpenFrames
      BY <2>1, <2>7 DEF ProbePanics, OpenFrames
    <3>2. probeCache' \in [Engines -> Entries]
      BY <2>7, NoEntryType DEF ProbePanics
    <3> QED
      BY <2>7, <3>1, <3>2 DEF ProbePanics, Frames
  <2>8. CASE CloseDone(c)
    <3>1. Woken(c) \in [Callers -> Frames]
      <4>1. ASSUME NEW d \in Callers, call[d].pc = "wait"
            PROVE  [call[d] EXCEPT !.pc = "lookup", !.on = NoChannel] \in OpenFrames
        <5>1. call[d] \in OpenFrames
          BY <4>1, FrameShape
        <5> QED
          BY <5>1 DEF OpenFrames
      <4> QED
        BY <4>1 DEF Woken, Frames
    <3>2. Returned(call[c], call[c].data) \in DoneFrames \/ call[c].pc = "panicked"
      BY <2>1, <2>8 DEF CloseDone, Returned, OpenFrames, DoneFrames
    <3> QED
      BY <2>8, <3>1, <3>2 DEF CloseDone, Frames
  <2>9. CASE EndCall(c)
    BY <2>9 DEF EndCall, Frames
  <2> QED
    BY <1>6, <2>2, <2>3, <2>4, <2>5, <2>6, <2>7, <2>8, <2>9 DEF Proceed, lookup
<1>7. CASE UNCHANGED vars
  BY <1>7 DEF vars
<1> QED
  BY <1>1, <1>2, <1>3, <1>4, <1>5, <1>6, <1>7 DEF Next

\* Every variable keeps its type.
THEOREM TypeCorrect == Spec => []TypeOK
<1>1. Init => TypeOK
  BY TypeInit
<1>2. TypeOK /\ [Next]_vars => TypeOK'
  BY TypeStep
<1> QED
  BY <1>1, <1>2, PTL DEF Spec

-----------------------------------------------------------------------------
(* The inductive invariant.                                                *)

\* Data that is recent enough for a later floor is recent enough for an earlier.
LEMMA AtLeastMonotone ==
  ASSUME NEW data \in ProbeData, NEW lo \in Lists, NEW hi \in Lists,
         \A a \in Adapters : lo[a] <= hi[a],
         AtLeast(data, hi)
  PROVE  AtLeast(data, lo)
BY DEF AtLeast, ProbeData, Sightings, Lists

\* Whatever a probe reads now is as recent as any past version.
LEMMA ReadIsRecent ==
  ASSUME NEW lo \in Lists, NEW list \in Lists, NEW a \in Adapters,
         \A b \in Adapters : lo[b] <= list[b],
         NEW data \in {Down, Unlisted, Listed(a, list[a])}
  PROVE  AtLeast(data, lo)
BY DEF AtLeast, Down, Unlisted, Listed

\* The strengthened invariant holds of the empty cache ...
LEMMA InvInit == Init => CacheInv
<1> SUFFICES ASSUME Init PROVE CacheInv
  OBVIOUS
<1>1. TypeOK
  BY TypeInit
<1>2. FloorsArePast
  BY <1>1 DEF Init, FloorsArePast, NoCall, TypeOK, Lists
<1>3. MarkersAreLive /\ InvalidationSticks /\ MarkersAreShaped /\ AbsentIsEmpty
  BY DEF Init, MarkersAreLive, InvalidationSticks, MarkersAreShaped, AbsentIsEmpty,
         Marked, HasData, Present, NoEntry
<1>4. CurrentRefreshIsMarked /\ ReadsAreRecent
  BY DEF Init, CurrentRefreshIsMarked, ReadsAreRecent, Refreshing, NoCall
<1> QED
  BY <1>1, <1>2, <1>3, <1>4 DEF CacheInv

\* ... and every step keeps it: a store is guarded by the generation, and the
\* generation ties a refresh to its marker.
LEMMA InvStep == CacheInv /\ [Next]_vars => CacheInv'
<1> SUFFICES ASSUME CacheInv, [Next]_vars PROVE CacheInv'
  OBVIOUS
<1>t. TypeOK /\ TypeOK'
  BY TypeStep DEF CacheInv
<1>s. \A c \in Callers :
        /\ call[c].pc = "done" => call[c] \in DoneFrames
        /\ call[c].pc \notin {"idle", "done"} => call[c] \in OpenFrames
        /\ call[c].pc = "idle" => call[c] = NoCall
  BY <1>t, FrameShape DEF TypeOK
<1>m. \A e \in Engines : Marked(e) => probeCache[e].inflight \in Callers
  BY <1>t DEF TypeOK, Entries, Marked
<1> USE DEF CacheInv, history
<1>1. ASSUME NEW e \in Engines, ReplaceAdapter(e) PROVE CacheInv'
  BY <1>1, <1>t DEF ReplaceAdapter, FloorsArePast, MarkersAreLive, CurrentRefreshIsMarked,
       ReadsAreRecent, InvalidationSticks, MarkersAreShaped, AbsentIsEmpty,
       Marked, HasData, Present, Fresh, Refreshing, AtLeast
<1>2. ASSUME NEW e \in Engines, Expire(e) PROVE CacheInv'
  <2>1. \A f \in Engines :
          /\ probeCache'[f].data = probeCache[f].data
          /\ probeCache'[f].inflight = probeCache[f].inflight
          /\ probeCache'[f].expiry = IF f = e THEN "expired" ELSE probeCache[f].expiry
          /\ f # e => probeCache'[f] = probeCache[f]
    BY <1>2, <1>t DEF Expire, TypeOK, Entries
  <2>2. UNCHANGED <<upstream, floor, probeGen, call>>
    BY <1>2 DEF Expire
  <2>3. Fresh(e)
    BY <1>2 DEF Expire
  <2>4. FloorsArePast' /\ ReadsAreRecent'
    BY <2>2 DEF FloorsArePast, ReadsAreRecent, AtLeast
  <2>5. MarkersAreLive' /\ CurrentRefreshIsMarked'
    BY <1>m, <2>1, <2>2, <1>s DEF MarkersAreLive, CurrentRefreshIsMarked, Marked, Refreshing, OpenFrames
  <2>6. InvalidationSticks' /\ MarkersAreShaped' /\ AbsentIsEmpty'
    BY <2>1, <2>2, <2>3 DEF InvalidationSticks, MarkersAreShaped, AbsentIsEmpty, HasData, Present,
         Marked, Fresh, AtLeast
  <2> QED
    BY <1>t, <2>4, <2>5, <2>6
<1>3. ASSUME NEW e \in Engines, NEW a \in Adapters, ChangeList(e, a) PROVE CacheInv'
  <2>1. UNCHANGED <<floor, probeCache, probeGen, call>>
    BY <1>3 DEF ChangeList
  <2>2. \A f \in Engines, b \in Adapters : upstream[f][b] <= upstream'[f][b]
    BY <1>3, <1>t DEF ChangeList, TypeOK, Lists
  <2>3. FloorsArePast'
    BY <2>1, <2>2, <1>t DEF FloorsArePast, TypeOK, Lists
  <2> QED
    BY <1>t, <2>1, <2>3 DEF MarkersAreLive, CurrentRefreshIsMarked, ReadsAreRecent,
         InvalidationSticks, MarkersAreShaped, AbsentIsEmpty, Marked, HasData, Present, Fresh,
         Refreshing, AtLeast
<1>4. CASE invalidateProbeCache
  <2>1. UNCHANGED <<upstream, call>> /\ floor' = upstream /\ probeGen' = probeGen + 1
    BY <1>4 DEF invalidateProbeCache, NoteInvalidation
  <2>2. \A e \in Engines : probeCache'[e] = NoEntry
    BY <1>4 DEF invalidateProbeCache
  <2>3. MarkersAreLive' /\ InvalidationSticks' /\ MarkersAreShaped' /\ AbsentIsEmpty'
    BY <1>m, <2>2 DEF MarkersAreLive, InvalidationSticks, MarkersAreShaped, AbsentIsEmpty, Marked,
         HasData, Present, NoEntry
  <2>4. \A c \in Callers : call[c].pc \notin {"idle", "done"} => call[c].gen \in Nat
    BY <1>s DEF OpenFrames
  <2>5. CurrentRefreshIsMarked' /\ \A c \in Callers : Refreshing(c) => call[c].gen # probeGen'
    BY <2>1, <2>4, <1>t DEF CurrentRefreshIsMarked, Refreshing, TypeOK
  <2>6. ReadsAreRecent'
    BY <2>1, <2>5 DEF ReadsAreRecent, Refreshing, AtLeast
  <2>7. FloorsArePast'
    <3>1. ASSUME NEW e \in Engines, NEW a \in Adapters, NEW c \in Callers,
                 call[c].pc # "idle", call[c].engine = e
          PROVE  call[c].since[a] <= upstream[e][a]
      <4>1. call[c].since \in Lists
        BY <1>s, <3>1 DEF OpenFrames, DoneFrames
      <4> QED
        BY <3>1, <4>1, <1>t DEF FloorsArePast, TypeOK, Lists
    <3> QED
      BY <2>1, <3>1, <1>t DEF FloorsArePast, TypeOK, Lists
  <2> QED
    BY <1>t, <2>3, <2>5, <2>6, <2>7
<1>5. ASSUME NEW c \in Callers, NEW e \in Engines, StartCall(c, e) PROVE CacheInv'
  <2>1. UNCHANGED <<upstream, floor, probeCache, probeGen>>
    BY <1>5 DEF StartCall
  <2>2. call[c] = NoCall /\ call' = [call EXCEPT ![c] = Begun(e)]
    BY <1>5 DEF StartCall
  <2>3. /\ call'[c] = Begun(e)
        /\ \A d \in Callers \ {c} : call'[d] = call[d]
    BY <2>2, <1>t DEF TypeOK
  <2>4. FloorsArePast'
    <3>1. call'[c].engine = e /\ call'[c].since = floor[e]
      BY <2>3 DEF Begun
    <3>2. \A a \in Adapters : floor[e][a] <= floor[e][a]
      BY <1>t DEF TypeOK, Lists
    <3> QED
      BY <2>1, <2>3, <3>1, <3>2 DEF FloorsArePast
  <2>5. MarkersAreLive'
    BY <1>m, <2>1, <2>2, <2>3 DEF MarkersAreLive, Marked, Refreshing, NoCall
  <2>6. CurrentRefreshIsMarked' /\ ReadsAreRecent'
    BY <2>1, <2>3 DEF CurrentRefreshIsMarked, ReadsAreRecent, Refreshing, Begun, AtLeast
  <2>7. InvalidationSticks' /\ MarkersAreShaped' /\ AbsentIsEmpty'
    BY <2>1 DEF InvalidationSticks, MarkersAreShaped, AbsentIsEmpty, HasData, Present, Marked, Fresh, AtLeast
  <2> QED
    BY <1>t, <2>4, <2>5, <2>6, <2>7
<1>6. ASSUME NEW c \in Callers, Proceed(c) PROVE CacheInv'
  <2>a. UNCHANGED <<upstream, floor, probeGen>>
    BY <1>6 DEF Proceed, lookup, WaitForRefresh, ServeCached, ClaimRefresh, ProbeUpstream,
         StoreProbe, ProbePanics, CloseDone, EndCall
  <2>1. CASE WaitForRefresh(c)
    <3>1. /\ call[c] \in OpenFrames
          /\ call'[c] = [call[c] EXCEPT !.pc = "wait", !.on = call'[c].on]
          /\ \A d \in Callers \ {c} : call'[d] = call[d]
          /\ probeCache' = probeCache
          /\ call[c].pc = "lookup"
      BY <2>1, <1>s, <1>t DEF WaitForRefresh, TypeOK, OpenFrames
    <3>2. /\ call'[c].pc = "wait" /\ call'[c].engine = call[c].engine
          /\ call'[c].since = call[c].since
      BY <3>1 DEF OpenFrames
    <3>3. FloorsArePast'
      BY <2>a, <3>1, <3>2 DEF FloorsArePast
    <3>4. MarkersAreLive' /\ CurrentRefreshIsMarked' /\ ReadsAreRecent'
      BY <1>m, <2>a, <3>1, <3>2 DEF MarkersAreLive, CurrentRefreshIsMarked, ReadsAreRecent,
           Marked, Refreshing, AtLeast
    <3>5. InvalidationSticks' /\ MarkersAreShaped' /\ AbsentIsEmpty'
      BY <2>a, <3>1 DEF InvalidationSticks, MarkersAreShaped, AbsentIsEmpty, HasData, Present,
           Marked, Fresh, AtLeast
    <3> QED
      BY <1>t, <3>3, <3>4, <3>5
  <2>2. CASE ServeCached(c)
    <3> DEFINE e == call[c].engine
    <3>1. /\ call[c] \in OpenFrames
          /\ call'[c] = Returned(call[c], probeCache[e].data)
          /\ \A d \in Callers \ {c} : call'[d] = call[d]
          /\ probeCache' = probeCache
          /\ call[c].pc = "lookup"
          /\ Fresh(e)
      BY <2>2, <1>s, <1>t DEF ServeCached, TypeOK
    <3>2. e \in Engines /\ call[c].since \in Lists /\ probeCache[e].data \in ProbeData
          /\ floor[e] \in Lists
      BY <3>1, <1>t DEF OpenFrames, TypeOK, Entries
    <3>3. AtLeast(probeCache[e].data, floor[e])
      BY <3>1, <3>2 DEF InvalidationSticks, HasData, Fresh
    <3>4. \A a \in Adapters : call[c].since[a] <= floor[e][a]
      BY <3>1, <3>2 DEF FloorsArePast
    <3>5. AtLeast(probeCache[e].data, call[c].since)
      BY <3>2, <3>3, <3>4, AtLeastMonotone
    <3>6. FloorsArePast'
      BY <2>a, <3>1 DEF FloorsArePast, Returned
    <3>7. MarkersAreLive' /\ CurrentRefreshIsMarked'
      BY <1>m, <2>a, <3>1 DEF MarkersAreLive, CurrentRefreshIsMarked, Marked, Refreshing, Returned
    <3>8. ReadsAreRecent'
      BY <2>a, <3>1, <3>5 DEF ReadsAreRecent, Returned, AtLeast
    <3>9. InvalidationSticks' /\ MarkersAreShaped' /\ AbsentIsEmpty'
      BY <2>a, <3>1 DEF InvalidationSticks, MarkersAreShaped, AbsentIsEmpty, HasData, Present,
           Marked, Fresh, AtLeast
    <3> QED
      BY <1>t, <3>6, <3>7, <3>8, <3>9
  <2>3. CASE ClaimRefresh(c)
    <3> DEFINE e == call[c].engine
    <3>1. /\ call[c] \in OpenFrames
          /\ call' = [call EXCEPT ![c].pc = "probe", ![c].gen = probeGen]
          /\ call[c].pc = "lookup"
          /\ ~Marked(e) /\ ~Fresh(e)
          /\ probeCache' = [probeCache EXCEPT
                ![e].inflight = c, ![e].expiry = IF Present(e) THEN @ ELSE "zero"]
      BY <2>3, <1>s DEF ClaimRefresh
    <3>2. e \in Engines
      BY <3>1 DEF OpenFrames
    <3>3. /\ call'[c].pc = "probe" /\ call'[c].engine = e
          /\ call'[c].since = call[c].since /\ call'[c].gen = probeGen
          /\ \A d \in Callers \ {c} : call'[d] = call[d]
      BY <3>1, <1>t DEF OpenFrames, TypeOK
    <3>4. /\ probeCache'[e].inflight = c
          /\ probeCache'[e].data = probeCache[e].data
          /\ probeCache'[e].expiry = IF Present(e) THEN probeCache[e].expiry ELSE "zero"
          /\ \A f \in Engines \ {e} : probeCache'[f] = probeCache[f]
      BY <3>1, <3>2, <1>t DEF TypeOK, Entries
    <3>5. FloorsArePast'
      <4>1. call[c].pc = "lookup"
        BY <3>1
      <4> QED
        BY <2>a, <3>3, <4>1 DEF FloorsArePast
    <3>6. MarkersAreLive'
      <4>1. call[c].pc = "lookup"
        BY <3>1
      <4> QED
        BY <1>m, <2>a, <3>3, <3>4, <4>1 DEF MarkersAreLive, Marked, Refreshing
    <3>7. CurrentRefreshIsMarked'
      <4>1. \A d \in Callers : Refreshing(d) /\ call[d].gen = probeGen => call[d].engine # e
        BY <3>1, NoChannelIsNil DEF CurrentRefreshIsMarked, Marked
      <4>2. \A d \in Callers : Refreshing(d) => call[d].engine \in Engines
        BY <1>s DEF Refreshing, OpenFrames
      <4> QED
        BY <2>a, <3>2, <3>3, <3>4, <4>1, <4>2, <1>t DEF CurrentRefreshIsMarked, Refreshing, TypeOK
    <3>8. ReadsAreRecent'
      BY <2>a, <3>3 DEF ReadsAreRecent, AtLeast
    <3>9. InvalidationSticks' /\ MarkersAreShaped' /\ AbsentIsEmpty'
      <4>1. probeCache'[e].expiry \in {"fresh", "expired"} => HasData(e)
        BY <3>4 DEF HasData, Present
      <4>2. \A f \in Engines : probeCache'[f].data = probeCache[f].data
        BY <3>4
      <4>3. InvalidationSticks'
        BY <2>a, <3>4, <4>1, <4>2 DEF InvalidationSticks, HasData, AtLeast
      <4>4. probeCache[e].expiry \in {"none", "zero", "expired"}
        BY <3>1, <3>2, <1>t DEF Fresh, TypeOK, Entries
      <4>5. probeCache[e].expiry # "zero"
        BY <3>1, <3>2 DEF MarkersAreShaped, Present
      <4>6. CASE ~Present(e)
        <5>1. probeCache[e].data = Down
          BY <3>2, <4>6 DEF AbsentIsEmpty, NoEntry
        <5> QED
          BY <3>4, <4>3, <4>6, <5>1, NoChannelIsNil DEF MarkersAreShaped, AbsentIsEmpty, Present, Marked, Fresh
      <4>7. CASE Present(e)
        BY <3>4, <4>3, <4>4, <4>5, <4>7, NoChannelIsNil DEF MarkersAreShaped, AbsentIsEmpty, Present, Marked, Fresh
      <4> QED
        BY <4>6, <4>7
    <3> QED
      BY <1>t, <3>5, <3>6, <3>7, <3>8, <3>9
  <2>4. CASE ProbeUpstream(c)
    <3> DEFINE e == call[c].engine
               list == upstream[e]
               a == call[c].via
    <3>1. call[c] \in OpenFrames /\ call[c].pc = "probe" /\ probeCache' = probeCache
      BY <2>4, <1>s DEF ProbeUpstream
    <3>2. e \in Engines /\ a \in Adapters /\ call[c].since \in Lists
          /\ list \in Lists /\ floor[e] \in Lists
      BY <3>1, <1>t DEF OpenFrames, TypeOK
    <3>3. PICK data \in {Down, Unlisted, Listed(a, list[a])} :
            call' = [call EXCEPT ![c].pc = "probed", ![c].data = data]
      BY <2>4 DEF ProbeUpstream
    <3>4. /\ call'[c].pc = "probed" /\ call'[c].engine = e /\ call'[c].data = data
          /\ call'[c].since = call[c].since /\ call'[c].gen = call[c].gen
          /\ \A d \in Callers \ {c} : call'[d] = call[d]
      BY <3>1, <3>3, <1>t DEF OpenFrames, TypeOK
    <3>5. \A b \in Adapters : floor[e][b] <= list[b] /\ call[c].since[b] <= list[b]
      BY <3>1, <3>2 DEF FloorsArePast, Lists
    <3>6. AtLeast(data, floor[e])
      BY <3>2, <3>3, <3>5, ReadIsRecent
    <3>7. AtLeast(data, call[c].since)
      BY <3>2, <3>3, <3>5, ReadIsRecent
    <3>8. FloorsArePast'
      BY <2>a, <3>1, <3>4 DEF FloorsArePast
    <3>9. ReadsAreRecent'
      BY <2>a, <3>4, <3>6, <3>7 DEF ReadsAreRecent, AtLeast
    <3>10. MarkersAreLive' /\ CurrentRefreshIsMarked'
      BY <1>m, <2>a, <3>1, <3>4 DEF MarkersAreLive, CurrentRefreshIsMarked, Marked, Refreshing
    <3>11. InvalidationSticks' /\ MarkersAreShaped' /\ AbsentIsEmpty'
      BY <2>a, <3>1 DEF InvalidationSticks, MarkersAreShaped, AbsentIsEmpty, HasData,
           Present, Marked, Fresh, AtLeast
    <3> QED
      BY <1>t, <3>8, <3>9, <3>10, <3>11
  <2>5. CASE StoreProbe(c)
    <3> DEFINE e == call[c].engine
    <3>1. call[c] \in OpenFrames /\ call[c].pc = "probed" /\ e \in Engines
      BY <2>5, <1>s DEF StoreProbe, OpenFrames
    <3>2. /\ call'[c].pc = "stored" /\ call'[c].engine = e /\ call'[c].data = call[c].data
          /\ call'[c].since = call[c].since
          /\ \A d \in Callers \ {c} : call'[d] = call[d]
      BY <2>5, <3>1, <1>t DEF StoreProbe, OpenFrames, TypeOK
    <3>3. FloorsArePast' /\ ReadsAreRecent'
      BY <2>a, <3>1, <3>2 DEF FloorsArePast, ReadsAreRecent, AtLeast
    <3>4. CASE probeGen = call[c].gen
      <4>1. /\ probeCache'[e] =
                 [expiry |-> "fresh", data |-> call[c].data, inflight |-> NoChannel]
            /\ \A f \in Engines \ {e} : probeCache'[f] = probeCache[f]
        BY <2>5, <3>1, <3>4, <1>t DEF StoreProbe, TypeOK
      <4>2. probeCache[e].inflight = c
        BY <3>1, <3>4 DEF CurrentRefreshIsMarked, Refreshing
      <4>3. AtLeast(call[c].data, floor[e])
        BY <3>1, <3>4 DEF ReadsAreRecent
      <4>4. MarkersAreLive'
        <5>1. \A f \in Engines \ {e} : probeCache[f].inflight # c
          BY <3>1, NoChannelIsNil DEF MarkersAreLive, Marked
        <5> QED
          BY <1>m, <2>a, <3>2, <4>1, <5>1 DEF MarkersAreLive, Marked, Refreshing
      <4>5. CurrentRefreshIsMarked'
        <5>1. \A d \in Callers : Refreshing(d) => call[d].engine \in Engines
          BY <1>s DEF Refreshing, OpenFrames
        <5> QED
          BY <2>a, <3>2, <4>1, <4>2, <5>1 DEF CurrentRefreshIsMarked, Refreshing
      <4>6. InvalidationSticks'
        BY <2>a, <4>1, <4>3 DEF InvalidationSticks, HasData, AtLeast
      <4>7. MarkersAreShaped' /\ AbsentIsEmpty'
        BY <4>1 DEF MarkersAreShaped, AbsentIsEmpty, Present, Marked, Fresh
      <4> QED
        BY <1>t, <3>3, <4>4, <4>5, <4>6, <4>7
    <3>5. CASE probeGen # call[c].gen
      <4>1. probeCache' = probeCache
        BY <2>5, <3>5 DEF StoreProbe
      <4>2. MarkersAreLive' /\ CurrentRefreshIsMarked'
        BY <1>m, <2>a, <3>2, <3>5, <4>1 DEF MarkersAreLive, CurrentRefreshIsMarked, Marked, Refreshing
      <4>3. InvalidationSticks' /\ MarkersAreShaped' /\ AbsentIsEmpty'
        BY <2>a, <4>1 DEF InvalidationSticks, MarkersAreShaped, AbsentIsEmpty, HasData,
             Present, Marked, Fresh, AtLeast
      <4> QED
        BY <1>t, <3>3, <4>2, <4>3
    <3> QED
      BY <3>4, <3>5
  <2>6. CASE ProbePanics(c)
    <3> DEFINE e == call[c].engine
    <3>1. call[c] \in OpenFrames /\ call[c].pc = "probe" /\ e \in Engines
      BY <2>6, <1>s DEF ProbePanics, OpenFrames
    <3>2. /\ call'[c].pc = "panicked" /\ call'[c].engine = e
          /\ call'[c].since = call[c].since
          /\ \A d \in Callers \ {c} : call'[d] = call[d]
      BY <2>6, <3>1, <1>t DEF ProbePanics, OpenFrames, TypeOK
    <3>3. FloorsArePast' /\ ReadsAreRecent'
      BY <2>a, <3>1, <3>2 DEF FloorsArePast, ReadsAreRecent, AtLeast
    <3>4. \A f \in Engines :
            probeCache'[f] = IF f = e /\ probeGen = call[c].gen THEN NoEntry ELSE probeCache[f]
      BY <2>6, <3>1, <1>t DEF ProbePanics, TypeOK
    <3>5. probeGen = call[c].gen => probeCache[e].inflight = c
      BY <3>1 DEF CurrentRefreshIsMarked, Refreshing
    <3>6. MarkersAreLive'
      BY <1>m, <2>a, <3>1, <3>2, <3>4, NoChannelIsNil DEF MarkersAreLive, Marked, Refreshing, NoEntry
    <3>7. CurrentRefreshIsMarked'
      <4>1. \A d \in Callers : Refreshing(d) => call[d].engine \in Engines
        BY <1>s DEF Refreshing, OpenFrames
      <4> QED
        BY <2>a, <3>2, <3>4, <3>5, <4>1 DEF CurrentRefreshIsMarked, Refreshing
    <3>8. InvalidationSticks' /\ MarkersAreShaped' /\ AbsentIsEmpty'
      BY <2>a, <3>4 DEF InvalidationSticks, MarkersAreShaped, AbsentIsEmpty, HasData,
           Present, Marked, Fresh, AtLeast, NoEntry
    <3> QED
      BY <1>t, <3>3, <3>6, <3>7, <3>8
  <2>7. CASE CloseDone(c)
    <3>1. probeCache' = probeCache /\ call[c] \in OpenFrames
          /\ call[c].pc \in {"stored", "panicked"}
      BY <2>7, <1>s DEF CloseDone
    <3>2. call'[c] = IF call[c].pc = "stored" THEN Returned(call[c], call[c].data) ELSE NoCall
      BY <2>7 DEF CloseDone, Woken
    <3>3. ASSUME NEW d \in Callers \ {c}
          PROVE  \/ call'[d] = call[d]
                 \/ /\ call[d].pc = "wait" /\ call'[d].pc = "lookup"
                    /\ call'[d].engine = call[d].engine /\ call'[d].since = call[d].since
      <4>1. call'[d] = Woken(c)[d]
        BY <2>7 DEF CloseDone, Woken
      <4>2. call[d].pc = "wait" => call[d] \in OpenFrames
        BY <1>s
      <4> QED
        BY <4>1, <4>2 DEF Woken, OpenFrames
    <3>4. FloorsArePast'
      BY <2>a, <3>1, <3>2, <3>3 DEF FloorsArePast, Returned, NoCall
    <3>5. MarkersAreLive' /\ CurrentRefreshIsMarked'
      BY <1>m, <2>a, <3>1, <3>2, <3>3 DEF MarkersAreLive, CurrentRefreshIsMarked, Marked,
           Refreshing, Returned, NoCall
    <3>6. ReadsAreRecent'
      BY <2>a, <3>1, <3>2, <3>3 DEF ReadsAreRecent, Returned, NoCall, AtLeast
    <3>7. InvalidationSticks' /\ MarkersAreShaped' /\ AbsentIsEmpty'
      BY <2>a, <3>1 DEF InvalidationSticks, MarkersAreShaped, AbsentIsEmpty, HasData,
           Present, Marked, Fresh, AtLeast
    <3> QED
      BY <1>t, <3>4, <3>5, <3>6, <3>7
  <2>8. CASE EndCall(c)
    <3>1. /\ call[c].pc = "done" /\ call'[c] = NoCall /\ probeCache' = probeCache
          /\ \A d \in Callers \ {c} : call'[d] = call[d]
      BY <2>8, <1>t DEF EndCall, TypeOK
    <3>2. FloorsArePast' /\ ReadsAreRecent'
      BY <2>a, <3>1 DEF FloorsArePast, ReadsAreRecent, NoCall, AtLeast
    <3>3. MarkersAreLive' /\ CurrentRefreshIsMarked'
      BY <1>m, <2>a, <3>1 DEF MarkersAreLive, CurrentRefreshIsMarked, Marked, Refreshing, NoCall
    <3>4. InvalidationSticks' /\ MarkersAreShaped' /\ AbsentIsEmpty'
      BY <2>a, <3>1 DEF InvalidationSticks, MarkersAreShaped, AbsentIsEmpty, HasData,
           Present, Marked, Fresh, AtLeast
    <3> QED
      BY <1>t, <3>2, <3>3, <3>4
  <2> QED
    BY <1>6, <2>1, <2>2, <2>3, <2>4, <2>5, <2>6, <2>7, <2>8 DEF Proceed, lookup
<1>7. CASE UNCHANGED vars
  BY <1>7, <1>t DEF vars, FloorsArePast, MarkersAreLive, CurrentRefreshIsMarked,
       ReadsAreRecent, InvalidationSticks, MarkersAreShaped, AbsentIsEmpty,
       Marked, HasData, Present, Fresh, Refreshing, AtLeast
<1> QED
  BY <1>1, <1>2, <1>3, <1>4, <1>5, <1>6, <1>7 DEF Next

\* CacheInv is an invariant of the probe cache.
LEMMA CacheInvariant == Spec => []CacheInv
<1>1. Init => CacheInv
  BY InvInit
<1>2. CacheInv /\ [Next]_vars => CacheInv'
  BY InvStep
<1> QED
  BY <1>1, <1>2, PTL DEF Spec

-----------------------------------------------------------------------------
(* The properties.                                                         *)

\* Nobody is sent to wait on a channel that is already closed.
THEOREM MarkersLive == Spec => []MarkersAreLive
<1>1. CacheInv => MarkersAreLive
  BY DEF CacheInv
<1> QED
  BY <1>1, CacheInvariant, PTL

\* An engine is probed by one refresh of the current generation at a time:
\* both would have to own the one marker in its entry.
THEOREM OneRefreshAtATime == Spec => []SingleFlight
<1>1. CacheInv => SingleFlight
  BY DEF CacheInv, CurrentRefreshIsMarked, SingleFlight
<1> QED
  BY <1>1, CacheInvariant, PTL

\* A probe in flight across an invalidation never undoes it.
THEOREM NoStaleStore == Spec => []InvalidationSticks
<1>1. CacheInv => InvalidationSticks
  BY DEF CacheInv
<1> QED
  BY <1>1, CacheInvariant, PTL

-----------------------------------------------------------------------------
(* What the pages are shown.                                               *)

\* A status is stored only by the refresh that found it, in the generation in
\* which it was found.
LEMMA FoundStep == CacheInv /\ CacheInv' /\ StatusesWereFound /\ [Next]_vars => StatusesWereFound'
<1> SUFFICES ASSUME CacheInv, CacheInv', StatusesWereFound, [Next]_vars
             PROVE  StatusesWereFound'
  OBVIOUS
<1>t. TypeOK /\ TypeOK'
  BY DEF CacheInv
<1>s. \A c \in Callers : call[c].pc \notin {"idle", "done"} => call[c] \in OpenFrames
  BY <1>t, FrameShape DEF TypeOK
<1>1. ASSUME UNCHANGED <<answered, probeGen>>,
             \A e \in Engines : HasData(e)' =>
               HasData(e) /\ probeCache'[e].data = probeCache[e].data,
             \A c \in Callers : call'[c].pc = "probed" => call'[c] = call[c]
      PROVE  StatusesWereFound'
  BY <1>1 DEF StatusesWereFound
<1>2. ASSUME NEW e \in Engines, ReplaceAdapter(e) \/ (\E a \in Adapters : ChangeList(e, a))
      PROVE  StatusesWereFound'
  BY <1>1, <1>2 DEF ReplaceAdapter, ChangeList, history, HasData
<1>3. ASSUME NEW e \in Engines, Expire(e) PROVE StatusesWereFound'
  <2>1. \A f \in Engines : HasData(f)' => HasData(f) /\ probeCache'[f].data = probeCache[f].data
    BY <1>3, <1>t DEF Expire, TypeOK, Entries, HasData, Fresh
  <2> QED
    BY <1>1, <1>3, <2>1 DEF Expire, history
<1>4. CASE invalidateProbeCache
  <2>1. UNCHANGED call /\ probeGen' = probeGen + 1 /\ \A e \in Engines : ~HasData(e)'
    BY <1>4 DEF invalidateProbeCache, HasData, NoEntry
  <2>2. \A c \in Callers : call[c].pc = "probed" => call[c].gen # probeGen'
    <3>1. \A c \in Callers : call[c].pc = "probed" => call[c].gen <= probeGen /\ call[c].gen \in Nat
      BY <1>s DEF CacheInv, CurrentRefreshIsMarked, Refreshing, OpenFrames
    <3> QED
      BY <1>t, <2>1, <3>1 DEF TypeOK
  <2> QED
    BY <2>1, <2>2 DEF StatusesWereFound
<1>5. ASSUME NEW c \in Callers, NEW e \in Engines, StartCall(c, e) PROVE StatusesWereFound'
  <2>1. /\ UNCHANGED <<answered, probeGen, probeCache>>
        /\ \A d \in Callers : call'[d] = call[d] \/ call'[d].pc = "lookup"
    BY <1>5, <1>t DEF StartCall, Begun, history, TypeOK
  <2> QED
    BY <1>1, <2>1 DEF HasData
<1>6. ASSUME NEW c \in Callers, Proceed(c) PROVE StatusesWereFound'
  <2>1. CASE WaitForRefresh(c) \/ ServeCached(c) \/ EndCall(c)
    <3>1. UNCHANGED <<answered, probeGen, probeCache>>
      BY <2>1 DEF WaitForRefresh, ServeCached, EndCall, history
    <3>2. ASSUME NEW d \in Callers PROVE call'[d] = call[d] \/ call'[d].pc # "probed"
      <4>1. CASE WaitForRefresh(c)
        <5>1. call[c] \in OpenFrames
          BY <1>s, <4>1 DEF WaitForRefresh
        <5> QED
          BY <4>1, <5>1, <1>t DEF WaitForRefresh, TypeOK, OpenFrames
      <4>2. CASE ServeCached(c) \/ EndCall(c)
        BY <4>2, <1>t DEF ServeCached, EndCall, Returned, NoCall, TypeOK
      <4> QED
        BY <2>1, <4>1, <4>2
    <3> QED
      BY <1>1, <3>1, <3>2 DEF HasData
  <2>2. CASE ClaimRefresh(c)
    <3>1. call[c] \in OpenFrames /\ call[c].engine \in Engines
      BY <2>2, <1>s DEF ClaimRefresh, OpenFrames
    <3>2. call'[c].pc = "probe" /\ \A d \in Callers \ {c} : call'[d] = call[d]
      BY <2>2, <3>1, <1>t DEF ClaimRefresh, TypeOK, OpenFrames
    <3>3. \A f \in Engines : HasData(f)' => HasData(f) /\ probeCache'[f].data = probeCache[f].data
      BY <2>2, <3>1, <1>t DEF ClaimRefresh, TypeOK, Entries, HasData, Present
    <3> QED
      BY <1>1, <2>2, <3>2, <3>3 DEF ClaimRefresh, history
  <2>3. CASE ProbeUpstream(c)
    <3> DEFINE e == call[c].engine
    <3>1. call[c] \in OpenFrames /\ e \in Engines /\ UNCHANGED <<probeGen, probeCache>>
      BY <2>3, <1>s DEF ProbeUpstream, OpenFrames
    <3>2. PICK data : /\ call' = [call EXCEPT ![c].pc = "probed", ![c].data = data]
                      /\ answered' = IF call[c].gen = probeGen
                                       THEN [answered EXCEPT ![e] = @ \cup {data.status}]
                                       ELSE answered
      BY <2>3 DEF ProbeUpstream
    <3>3. /\ call'[c].engine = e /\ call'[c].data = data /\ call'[c].gen = call[c].gen
          /\ \A d \in Callers \ {c} : call'[d] = call[d]
      BY <3>1, <3>2, <1>t DEF OpenFrames, TypeOK
    <3>4. /\ \A f \in Engines : answered[f] \subseteq answered'[f]
          /\ call[c].gen = probeGen => data.status \in answered'[e]
      BY <3>1, <3>2, <1>t DEF TypeOK
    <3>5. \A d \in Callers : call[d].pc = "probed" => call[d].engine \in Engines
      BY <1>s DEF OpenFrames
    <3>6. \A f \in Engines : HasData(f)' => probeCache'[f].data.status \in answered'[f]
      BY <3>1, <3>4 DEF StatusesWereFound, HasData
    <3>7. ASSUME NEW d \in Callers, call'[d].pc = "probed", call'[d].gen = probeGen'
          PROVE  call'[d].data.status \in answered'[call'[d].engine]
      <4>1. CASE d = c
        BY <3>1, <3>3, <3>4, <3>7, <4>1
      <4>2. CASE d # c
        BY <3>1, <3>3, <3>4, <3>5, <3>7, <4>2 DEF StatusesWereFound
      <4> QED
        BY <4>1, <4>2
    <3> QED
      BY <3>6, <3>7 DEF StatusesWereFound
  <2>4. CASE StoreProbe(c)
    <3> DEFINE e == call[c].engine
    <3>1. call[c] \in OpenFrames /\ call[c].pc = "probed" /\ e \in Engines
          /\ UNCHANGED <<answered, probeGen>>
      BY <2>4, <1>s DEF StoreProbe, OpenFrames, history
    <3>2. call'[c].pc = "stored" /\ \A d \in Callers \ {c} : call'[d] = call[d]
      BY <2>4, <3>1, <1>t DEF StoreProbe, OpenFrames, TypeOK
    <3>3. \A f \in Engines :
            \/ probeCache'[f] = probeCache[f]
            \/ f = e /\ call[c].gen = probeGen /\ probeCache'[f].data = call[c].data
      BY <2>4, <3>1, <1>t DEF StoreProbe, TypeOK
    <3>4. \A f \in Engines : HasData(f)' => probeCache'[f].data.status \in answered[f]
      BY <3>1, <3>3 DEF StatusesWereFound, HasData
    <3> QED
      BY <3>1, <3>2, <3>4 DEF StatusesWereFound
  <2>5. CASE ProbePanics(c)
    <3>1. call[c] \in OpenFrames /\ UNCHANGED <<answered, probeGen>>
      BY <2>5, <1>s DEF ProbePanics, history
    <3>2. call'[c].pc = "panicked" /\ \A d \in Callers \ {c} : call'[d] = call[d]
      BY <2>5, <3>1, <1>t DEF ProbePanics, TypeOK, OpenFrames
    <3>3. \A f \in Engines : probeCache'[f] = probeCache[f] \/ ~HasData(f)'
      BY <2>5, <1>t DEF ProbePanics, TypeOK, HasData, NoEntry
    <3> QED
      BY <1>1, <3>1, <3>2, <3>3 DEF HasData
  <2>6. CASE CloseDone(c)
    <3>1. UNCHANGED <<answered, probeGen, probeCache>> /\ call'[c].pc # "probed"
      BY <2>6 DEF CloseDone, Woken, Returned, NoCall, history
    <3>2. ASSUME NEW d \in Callers \ {c} PROVE call'[d] = call[d] \/ call'[d].pc = "lookup"
      <4>1. call'[d] = Woken(c)[d]
        BY <2>6 DEF CloseDone, Woken
      <4>2. call[d].pc = "wait" => call[d] \in OpenFrames
        BY <1>s
      <4> QED
        BY <4>1, <4>2 DEF Woken, OpenFrames
    <3> QED
      BY <1>1, <3>1, <3>2 DEF HasData
  <2> QED
    BY <1>6, <2>1, <2>2, <2>3, <2>4, <2>5, <2>6 DEF Proceed, lookup
<1>7. CASE UNCHANGED vars
  BY <1>1, <1>7 DEF vars, history, HasData
<1> QED
  BY <1>2, <1>3, <1>4, <1>5, <1>6, <1>7 DEF Next

\* While an entry is marked somebody refreshes it, and nobody else does.
LEMMA RefreshedIfMarked ==
  ASSUME CacheInv, NEW e \in Engines
  PROVE  Marked(e) <=> BeingRefreshed(e)
<1>1. Marked(e) => BeingRefreshed(e)
  <2>1. Marked(e) => probeCache[e].inflight \in Callers
    BY DEF CacheInv, TypeOK, Entries, Marked
  <2> QED
    BY <2>1 DEF CacheInv, MarkersAreLive, BeingRefreshed
<1>2. BeingRefreshed(e) => Marked(e)
  BY NoChannelIsNil DEF BeingRefreshed, CacheInv, CurrentRefreshIsMarked, Marked
<1> QED
  BY <1>1, <1>2

\* What the pages are shown without waiting comes from a probe that has finished
\* since the last invalidation, and a page that is not asked to refresh has fresh
\* data or a refresh under way: the marker tells which (engine.go:772-783, 827-844).
THEOREM PeeksMeaningful == Spec => []PeeksAreMeaningful
<1>1. CacheInv /\ StatusesWereFound => PeeksAreMeaningful
  <2> SUFFICES ASSUME CacheInv, StatusesWereFound, NEW e \in Engines
               PROVE  /\ peekProbeState(e).state = "online" => TRUE \in answered[e]
                      /\ peekProbeState(e).state = "offline" => FALSE \in answered[e]
                      /\ peekProbeData(e).found <=> peekProbeState(e).state # "unknown"
                      /\ peekProbeData(e).found =>
                           (peekProbeData(e).data.status <=> peekProbeState(e).state = "online")
                      /\ AtLeast(peekProbeData(e).data, floor[e])
                      /\ peekProbeState(e).stale <=> peekProbeData(e).stale
                      /\ peekProbeState(e).stale <=> ~Fresh(e) /\ ~BeingRefreshed(e)
    BY DEF PeeksAreMeaningful
  <2>1. HasData(e) => /\ probeCache[e].data.status \in BOOLEAN
                      /\ probeCache[e].data.status \in answered[e]
                      /\ AtLeast(probeCache[e].data, floor[e])
    BY DEF CacheInv, TypeOK, Entries, ProbeData, StatusesWereFound, InvalidationSticks
  <2>2. AtLeast(Down, floor[e])
    BY DEF AtLeast, Down
  <2>3. Marked(e) <=> BeingRefreshed(e)
    BY RefreshedIfMarked
  <2>4. peekProbeState(e).stale = NeedsRefresh(e) /\ peekProbeData(e).stale = NeedsRefresh(e)
    BY DEF peekProbeState, peekProbeData
  <2>5. peekProbeData(e).found = HasData(e)
        /\ peekProbeData(e).data = IF HasData(e) THEN probeCache[e].data ELSE Down
    BY DEF peekProbeData
  <2>6. peekProbeState(e).state = IF ~HasData(e) THEN "unknown"
             ELSE IF probeCache[e].data.status THEN "online" ELSE "offline"
    BY DEF peekProbeState
  <2>7. /\ peekProbeState(e).state = "online" => TRUE \in answered[e]
        /\ peekProbeState(e).state = "offline" => FALSE \in answered[e]
    BY <2>1, <2>6
  <2>8. peekProbeData(e).found <=> peekProbeState(e).state # "unknown"
    BY <2>5, <2>6
  <2>9. peekProbeData(e).found =>
          (peekProbeData(e).data.status <=> peekProbeState(e).state = "online")
    BY <2>1, <2>5, <2>6
  <2>10. AtLeast(peekProbeData(e).data, floor[e])
    BY <2>1, <2>2, <2>5
  <2> QED
    BY <2>3, <2>4, <2>7, <2>8, <2>9, <2>10 DEF NeedsRefresh
<1>2. Init => StatusesWereFound
  BY DEF Init, StatusesWereFound, HasData, NoEntry, NoCall
<1>3. CacheInv /\ CacheInv' /\ StatusesWereFound /\ [Next]_vars => StatusesWereFound'
  BY FoundStep
<1> QED
  BY <1>1, <1>2, <1>3, CacheInvariant, PTL DEF Spec

-----------------------------------------------------------------------------
(* The cache implements ProbeService.                                      *)

\* data is what a probe of e through adapter a may have read until now.
ReadThrough(e, a, data) ==
  \/ data \in {Down, Unlisted}
  \/ \E v \in 0..MaxVersion : data = Listed(a, v) /\ v <= upstream[e][a]

\* ... through an adapter that is not too old to be heard of.
WasRead(e, data) ==
  \E a \in Adapters : oldest[e] <= a /\ a <= adapter[e] /\ ReadThrough(e, a, data)

\* A refresh holds what it read through its own adapter, the map holds what was
\* read through one that somebody has held since the last invalidation.
AllWasRead ==
  /\ \A e \in Engines, a \in Adapters : upstream[e][a] <= MaxVersion
  /\ \A e \in Engines : HasData(e) => WasRead(e, probeCache[e].data)
  /\ \A c \in Callers : call[c].pc \in {"probed", "stored"} =>
       ReadThrough(call[c].engine, call[c].via, call[c].data)
  /\ OldestIsHeld

\* What was read stays read: versions only grow, and adapters get newer.
LEMMA ReadThroughGrows ==
  ASSUME TypeOK, TypeOK', NEW e \in Engines, NEW a \in Adapters, NEW data,
         ReadThrough(e, a, data), upstream[e][a] <= upstream'[e][a]
  PROVE  ReadThrough(e, a, data)'
<1>1. \A v \in 0..MaxVersion : v <= upstream[e][a] => v <= upstream'[e][a]
  BY DEF TypeOK, Lists
<1> QED
  BY <1>1 DEF ReadThrough

LEMMA WasReadGrows ==
  ASSUME TypeOK, TypeOK', NEW e \in Engines, NEW data, WasRead(e, data),
         \A a \in Adapters : upstream[e][a] <= upstream'[e][a],
         oldest'[e] <= oldest[e], adapter[e] <= adapter'[e]
  PROVE  WasRead(e, data)'
<1>1. PICK a \in Adapters : oldest[e] <= a /\ a <= adapter[e] /\ ReadThrough(e, a, data)
  BY DEF WasRead
<1>2. ReadThrough(e, a, data)'
  BY <1>1, ReadThroughGrows
<1>3. oldest'[e] <= a /\ a <= adapter'[e]
  BY <1>1 DEF TypeOK, Adapters
<1> QED
  BY <1>2, <1>3 DEF WasRead

\* While the lists and adapters stand still, what was read stays read.
LEMMA SameReads ==
  ASSUME TypeOK, UNCHANGED <<adapter, upstream, oldest>>, NEW e \in Engines, NEW data
  PROVE  /\ WasRead(e, data)' = WasRead(e, data)
         /\ \A a \in Adapters : ReadThrough(e, a, data)' = ReadThrough(e, a, data)
  BY DEF WasRead, ReadThrough

LEMMA ReadInit == Init => AllWasRead
  BY CacheBounds DEF Init, AllWasRead, OldestIsHeld, Open, HasData, NoEntry, NoCall

\* A goroutine's own step opens no question and keeps those that stay open.
LEMMA OpenStays ==
  ASSUME TypeOK, NEW c \in Callers, Proceed(c)
  PROVE  /\ UNCHANGED <<adapter, upstream, floor, oldest>>
         /\ \A e \in Engines : Open(e)' \subseteq Open(e)
         /\ \A e \in Engines : \A d \in Open(e)' : call'[d].via = call[d].via
<1>s. \A d \in Callers :
        call[d].pc \notin {"idle", "done"} => call[d] \in OpenFrames
  BY FrameShape DEF TypeOK
<1>a. UNCHANGED <<adapter, upstream, floor, oldest>>
  BY DEF Proceed, lookup, WaitForRefresh, ServeCached, ClaimRefresh, ProbeUpstream,
         StoreProbe, ProbePanics, CloseDone, EndCall, history
<1> DEFINE Opened(d) == call'[d].pc \in {"lookup", "wait", "probe", "probed", "stored"}
<1>1. ASSUME NEW d \in Callers, Opened(d)
      PROVE  /\ call[d].pc \in {"lookup", "wait", "probe", "probed", "stored"}
             /\ call'[d].engine = call[d].engine /\ call'[d].via = call[d].via
  <2>1. CASE WaitForRefresh(c)
    <3>1. call[c] \in OpenFrames /\ call[c].pc = "lookup"
      BY <1>s, <2>1 DEF WaitForRefresh
    <3> QED
      BY <1>1, <2>1, <3>1 DEF WaitForRefresh, TypeOK, OpenFrames
  <2>2. CASE ServeCached(c) \/ EndCall(c)
    BY <1>1, <2>2 DEF ServeCached, EndCall, Returned, NoCall, TypeOK
  <2>3. CASE ClaimRefresh(c)
    <3>1. call[c] \in OpenFrames /\ call[c].pc = "lookup"
      BY <1>s, <2>3 DEF ClaimRefresh
    <3> QED
      BY <1>1, <2>3, <3>1 DEF ClaimRefresh, TypeOK, OpenFrames
  <2>4. CASE ProbeUpstream(c)
    <3>1. call[c] \in OpenFrames /\ call[c].pc = "probe"
      BY <1>s, <2>4 DEF ProbeUpstream
    <3> QED
      BY <1>1, <2>4, <3>1 DEF ProbeUpstream, TypeOK, OpenFrames
  <2>5. CASE StoreProbe(c)
    <3>1. call[c] \in OpenFrames /\ call[c].pc = "probed"
      BY <1>s, <2>5 DEF StoreProbe
    <3> QED
      BY <1>1, <2>5, <3>1 DEF StoreProbe, TypeOK, OpenFrames
  <2>6. CASE ProbePanics(c)
    <3>1. call[c] \in OpenFrames /\ call[c].pc = "probe"
      BY <1>s, <2>6 DEF ProbePanics
    <3> QED
      BY <1>1, <2>6, <3>1 DEF ProbePanics, TypeOK, OpenFrames
  <2>7. CASE CloseDone(c)
    <3>1. CASE d = c
      BY <1>1, <2>7, <3>1 DEF CloseDone, Woken, Returned, NoCall
    <3>2. CASE d # c
      <4>1. call'[d] = Woken(c)[d]
        BY <2>7, <3>2 DEF CloseDone, Woken
      <4>2. call[d].pc = "wait" => call[d] \in OpenFrames
        BY <1>s
      <4> QED
        BY <1>1, <4>1, <4>2 DEF Woken, OpenFrames
    <3> QED
      BY <3>1, <3>2
  <2> QED
    BY <2>1, <2>2, <2>3, <2>4, <2>5, <2>6, <2>7 DEF Proceed, lookup
<1> QED
  BY <1>a, <1>1 DEF Open

\* Nobody holds an adapter older than oldest: an invalidation moves it no
\* further than the adapters that are still held.
LEMMA HeldStep == TypeOK /\ TypeOK' /\ OldestIsHeld /\ [Next]_vars => OldestIsHeld'
<1> SUFFICES ASSUME TypeOK, TypeOK', OldestIsHeld, [Next]_vars PROVE OldestIsHeld'
  OBVIOUS
<1>o. \A e \in Engines : \A c \in Open(e) : call[c].via \in Adapters
  BY FrameShape DEF TypeOK, Open, OpenFrames
<1>1. ASSUME UNCHANGED <<adapter, oldest>>,
             \A e \in Engines : Open(e)' \subseteq Open(e),
             \A e \in Engines : \A d \in Open(e)' : call'[d].via = call[d].via
      PROVE  OldestIsHeld'
  BY <1>1 DEF OldestIsHeld
<1>2. ASSUME NEW e \in Engines, ReplaceAdapter(e) PROVE OldestIsHeld'
  <2>1. UNCHANGED <<oldest, call>>
    BY <1>2 DEF ReplaceAdapter, history
  <2>2. \A f \in Engines : adapter[f] <= adapter'[f]
    BY <1>2 DEF ReplaceAdapter, TypeOK, Adapters
  <2>3. \A f \in Engines : Open(f)' = Open(f)
    BY <2>1 DEF Open
  <2> QED
    BY <1>o, <2>1, <2>2, <2>3 DEF OldestIsHeld, TypeOK, Adapters
<1>3. ASSUME NEW e \in Engines, Expire(e) \/ \E a \in Adapters : ChangeList(e, a)
      PROVE  OldestIsHeld'
  BY <1>1, <1>3 DEF Expire, ChangeList, history, Open
<1>4. CASE invalidateProbeCache
  <2>1. UNCHANGED <<adapter, call>> /\ oldest' = [e \in Engines |-> Min(Held(e))]
    BY <1>4 DEF invalidateProbeCache, NoteInvalidation
  <2>2. \A e \in Engines : Open(e)' = Open(e)
    BY <2>1 DEF Open
  <2>3. \A e \in Engines : \A b \in Held(e) : oldest'[e] <= b
    BY <2>1, HeldFacts
  <2> QED
    BY <2>1, <2>2, <2>3 DEF Held, OldestIsHeld
<1>5. ASSUME NEW c \in Callers, NEW e \in Engines, StartCall(c, e) PROVE OldestIsHeld'
  <2>1. /\ UNCHANGED <<adapter, oldest>>
        /\ call'[c] = Begun(e) /\ \A d \in Callers \ {c} : call'[d] = call[d]
    BY <1>5 DEF StartCall, history, TypeOK
  <2>2. \A f \in Engines : \A d \in Open(f)' : d # c => d \in Open(f)
    BY <2>1 DEF Open
  <2>3. \A f \in Engines : c \in Open(f)' => f = e
    BY <2>1 DEF Open, Begun
  <2>4. call'[c].via = adapter[e] /\ oldest[e] <= adapter[e] /\ adapter[e] <= adapter[e]
    BY <2>1 DEF Begun, OldestIsHeld, TypeOK, Adapters
  <2>5. \A f \in Engines : \A d \in Open(f)' :
          oldest[f] <= call'[d].via /\ call'[d].via <= adapter[f]
    <3>1. ASSUME NEW f \in Engines, NEW d \in Open(f)', d # c
          PROVE  oldest[f] <= call'[d].via /\ call'[d].via <= adapter[f]
      <4>1. d \in Open(f) /\ d \in Callers
        BY <2>2, <3>1 DEF Open
      <4> QED
        BY <2>1, <3>1, <4>1 DEF OldestIsHeld
    <3> QED
      BY <2>3, <2>4, <3>1
  <2> QED
    BY <2>1, <2>5 DEF OldestIsHeld
<1>6. ASSUME NEW c \in Callers, Proceed(c) PROVE OldestIsHeld'
  BY <1>1, <1>6, OpenStays
<1>7. CASE UNCHANGED vars
  BY <1>1, <1>7 DEF vars, history, Open
<1> QED
  BY <1>2, <1>3, <1>4, <1>5, <1>6, <1>7 DEF Next

\* Only a probe reads; every other step passes on what was read.
LEMMA ReadStep == CacheInv /\ CacheInv' /\ AllWasRead /\ [Next]_vars => AllWasRead'
<1> SUFFICES ASSUME CacheInv, CacheInv', AllWasRead, [Next]_vars PROVE AllWasRead'
  OBVIOUS
<1>t. TypeOK /\ TypeOK'
  BY DEF CacheInv
<1>s. \A c \in Callers : call[c].pc \notin {"idle", "done"} => call[c] \in OpenFrames
  BY <1>t, FrameShape DEF TypeOK
<1>h. OldestIsHeld'
  BY <1>t, HeldStep DEF AllWasRead
<1>e. \A c \in Callers : call[c].pc \in {"probed", "stored"} =>
        call[c].engine \in Engines /\ call[c].via \in Adapters
  BY <1>s DEF OpenFrames
<1>u. \A e \in Engines, a \in Adapters : upstream[e][a] <= upstream[e][a]
  BY <1>t DEF TypeOK, Lists
<1>a. \A e \in Engines : oldest[e] <= oldest[e] /\ adapter[e] <= adapter[e]
  BY <1>t DEF TypeOK, Adapters
<1>1. ASSUME NEW e \in Engines, NEW a \in Adapters, ChangeList(e, a) PROVE AllWasRead'
  <2>1. UNCHANGED <<adapter, oldest, probeCache, call>>
    BY <1>1 DEF ChangeList, history
  <2>2. \A f \in Engines, b \in Adapters :
          upstream[f][b] <= upstream'[f][b] /\ upstream'[f][b] <= MaxVersion
    BY <1>1, <1>t, CacheBounds DEF ChangeList, TypeOK, Lists, AllWasRead
  <2>3. ASSUME NEW f \in Engines, NEW data, WasRead(f, data) PROVE WasRead(f, data)'
    BY <1>t, <1>a, <2>1, <2>2, <2>3, WasReadGrows
  <2>4. ASSUME NEW f \in Engines, NEW b \in Adapters, NEW data, ReadThrough(f, b, data)
        PROVE  ReadThrough(f, b, data)'
    BY <1>t, <2>2, <2>4, ReadThroughGrows
  <2>5. \A f \in Engines : HasData(f)' => WasRead(f, probeCache[f].data)'
    BY <2>1, <2>3 DEF AllWasRead, HasData
  <2>6. \A c \in Callers : call[c].pc \in {"probed", "stored"} =>
          ReadThrough(call[c].engine, call[c].via, call[c].data)'
    BY <1>e, <2>1, <2>4 DEF AllWasRead
  <2> QED
    BY <1>h, <2>1, <2>2, <2>5, <2>6 DEF AllWasRead, WasRead, ReadThrough
<1>2. ASSUME UNCHANGED <<adapter, upstream, oldest>>,
             \A e \in Engines : HasData(e)' =>
               \/ HasData(e) /\ probeCache'[e].data = probeCache[e].data
               \/ WasRead(e, probeCache'[e].data),
             \A c \in Callers : call'[c].pc \in {"probed", "stored"} =>
               \/ /\ call[c].pc \in {"probed", "stored"}
                  /\ call'[c].data = call[c].data /\ call'[c].engine = call[c].engine
                  /\ call'[c].via = call[c].via
               \/ ReadThrough(call'[c].engine, call'[c].via, call'[c].data)
      PROVE  AllWasRead'
  <2>1. \A e \in Engines : HasData(e)' => WasRead(e, probeCache'[e].data)
    BY <1>2 DEF AllWasRead
  <2>2. \A c \in Callers : call'[c].pc \in {"probed", "stored"} =>
          ReadThrough(call'[c].engine, call'[c].via, call'[c].data)
    BY <1>2 DEF AllWasRead
  <2> QED
    BY <1>2, <1>h, <2>1, <2>2 DEF AllWasRead, WasRead, ReadThrough
<1>3. ASSUME NEW e \in Engines, Expire(e) PROVE AllWasRead'
  <2>1. UNCHANGED <<adapter, upstream, oldest, call>>
    BY <1>3 DEF Expire, history
  <2>2. \A f \in Engines : HasData(f)' => HasData(f) /\ probeCache'[f].data = probeCache[f].data
    BY <1>3, <1>t DEF Expire, TypeOK, Entries, HasData, Fresh
  <2> QED
    BY <1>2, <2>1, <2>2
<1>r. ASSUME NEW e \in Engines, ReplaceAdapter(e) PROVE AllWasRead'
  <2>1. UNCHANGED <<upstream, oldest, probeCache, call>>
    BY <1>r DEF ReplaceAdapter, history
  <2>2. \A f \in Engines : adapter[f] <= adapter'[f]
    BY <1>r, <1>t DEF ReplaceAdapter, TypeOK, Adapters
  <2>3. ASSUME NEW f \in Engines, HasData(f) PROVE WasRead(f, probeCache[f].data)'
    <3>1. WasRead(f, probeCache[f].data)
      BY <2>3 DEF AllWasRead
    <3>2. /\ \A a \in Adapters : upstream[f][a] <= upstream'[f][a]
          /\ oldest'[f] <= oldest[f] /\ adapter[f] <= adapter'[f]
      BY <1>u, <1>a, <2>1, <2>2
    <3>3. \A data : WasRead(f, data) => WasRead(f, data)'
      BY <1>t, <3>2, WasReadGrows
    <3> QED
      BY <2>1, <3>1, <3>3
  <2>4. \A c \in Callers : call[c].pc \in {"probed", "stored"} =>
          ReadThrough(call[c].engine, call[c].via, call[c].data)'
    BY <2>1 DEF AllWasRead, ReadThrough
  <2> QED
    BY <1>h, <2>1, <2>3, <2>4 DEF AllWasRead, HasData, ReadThrough, WasRead
<1>4. CASE invalidateProbeCache
  <2>1. UNCHANGED <<upstream, call>> /\ \A e \in Engines : ~HasData(e)'
    BY <1>4 DEF invalidateProbeCache, HasData, NoEntry
  <2> QED
    BY <1>h, <2>1 DEF AllWasRead, ReadThrough
<1>5. ASSUME NEW c \in Callers, NEW e \in Engines, StartCall(c, e) PROVE AllWasRead'
  <2>1. UNCHANGED <<adapter, upstream, oldest, probeCache>> /\ call'[c].pc = "lookup"
        /\ \A d \in Callers \ {c} : call'[d] = call[d]
    BY <1>5, <1>t DEF StartCall, history, Begun, TypeOK
  <2> QED
    BY <1>2, <2>1 DEF HasData
<1>6. ASSUME NEW c \in Callers, Proceed(c) PROVE AllWasRead'
  <2>a. UNCHANGED <<adapter, upstream, oldest>>
    BY <1>6, <1>t, OpenStays
  <2>1. CASE WaitForRefresh(c) \/ ServeCached(c) \/ EndCall(c)
    <3>1. UNCHANGED probeCache /\ call'[c].pc \notin {"probed", "stored"}
          /\ \A d \in Callers \ {c} : call'[d] = call[d]
      <4>1. CASE WaitForRefresh(c)
        <5>1. call[c] \in OpenFrames
          BY <4>1, <1>s DEF WaitForRefresh
        <5> QED
          BY <4>1, <5>1, <1>t DEF WaitForRefresh, TypeOK, OpenFrames
      <4>2. CASE ServeCached(c) \/ EndCall(c)
        BY <4>2, <1>t DEF ServeCached, EndCall, Returned, NoCall, TypeOK
      <4> QED
        BY <2>1, <4>1, <4>2
    <3> QED
      BY <1>2, <2>a, <3>1 DEF HasData
  <2>2. CASE ClaimRefresh(c)
    <3> DEFINE e == call[c].engine
    <3>1. call[c] \in OpenFrames
      BY <2>2, <1>s DEF ClaimRefresh
    <3>2. e \in Engines
      BY <3>1 DEF OpenFrames
    <3>3. call'[c].pc = "probe" /\ \A d \in Callers \ {c} : call'[d] = call[d]
      BY <2>2, <3>1, <1>t DEF ClaimRefresh, TypeOK, OpenFrames
    <3>4. \A f \in Engines : HasData(f)' => HasData(f) /\ probeCache'[f].data = probeCache[f].data
      BY <2>2, <3>2, <1>t DEF ClaimRefresh, TypeOK, Entries, HasData, Present
    <3> QED
      BY <1>2, <2>a, <3>3, <3>4
  <2>3. CASE ProbeUpstream(c)
    <3> DEFINE e == call[c].engine
               a == call[c].via
    <3>1. call[c] \in OpenFrames /\ UNCHANGED probeCache
      BY <2>3, <1>s DEF ProbeUpstream
    <3>2. e \in Engines /\ a \in Adapters /\ upstream[e][a] \in 0..MaxVersion
      BY <3>1, <1>t, CacheBounds DEF OpenFrames, TypeOK, Lists, AllWasRead
    <3>3. PICK data \in {Down, Unlisted, Listed(a, upstream[e][a])} :
            call' = [call EXCEPT ![c].pc = "probed", ![c].data = data]
      BY <2>3 DEF ProbeUpstream
    <3>4. /\ call'[c].engine = e /\ call'[c].via = a /\ call'[c].data = data
          /\ \A d \in Callers \ {c} : call'[d] = call[d]
      BY <3>1, <3>3, <1>t DEF OpenFrames, TypeOK
    <3>5. ReadThrough(e, a, data)
      BY <3>2, <3>3, <1>u DEF ReadThrough
    <3> QED
      BY <1>2, <2>a, <3>1, <3>4, <3>5 DEF HasData
  <2>4. CASE StoreProbe(c)
    <3> DEFINE e == call[c].engine
    <3>1. call[c] \in OpenFrames /\ call[c].pc = "probed"
      BY <2>4, <1>s DEF StoreProbe
    <3>2. e \in Engines /\ WasRead(e, call[c].data)
      <4>1. e \in Engines /\ call[c].via \in Adapters /\ c \in Open(e)
        BY <3>1 DEF OpenFrames, Open
      <4>2. ReadThrough(e, call[c].via, call[c].data)
        BY <3>1 DEF AllWasRead
      <4>3. oldest[e] <= call[c].via /\ call[c].via <= adapter[e]
        BY <4>1 DEF AllWasRead, OldestIsHeld
      <4> QED
        BY <4>1, <4>2, <4>3 DEF WasRead
    <3>3. /\ call'[c].engine = e /\ call'[c].data = call[c].data /\ call'[c].via = call[c].via
          /\ \A d \in Callers \ {c} : call'[d] = call[d]
      BY <2>4, <3>1, <1>t DEF StoreProbe, OpenFrames, TypeOK
    <3>4. \A f \in Engines :
            \/ probeCache'[f] = probeCache[f]
            \/ f = e /\ probeCache'[f].data = call[c].data
      BY <2>4, <3>2, <1>t DEF StoreProbe, TypeOK
    <3> QED
      BY <1>2, <2>a, <3>1, <3>2, <3>3, <3>4 DEF HasData
  <2>5. CASE ProbePanics(c)
    <3>1. call[c] \in OpenFrames
      BY <2>5, <1>s DEF ProbePanics
    <3>2. call'[c].pc = "panicked" /\ \A d \in Callers \ {c} : call'[d] = call[d]
      BY <2>5, <3>1, <1>t DEF ProbePanics, TypeOK, OpenFrames
    <3>3. \A f \in Engines : probeCache'[f] = probeCache[f] \/ ~HasData(f)'
      BY <2>5, <1>t DEF ProbePanics, TypeOK, HasData, NoEntry
    <3> QED
      BY <1>2, <2>a, <3>2, <3>3 DEF HasData
  <2>6. CASE CloseDone(c)
    <3>1. UNCHANGED probeCache /\ call'[c].pc \notin {"probed", "stored"}
      BY <2>6 DEF CloseDone, Woken, Returned, NoCall
    <3>2. ASSUME NEW d \in Callers \ {c} PROVE call'[d] = call[d] \/ call'[d].pc = "lookup"
      <4>1. call'[d] = Woken(c)[d]
        BY <2>6 DEF CloseDone, Woken
      <4>2. call[d].pc = "wait" => call[d] \in OpenFrames
        BY <1>s
      <4> QED
        BY <4>1, <4>2 DEF Woken, OpenFrames
    <3> QED
      BY <1>2, <2>a, <3>1, <3>2 DEF HasData
  <2> QED
    BY <1>6, <2>1, <2>2, <2>3, <2>4, <2>5, <2>6 DEF Proceed, lookup
<1>7. CASE UNCHANGED vars
  BY <1>2, <1>7 DEF vars, history, HasData
<1> QED
  BY <1>1, <1>3, <1>r, <1>4, <1>5, <1>6, <1>7 DEF Next

\* What the caller's frame f says of its question.
AskOf(f) ==
  IF f = NoCall \/ f.pc = "panicked" THEN Service!Idle
  ELSE IF f.pc = "done" THEN Service!Told(f.engine, f.since, f.data)
  ELSE Service!Pending(f.engine, f.via, f.since)

Ask == [c \in Callers |-> Asked(c)]

LEMMA AskFrames ==
  /\ Ask = [c \in Callers |-> AskOf(call[c])]
  /\ Ask' = [c \in Callers |-> AskOf(call'[c])]
  BY DEF Ask, Asked, AskOf, Service!Idle, Service!Told, Service!Pending

LEMMA AskCases ==
  ASSUME NEW f \in Frames
  PROVE  /\ f.pc \in {"idle", "panicked"} => AskOf(f) = Service!Idle
         /\ f.pc = "done" => AskOf(f) = Service!Told(f.engine, f.since, f.data)
         /\ f.pc \notin {"idle", "panicked", "done"} => AskOf(f) = Service!Pending(f.engine, f.via, f.since)
<1>1. f.pc = "idle" => f = NoCall
  BY FrameShape
<1>2. NoCall.pc = "idle"
  BY DEF NoCall
<1> QED
  BY <1>1, <1>2 DEF AskOf

\* One caller's question changes to q.
LEMMA OneAsk ==
  ASSUME TypeOK, NEW c \in Callers, NEW q, AskOf(call'[c]) = q,
         \A d \in Callers \ {c} : AskOf(call'[d]) = AskOf(call[d])
  PROVE  Ask' = [Ask EXCEPT ![c] = q]
  BY AskFrames

LEMMA SameAsk ==
  ASSUME \A d \in Callers : AskOf(call'[d]) = AskOf(call[d])
  PROVE  Ask' = Ask
  BY AskFrames

\* Data that was read and is recent enough is one of the answers promised.
LEMMA ReadIsAnAnswer ==
  ASSUME TypeOK, NEW e \in Engines, NEW since \in Lists, NEW data \in ProbeData,
         WasRead(e, data), AtLeast(data, since)
  PROVE  data \in Service!Answers(e, since)
<1>1. CASE data \in {Down, Unlisted}
  BY <1>1 DEF Service!Answers, Service!Down, Service!Unlisted, Down, Unlisted
<1>2. ASSUME NEW a \in Adapters, oldest[e] <= a, a <= adapter[e],
             NEW v \in 0..MaxVersion, data = Listed(a, v), v <= upstream[e][a]
      PROVE  data \in Service!Answers(e, since)
  <2> DEFINE s == [via |-> a, version |-> v]
  <2>1. s \in data.seen
    BY <1>2 DEF Listed
  <2>2. since[a] <= v
    BY <2>1 DEF AtLeast
  <2>3. s \in [via : oldest[e] .. adapter[e], version : 0..MaxVersion] /\ s.via = a /\ s.version = v
    BY <1>2 DEF TypeOK, Adapters
  <2>4. data = Service!Listed(s.via, s.version)
    BY <1>2 DEF Listed, Service!Listed
  <2> HIDE DEF s
  <2> QED
    BY <1>2, <2>2, <2>3, <2>4 DEF Service!Answers
<1> QED
  BY <1>1, <1>2 DEF WasRead, ReadThrough

\* Every step of the cache is one step of the service, or none that it shows.
LEMMA ServiceStep ==
  CacheInv /\ CacheInv' /\ AllWasRead /\ [Next]_vars => [Service!ServiceNext]_Service!serviceVars
<1> SUFFICES ASSUME CacheInv, CacheInv', AllWasRead, [Next]_vars
             PROVE  Service!ServiceNext \/ UNCHANGED <<adapter, upstream, floor, oldest, Ask>>
  BY DEF Service!serviceVars, Ask
<1> USE DEF history
<1>t. TypeOK /\ TypeOK'
  BY DEF CacheInv
<1>s. \A c \in Callers :
        /\ call[c] \in Frames /\ call'[c] \in Frames
        /\ call[c].pc = "done" => call[c] \in DoneFrames
        /\ call[c].pc \notin {"idle", "done"} => call[c] \in OpenFrames
  BY <1>t, FrameShape DEF TypeOK
<1>c. \A c \in Callers : Ask[c] = AskOf(call[c])
  BY AskFrames
<1>1. ASSUME NEW e \in Engines, NEW a \in Adapters, ChangeList(e, a) PROVE Service!ServiceNext
  <2>1. Ask' = Ask
    BY <1>1, SameAsk DEF ChangeList
  <2>2. Service!ChangeList(e, a) /\ a \in Service!Adapters
    BY <1>1, <2>1 DEF ChangeList, Service!ChangeList, Ask, Service!Adapters, Adapters
  <2> QED
    BY <2>2 DEF Service!ServiceNext
<1>2. ASSUME NEW e \in Engines, ReplaceAdapter(e) PROVE Service!ServiceNext
  <2>1. Ask' = Ask
    BY <1>2, SameAsk DEF ReplaceAdapter
  <2>2. Service!ReplaceAdapter(e)
    BY <1>2, <2>1 DEF ReplaceAdapter, Service!ReplaceAdapter, Ask
  <2> QED
    BY <2>2 DEF Service!ServiceNext
<1>3. ASSUME NEW e \in Engines, Expire(e) PROVE UNCHANGED <<adapter, upstream, floor, oldest, Ask>>
  BY <1>3, SameAsk DEF Expire
<1>4. CASE invalidateProbeCache
  <2>1. Ask' = Ask
    BY <1>4, SameAsk DEF invalidateProbeCache
  <2>2. floor' = upstream /\ oldest' = [e \in Engines |-> Min(Held(e))]
        /\ UNCHANGED <<adapter, upstream>>
    BY <1>4 DEF invalidateProbeCache, NoteInvalidation
  <2>3. ASSUME NEW e \in Engines PROVE Service!Reaches(e, oldest'[e])
    <3>1. Held(e) = {adapter[e]} \cup Service!InFlight(e)
      <4>1. ASSUME NEW c \in Callers, Ask[c].state = "pending", Ask[c].engine = e
            PROVE  c \in Open(e) /\ Ask[c].via = call[c].via
        <5>1. call[c].pc \notin {"idle", "panicked", "done"}
          BY <1>c, <1>s, <4>1, AskCases DEF Service!Idle, Service!Told
        <5>2. Ask[c] = Service!Pending(call[c].engine, call[c].via, call[c].since)
          BY <1>c, <1>s, <5>1, AskCases
        <5>3. call[c] \in OpenFrames
          BY <1>s, <5>1
        <5> QED
          BY <4>1, <5>1, <5>2, <5>3 DEF Service!Pending, Open, OpenFrames
      <4>2. ASSUME NEW c \in Open(e)
            PROVE  Ask[c].state = "pending" /\ Ask[c].engine = e /\ Ask[c].via = call[c].via
        <5>1. c \in Callers /\ call[c].pc \notin {"idle", "panicked", "done"} /\ call[c].engine = e
          BY <4>2 DEF Open
        <5>2. Ask[c] = Service!Pending(call[c].engine, call[c].via, call[c].since)
          BY <1>c, <1>s, <5>1, AskCases
        <5> QED
          BY <5>1, <5>2 DEF Service!Pending
      <4>3. Open(e) \subseteq Callers
        BY DEF Open
      <4>4. Service!InFlight(e) =
              {Ask[c].via : c \in {d \in Callers : Ask[d].state = "pending" /\ Ask[d].engine = e}}
        BY DEF Service!InFlight, Ask
      <4>5. {d \in Callers : Ask[d].state = "pending" /\ Ask[d].engine = e} = Open(e)
        BY <4>1, <4>2, <4>3
      <4>6. {Ask[c].via : c \in Open(e)} = {call[c].via : c \in Open(e)}
        BY <4>2
      <4> QED
        BY <4>4, <4>5, <4>6 DEF Held
    <3>2. /\ oldest'[e] \in Held(e) /\ \A b \in Held(e) : oldest'[e] <= b
      BY <1>t, <2>2, HeldFacts
    <3>3. oldest[e] <= oldest'[e]
      BY <3>2 DEF Held, AllWasRead, OldestIsHeld
    <3>4. oldest'[e] <= adapter[e]
      BY <3>2 DEF Held
    <3>5. oldest'[e] = adapter[e] \/ oldest'[e] \in Service!InFlight(e)
      BY <3>1, <3>2
    <3> QED
      BY <3>1, <3>2, <3>3, <3>4, <3>5 DEF Service!Reaches
  <2>4. oldest' \in [Engines -> Service!Adapters]
    BY <1>t DEF TypeOK, Service!Adapters, Adapters
  <2>5. Service!InvalidateProbes
    BY <2>1, <2>2, <2>3, <2>4 DEF Service!InvalidateProbes, Ask
  <2> QED
    BY <2>5 DEF Service!ServiceNext
<1>5. ASSUME NEW c \in Callers, NEW e \in Engines, StartCall(c, e) PROVE Service!ServiceNext
  <2>1. /\ UNCHANGED <<adapter, upstream, floor, oldest>> /\ call[c].pc = "idle"
        /\ call'[c] = Begun(e) /\ \A d \in Callers \ {c} : call'[d] = call[d]
    BY <1>5, <1>t DEF StartCall, NoCall, TypeOK
  <2>2. call'[c].pc = "lookup" /\ call'[c].engine = e /\ call'[c].since = floor[e]
        /\ call'[c].via = adapter[e]
    BY <2>1 DEF Begun
  <2>3. AskOf(call'[c]) = Service!Pending(e, adapter[e], floor[e])
    BY <1>s, <2>2, AskCases
  <2>4. Ask' = [Ask EXCEPT ![c] = Service!Pending(e, adapter[e], floor[e])]
    BY <1>t, <2>1, <2>3, OneAsk
  <2>5. Ask[c] = Service!Idle
    BY <1>c, <1>s, <2>1, AskCases
  <2>6. Service!Ask(c, e)
    BY <2>1, <2>4, <2>5 DEF Service!Ask, Ask
  <2> QED
    BY <2>6 DEF Service!ServiceNext
<1>6. ASSUME NEW c \in Callers, NEW e \in Engines, NEW via, NEW since \in Lists, NEW data \in ProbeData,
             UNCHANGED <<adapter, upstream, floor, oldest>>,
             AskOf(call[c]) = Service!Pending(e, via, since),
             AskOf(call'[c]) = Service!Told(e, since, data),
             \A d \in Callers \ {c} : AskOf(call'[d]) = AskOf(call[d]),
             WasRead(e, data), AtLeast(data, since)
      PROVE  Service!ServiceNext
  <2>1. data \in Service!Answers(e, since)
    BY <1>6, <1>t, ReadIsAnAnswer
  <2>2. Ask' = [Ask EXCEPT ![c] = Service!Told(e, since, data)]
    BY <1>6, <1>t, OneAsk
  <2>3. Ask[c].state = "pending" /\ Ask[c].engine = e /\ Ask[c].since = since
    BY <1>6, <1>c DEF Service!Pending
  <2>4. Service!Answer(c)
    BY <1>6, <2>1, <2>2, <2>3 DEF Service!Answer, Ask
  <2> QED
    BY <2>4 DEF Service!ServiceNext
<1>7. ASSUME NEW c \in Callers, UNCHANGED <<adapter, upstream, floor, oldest>>,
             AskOf(call[c]) # Service!Idle, AskOf(call'[c]) = Service!Idle,
             \A d \in Callers \ {c} : AskOf(call'[d]) = AskOf(call[d])
      PROVE  Service!ServiceNext
  <2>1. Ask' = [Ask EXCEPT ![c] = Service!Idle] /\ Ask[c] # Service!Idle
    BY <1>7, <1>c, <1>t, OneAsk
  <2>2. Service!Leave(c)
    BY <1>7, <2>1 DEF Service!Leave, Ask
  <2> QED
    BY <2>2 DEF Service!ServiceNext
<1>8. ASSUME NEW c \in Callers, Proceed(c)
      PROVE  Service!ServiceNext \/ UNCHANGED <<adapter, upstream, floor, oldest, Ask>>
  <2>a. UNCHANGED <<adapter, upstream, floor, oldest>>
    BY <1>8 DEF Proceed, lookup, WaitForRefresh, ServeCached, ClaimRefresh, ProbeUpstream,
         StoreProbe, ProbePanics, CloseDone, EndCall
  <2>o. ASSUME call[c] \in OpenFrames PROVE call[c].engine \in Engines /\ call[c].since \in Lists
    BY <2>o DEF OpenFrames
  <2>1. CASE WaitForRefresh(c) \/ ClaimRefresh(c) \/ ProbeUpstream(c) \/ StoreProbe(c)
    <3>1. call[c] \in OpenFrames /\ call[c].pc \in {"lookup", "probe", "probed"}
      BY <1>s, <2>1 DEF WaitForRefresh, ClaimRefresh, ProbeUpstream, StoreProbe
    <3>2. /\ call'[c].engine = call[c].engine /\ call'[c].since = call[c].since
          /\ call'[c].via = call[c].via
          /\ call'[c].pc \in {"wait", "probe", "probed", "stored"}
          /\ \A d \in Callers \ {c} : call'[d] = call[d]
      <4>1. CASE WaitForRefresh(c)
        BY <3>1, <4>1, <1>t DEF WaitForRefresh, TypeOK, OpenFrames
      <4>2. CASE ClaimRefresh(c)
        BY <3>1, <4>2, <1>t DEF ClaimRefresh, TypeOK, OpenFrames
      <4>3. CASE ProbeUpstream(c)
        BY <3>1, <4>3, <1>t DEF ProbeUpstream, TypeOK, OpenFrames
      <4>4. CASE StoreProbe(c)
        BY <3>1, <4>4, <1>t DEF StoreProbe, TypeOK, OpenFrames
      <4> QED
        BY <2>1, <4>1, <4>2, <4>3, <4>4
    <3>3. AskOf(call'[c]) = AskOf(call[c])
      BY <1>s, <3>1, <3>2, AskCases
    <3> QED
      BY <2>a, <3>2, <3>3, SameAsk
  <2>2. CASE ServeCached(c)
    <3> DEFINE e == call[c].engine
               data == probeCache[e].data
    <3>1. call[c] \in OpenFrames /\ call[c].pc = "lookup" /\ Fresh(e)
      BY <1>s, <2>2 DEF ServeCached
    <3>2. e \in Engines /\ call[c].since \in Lists
      BY <2>o, <3>1
    <3>3. data \in ProbeData /\ WasRead(e, data)
      BY <3>1, <3>2, <1>t DEF TypeOK, Entries, AllWasRead, HasData, Fresh
    <3>4. /\ call'[c].pc = "done" /\ call'[c].engine = e /\ call'[c].since = call[c].since
          /\ call'[c].data = data /\ \A d \in Callers \ {c} : call'[d] = call[d]
      BY <2>2, <1>t DEF ServeCached, Returned, TypeOK
    <3>5. AtLeast(data, call[c].since)
      <4>1. ReadsAreRecent'
        BY DEF CacheInv
      <4>2. AtLeast(call'[c].data, call'[c].since)
        BY <3>4, <4>1 DEF ReadsAreRecent, AtLeast
      <4> QED
        BY <3>4, <4>2
    <3>6. AskOf(call[c]) = Service!Pending(e, call[c].via, call[c].since)
      BY <1>s, <3>1, AskCases
    <3>7. AskOf(call'[c]) = Service!Told(e, call[c].since, data)
      BY <1>s, <3>4, AskCases
    <3> HIDE DEF e, data
    <3> QED
      BY <1>6, <2>a, <3>2, <3>3, <3>4, <3>5, <3>6, <3>7
  <2>3. CASE ProbePanics(c)
    <3>1. call[c] \in OpenFrames /\ call[c].pc = "probe"
      BY <1>s, <2>3 DEF ProbePanics
    <3>2. call'[c].pc = "panicked" /\ \A d \in Callers \ {c} : call'[d] = call[d]
      BY <2>3, <3>1, <1>t DEF ProbePanics, TypeOK, OpenFrames
    <3>3. AskOf(call'[c]) = Service!Idle
      BY <1>s, <3>2, AskCases
    <3>4. AskOf(call[c]) # Service!Idle
      <4>1. AskOf(call[c]) = Service!Pending(call[c].engine, call[c].via, call[c].since)
        BY <1>s, <3>1, AskCases
      <4> QED
        BY <4>1 DEF Service!Pending, Service!Idle
    <3> QED
      BY <1>7, <2>a, <3>2, <3>3, <3>4
  <2>4. CASE CloseDone(c)
    <3>1. call[c] \in OpenFrames /\ call[c].pc \in {"stored", "panicked"}
      BY <1>s, <2>4 DEF CloseDone
    <3>2. call'[c] = IF call[c].pc = "stored" THEN Returned(call[c], call[c].data) ELSE NoCall
      BY <2>4 DEF CloseDone, Woken
    <3>3. ASSUME NEW d \in Callers \ {c} PROVE AskOf(call'[d]) = AskOf(call[d])
      <4>1. call'[d] = Woken(c)[d]
        BY <2>4 DEF CloseDone, Woken
      <4>2. CASE call[d].pc = "wait" /\ call[d].on = c
        <5>1. call[d] \in OpenFrames
          BY <1>s, <4>2
        <5>2. /\ call'[d].pc = "lookup" /\ call'[d].engine = call[d].engine
              /\ call'[d].since = call[d].since /\ call'[d].via = call[d].via
          BY <4>1, <4>2, <5>1 DEF Woken, OpenFrames
        <5> QED
          BY <1>s, <4>2, <5>2, AskCases
      <4>3. CASE ~(call[d].pc = "wait" /\ call[d].on = c)
        BY <4>1, <4>3 DEF Woken
      <4> QED
        BY <4>2, <4>3
    <3>4. CASE call[c].pc = "panicked"
      <4>1. call'[c].pc = "idle"
        BY <3>2, <3>4 DEF NoCall
      <4>2. AskOf(call'[c]) = AskOf(call[c])
        BY <1>s, <3>4, <4>1, AskCases
      <4> QED
        BY <2>a, <3>3, <4>2, SameAsk
    <3>5. CASE call[c].pc = "stored"
      <4> DEFINE e == call[c].engine
                 data == call[c].data
      <4>1. e \in Engines /\ call[c].since \in Lists
        BY <2>o, <3>1
      <4>2. data \in ProbeData /\ AtLeast(data, call[c].since)
        BY <3>1, <3>5 DEF OpenFrames, CacheInv, ReadsAreRecent
      <4>r. WasRead(e, data)
        <5>1. call[c].via \in Adapters /\ c \in Open(e)
          BY <3>1, <3>5 DEF OpenFrames, Open
        <5>2. ReadThrough(e, call[c].via, data)
          BY <3>5 DEF AllWasRead
        <5>3. oldest[e] <= call[c].via /\ call[c].via <= adapter[e]
          BY <4>1, <5>1 DEF AllWasRead, OldestIsHeld
        <5> QED
          BY <5>1, <5>2, <5>3 DEF WasRead
      <4>3. /\ call'[c].pc = "done" /\ call'[c].engine = e /\ call'[c].since = call[c].since
            /\ call'[c].data = data
        BY <3>2, <3>5 DEF Returned
      <4>4. AskOf(call[c]) = Service!Pending(e, call[c].via, call[c].since)
        BY <1>s, <3>5, AskCases
      <4>5. AskOf(call'[c]) = Service!Told(e, call[c].since, data)
        BY <1>s, <4>3, AskCases
      <4> HIDE DEF e, data
      <4> QED
        BY <1>6, <2>a, <3>3, <4>1, <4>2, <4>r, <4>4, <4>5
    <3> QED
      BY <3>1, <3>4, <3>5
  <2>5. CASE EndCall(c)
    <3>1. /\ call[c].pc = "done" /\ call'[c].pc = "idle"
          /\ \A d \in Callers \ {c} : call'[d] = call[d]
      BY <2>5, <1>t DEF EndCall, NoCall, TypeOK
    <3>2. AskOf(call'[c]) = Service!Idle
      BY <1>s, <3>1, AskCases
    <3>3. AskOf(call[c]) # Service!Idle
      <4>1. AskOf(call[c]) = Service!Told(call[c].engine, call[c].since, call[c].data)
        BY <1>s, <3>1, AskCases
      <4> QED
        BY <4>1 DEF Service!Told, Service!Idle
    <3> QED
      BY <1>7, <2>a, <3>1, <3>2, <3>3
  <2> QED
    BY <1>8, <2>1, <2>2, <2>3, <2>4, <2>5 DEF Proceed, lookup
<1>9. CASE UNCHANGED vars
  BY <1>9, SameAsk DEF vars
<1> QED
  BY <1>1, <1>2, <1>3, <1>4, <1>5, <1>8, <1>9 DEF Next

LEMMA ServiceStart == Init => Service!ServiceInit
<1> SUFFICES ASSUME Init PROVE Service!ServiceInit
  OBVIOUS
<1>1. Ask = [c \in Callers |-> Service!Idle]
  BY AskFrames DEF Init, AskOf
<1> QED
  BY <1>1 DEF Init, Service!ServiceInit, Ask, Service!Adapters, Adapters

\* The cache implements ProbeService for every set of engines and callers:
\* whichever way an answer reaches a caller (its own probe, a cached entry, a
\* refresh it waited for), some probe read it, and no earlier than the last
\* invalidation before the question (engine.go probeEngineCached).
THEOREM CacheImplementsService == Spec => ImplementsService
<1>1. Init => Service!ServiceInit /\ AllWasRead
  BY ServiceStart, ReadInit
<1>2. CacheInv /\ CacheInv' /\ AllWasRead /\ [Next]_vars =>
        AllWasRead' /\ [Service!ServiceNext]_Service!serviceVars
  BY ReadStep, ServiceStep
<1> QED
  BY <1>1, <1>2, CacheInvariant, PTL DEF Spec, ImplementsService, Service!ServiceSpec
=============================================================================
