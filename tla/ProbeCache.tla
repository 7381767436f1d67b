----------------------------- MODULE ProbeCache -----------------------------
(***************************************************************************)
(* The probe cache of engine.go (probeEngineCached, refreshProbe,          *)
(* invalidateProbeCache, the peek functions), one action per critical      *)
(* section of probeCacheMu and per event between two of them.              *)
(*                                                                         *)
(* A caller is a goroutine of warmProbeCache or buildRouteIndex.  It first *)
(* fetches the adapter of its engine, then loops over the cache until it   *)
(* finds a fresh entry or owns the refresh.  The channel of a refresh is   *)
(* named by the caller that owns it; closing it moves every caller waiting *)
(* on it back to its loop, which is all that is ever done with a channel.  *)
(***************************************************************************)
EXTENDS Naturals, FiniteSetsExt

CONSTANTS Engines, Callers, MaxAdapter, MaxVersion,
          MaxGen,    \* bound on the number of invalidations
          NoChannel  \* the nil of probeEntry.inflight

ASSUME CacheBounds == MaxAdapter \in Nat /\ MaxVersion \in Nat /\ MaxGen \in Nat
ASSUME NoChannelIsNil == NoChannel \notin Callers

VARIABLES adapter, upstream, floor, oldest,  \* as in ProbeService
          edited,      \* history: edited[e] is adapter[e] as of the last invalidation
          answered,    \* history: statuses probes of this generation found e in
          probeCache,  \* probeCache[e]: the map's entry under e, or NoEntry
          probeGen,    \* invalidations so far
          call         \* call[c]: where goroutine c is in probeEngineCached

history == <<floor, oldest, edited, answered>>
vars == <<adapter, upstream, history, probeCache, probeGen, call>>

\* ask is defined below, from call: it is the refinement mapping.
Adapters == 0 .. MaxAdapter
Lists == [Adapters -> Nat]
Sightings == [via : Adapters, version : Nat]
ProbeData == [status : BOOLEAN, seen : SUBSET Sightings]
Down == [status |-> FALSE, seen |-> {}]
Unlisted == [status |-> TRUE, seen |-> {}]
Listed(a, v) == [status |-> TRUE, seen |-> {[via |-> a, version |-> v]}]

\* No list in data is older than the versions of since.
AtLeast(data, since) == \A s \in data.seen : since[s.via] <= s.version

-----------------------------------------------------------------------------
(* Cache entries.  expiry "zero" is the zero time of a marker whose first  *)
(* probe has not finished; "fresh" and "expired" are the two sides of      *)
(* probeCacheTTL.                                                          *)

NoEntry == [expiry |-> "none", data |-> Down, inflight |-> NoChannel]

Entries == [expiry : {"none", "zero", "fresh", "expired"},
            data : ProbeData,
            inflight : Callers \cup {NoChannel}]

Present(e) == probeCache[e].expiry # "none"

\* A probe has put data under e; otherwise the zero value there means nothing.
HasData(e) == probeCache[e].expiry \in {"fresh", "expired"}

Fresh(e) == probeCache[e].expiry = "fresh"

Marked(e) == probeCache[e].inflight # NoChannel

\* The caller's stack frame: its engine and adapter, the generation it
\* recorded, the channel it waits on, its data; since is history, the floor
\* of its engine when it fetched the adapter.
NoCall == [pc |-> "idle"]

Begun(e) == [pc |-> "lookup", engine |-> e, via |-> adapter[e], gen |-> 0,
             on |-> NoChannel, data |-> Down, since |-> floor[e]]

\* What is left of it once probeEngineCached has returned data.
Returned(f, data) ==
  [pc |-> "done", engine |-> f.engine, data |-> data, since |-> f.since]

OpenFrames ==
  [pc : {"lookup", "wait", "probe", "probed", "stored", "panicked"},
   engine : Engines, via : Adapters, gen : Nat,
   on : Callers \cup {NoChannel}, data : ProbeData, since : Lists]

DoneFrames == [pc : {"done"}, engine : Engines, data : ProbeData, since : Lists]

Frames == OpenFrames \cup DoneFrames \cup {NoCall}

\* c runs a refresh: its channel is open and its marker was published.
Refreshing(c) == call[c].pc \in {"probe", "probed"}

-----------------------------------------------------------------------------

Init ==
  /\ adapter = [e \in Engines |-> 0]
  /\ upstream = [e \in Engines |-> [a \in Adapters |-> 0]]
  /\ floor = upstream
  /\ edited = adapter /\ oldest = adapter
  /\ answered = [e \in Engines |-> {}]
  /\ probeCache = [e \in Engines |-> NoEntry]
  /\ probeGen = 0
  /\ call = [c \in Callers |-> NoCall]

\* A pull or delete changes the list of the server behind adapter a of e.
ChangeList(e, a) ==
  /\ upstream[e][a] < MaxVersion
  /\ upstream' = [upstream EXCEPT ![e][a] = @ + 1]
  /\ UNCHANGED <<adapter, history, probeCache, probeGen, call>>

\* reloadEngineCache publishes the adapters of an edited list, or of one in
\* which a new engine was given the id of a removed one.
ReplaceAdapter(e) ==
  /\ adapter[e] < MaxAdapter
  /\ adapter' = [adapter EXCEPT ![e] = @ + 1]
  /\ UNCHANGED <<upstream, history, probeCache, probeGen, call>>

\* Goroutines that have fetched an adapter for e and are not yet answered.
Open(e) ==
  {c \in Callers : call[c].pc \in {"lookup", "wait", "probe", "probed", "stored"}
                    /\ call[c].engine = e}

\* The adapter goroutines fetch now, and those some goroutine fetched before.
Held(e) == {adapter[e]} \cup {call[c].via : c \in Open(e)}

\* What the history keeps of an invalidation: the lists as they are, the
\* adapters as they are, and the oldest adapter a goroutine still holds.
NoteInvalidation ==
  /\ floor' = upstream
  /\ edited' = adapter
  /\ oldest' = [e \in Engines |-> Min(Held(e))]
  /\ answered' = [e \in Engines |-> {}]

\* Mutant: the generation is not counted, so an older probe may still store.
invalidate_KeepsGen ==
  /\ floor # upstream
  /\ probeCache' = [e \in Engines |-> NoEntry]
  /\ NoteInvalidation
  /\ UNCHANGED <<adapter, upstream, probeGen, call>>

\* Every handler that changes engines or models ends with this, whether or
\* not it changed anything: the pull handler defers it.
invalidateProbeCache ==
  /\ probeGen < MaxGen
  /\ probeCache' = [e \in Engines |-> NoEntry]
  /\ probeGen' = probeGen + 1
  /\ NoteInvalidation
  /\ UNCHANGED <<adapter, upstream, call>>

\* Ten seconds have passed since the entry was stored.
Expire(e) ==
  /\ Fresh(e)
  /\ probeCache' = [probeCache EXCEPT ![e].expiry = "expired"]
  /\ UNCHANGED <<adapter, upstream, history, probeGen, call>>

\* warmProbeCache and buildRouteIndex fetch the adapter, then start c.
StartCall(c, e) ==
  /\ call[c] = NoCall
  /\ call' = [call EXCEPT ![c] = Begun(e)]
  /\ UNCHANGED <<adapter, upstream, history, probeCache, probeGen>>

\* The first critical section, when someone else is already refreshing.
WaitForRefresh(c) ==
  /\ call[c].pc = "lookup"
  /\ LET e == call[c].engine IN
       /\ Marked(e)
       /\ call' = [call EXCEPT ![c].pc = "wait", ![c].on = probeCache[e].inflight]
  /\ UNCHANGED <<adapter, upstream, history, probeCache, probeGen>>

\* ... when the entry is fresh: its data is the answer.
ServeCached(c) ==
  /\ call[c].pc = "lookup"
  /\ LET e == call[c].engine IN
       /\ ~Marked(e)
       /\ Fresh(e)
       /\ call' = [call EXCEPT ![c] = Returned(call[c], probeCache[e].data)]
  /\ UNCHANGED <<adapter, upstream, history, probeCache, probeGen>>

\* Mutant: the marker of a running refresh is not looked at.
ClaimRefresh_IgnoresMarker(c) ==
  /\ call[c].pc = "lookup"
  /\ LET e == call[c].engine IN
       /\ ~Fresh(e)
       /\ probeCache' = [probeCache EXCEPT
            ![e].inflight = c,
            ![e].expiry = IF Present(e) THEN @ ELSE "zero"]
  /\ call' = [call EXCEPT ![c].pc = "probe", ![c].gen = probeGen]
  /\ UNCHANGED <<adapter, upstream, history, probeGen>>

\* Mutant: the generation recorded is the one before.
ClaimRefresh_OldGen(c) ==
  /\ call[c].pc = "lookup"
  /\ LET e == call[c].engine IN
       /\ ~Marked(e)
       /\ ~Fresh(e)
       /\ probeCache' = [probeCache EXCEPT
            ![e].inflight = c,
            ![e].expiry = IF Present(e) THEN @ ELSE "zero"]
  /\ call' = [call EXCEPT ![c].pc = "probe", ![c].gen = probeGen - 1]
  /\ UNCHANGED <<adapter, upstream, history, probeGen>>

\* ... otherwise: c publishes its marker over whatever the entry holds.
ClaimRefresh(c) ==
  /\ call[c].pc = "lookup"
  /\ LET e == call[c].engine IN
       /\ ~Marked(e)
       /\ ~Fresh(e)
       /\ probeCache' = [probeCache EXCEPT
            ![e].inflight = c,
            ![e].expiry = IF Present(e) THEN @ ELSE "zero"]
  /\ call' = [call EXCEPT ![c].pc = "probe", ![c].gen = probeGen]
  /\ UNCHANGED <<adapter, upstream, history, probeGen>>

\* probeEngineFull: Status, then ListModels, through the adapter c fetched.
ProbeUpstream(c) ==
  /\ call[c].pc = "probe"
  /\ LET e == call[c].engine
         a == call[c].via
     IN \E data \in {Down, Unlisted, Listed(a, upstream[e][a])} :
          /\ call' = [call EXCEPT ![c].pc = "probed", ![c].data = data]
          /\ answered' = IF call[c].gen = probeGen
                           THEN [answered EXCEPT ![e] = @ \cup {data.status}]
                           ELSE answered
  /\ UNCHANGED <<adapter, upstream, floor, oldest, edited, probeCache, probeGen>>

\* Mutant: the result is stored whatever happened in between.
StoreProbe_NoGenCheck(c) ==
  /\ call[c].pc = "probed"
  /\ probeCache' = [probeCache EXCEPT ![call[c].engine] =
       [expiry |-> "fresh", data |-> call[c].data, inflight |-> NoChannel]]
  /\ call' = [call EXCEPT ![c].pc = "stored"]
  /\ UNCHANGED <<adapter, upstream, history, probeGen>>

\* The second critical section: store only if nothing was invalidated.
StoreProbe(c) ==
  /\ call[c].pc = "probed"
  /\ probeCache' =
       IF probeGen = call[c].gen
         THEN [probeCache EXCEPT ![call[c].engine] =
                 [expiry |-> "fresh", data |-> call[c].data, inflight |-> NoChannel]]
         ELSE probeCache
  /\ call' = [call EXCEPT ![c].pc = "stored"]
  /\ UNCHANGED <<adapter, upstream, history, probeGen>>

\* Mutant: a panic leaves the entry as it is.
ProbePanics_LeavesEntry(c) ==
  /\ call[c].pc = "probe"
  /\ call' = [call EXCEPT ![c].pc = "panicked"]
  /\ UNCHANGED <<adapter, upstream, history, probeCache, probeGen>>

\* The deferred clean-up of a probe that panicked.
ProbePanics(c) ==
  /\ call[c].pc = "probe"
  /\ probeCache' = IF probeGen = call[c].gen
                     THEN [probeCache EXCEPT ![call[c].engine] = NoEntry]
                     ELSE probeCache
  /\ call' = [call EXCEPT ![c].pc = "panicked"]
  /\ UNCHANGED <<adapter, upstream, history, probeGen>>

\* Whoever waits on c's channel goes around its loop again.
Woken(c) ==
  [d \in Callers |->
     IF call[d].pc = "wait" /\ call[d].on = c
       THEN [call[d] EXCEPT !.pc = "lookup", !.on = NoChannel]
       ELSE call[d]]

\* Mutant: the channel is closed on the ordinary path only.
CloseDone_NotOnPanic(c) ==
  /\ call[c].pc \in {"stored", "panicked"}
  /\ call' = IF call[c].pc = "stored"
               THEN [Woken(c) EXCEPT ![c] = Returned(call[c], call[c].data)]
               ELSE [call EXCEPT ![c] = NoCall]
  /\ UNCHANGED <<adapter, upstream, history, probeCache, probeGen>>

\* close(done): the last thing a refresh does, on either path.
CloseDone(c) ==
  /\ call[c].pc \in {"stored", "panicked"}
  /\ call' = [Woken(c) EXCEPT
       ![c] = IF call[c].pc = "stored" THEN Returned(call[c], call[c].data) ELSE NoCall]
  /\ UNCHANGED <<adapter, upstream, history, probeCache, probeGen>>

\* The goroutine has used its answer and ends.
EndCall(c) ==
  /\ call[c].pc = "done"
  /\ call' = [call EXCEPT ![c] = NoCall]
  /\ UNCHANGED <<adapter, upstream, history, probeCache, probeGen>>

lookup(c) == WaitForRefresh(c) \/ ServeCached(c) \/ ClaimRefresh(c)

\* ---- The peeks: one critical section each, and no change of state ----

\* Past its expiry and nobody refreshing it, or never probed.
NeedsRefresh(e) == ~Marked(e) /\ ~Fresh(e)

\* Mutant: a zero expiry is not told from an expired one.
peekProbeState_NoZeroCheck(e) ==
  [state |-> IF ~Present(e) THEN "unknown"
             ELSE IF probeCache[e].data.status THEN "online" ELSE "offline",
   stale |-> NeedsRefresh(e)]

\* The state a page shows of e.
peekProbeState(e) ==
  [state |-> IF ~HasData(e) THEN "unknown"
             ELSE IF probeCache[e].data.status THEN "online" ELSE "offline",
   stale |-> NeedsRefresh(e)]

\* The models a page shows of e.
peekProbeData(e) ==
  [data |-> IF HasData(e) THEN probeCache[e].data ELSE Down,
   found |-> HasData(e),
   stale |-> NeedsRefresh(e)]

\* One goroutine's own steps, once it has begun.
Proceed(c) ==
  \/ lookup(c) \/ ProbeUpstream(c) \/ StoreProbe(c)
  \/ ProbePanics(c) \/ CloseDone(c) \/ EndCall(c)

Next ==
  \/ \E e \in Engines : ReplaceAdapter(e) \/ Expire(e)
  \/ \E e \in Engines, a \in Adapters : ChangeList(e, a)
  \/ invalidateProbeCache
  \/ \E c \in Callers, e \in Engines : StartCall(c, e)
  \/ \E c \in Callers : Proceed(c)

Spec == Init /\ [][Next]_vars

\* The Go scheduler runs every goroutine that can run, and controlClient ends
\* each upstream call within five seconds.
FairSpec == Spec /\ \A c \in Callers : WF_vars(Proceed(c))

-----------------------------------------------------------------------------
(* The promise.                                                            *)

Asked(c) ==
  IF call[c] = NoCall \/ call[c].pc = "panicked" THEN [state |-> "idle"]
  ELSE IF call[c].pc = "done"
    THEN [state |-> "told", engine |-> call[c].engine, since |-> call[c].since,
          data |-> call[c].data]
    ELSE [state |-> "pending", engine |-> call[c].engine, via |-> call[c].via,
          since |-> call[c].since]

Service == INSTANCE ProbeService
             WITH ask <- [c \in Callers |-> Asked(c)], Strangers <- FALSE

\* The cache keeps the promise of ProbeService: whatever hits, waits, panics,
\* expiries and invalidations do, an answer is one that a probe begun after
\* the caller's last invalidation could have given.
ImplementsService == Service!ServiceSpec

-----------------------------------------------------------------------------
(* Properties of the cache itself.                                         *)

TypeOK ==
  /\ adapter \in [Engines -> Adapters]
  /\ upstream \in [Engines -> Lists]
  /\ floor \in [Engines -> Lists]
  /\ oldest \in [Engines -> Adapters]
  /\ edited \in [Engines -> Adapters]
  /\ answered \in [Engines -> SUBSET BOOLEAN]
  /\ probeCache \in [Engines -> Entries]
  /\ probeGen \in Nat
  /\ call \in [Callers -> Frames]

\* A marker in the map names a refresh that is running, of that engine and of
\* the current generation: nobody is ever sent to wait on a channel that is
\* already closed (engine.go:659-662: such a marker "would spin waiters forever").
MarkersAreLive ==
  \A e \in Engines : Marked(e) =>
    LET c == probeCache[e].inflight IN
      Refreshing(c) /\ call[c].engine = e /\ call[c].gen = probeGen

\* Of the refreshes begun since the last invalidation at most one probes a
\* given engine: callers collapse onto a single upstream probe.
SingleFlight ==
  \A c, d \in Callers :
    /\ Refreshing(c) /\ call[c].gen = probeGen
    /\ Refreshing(d) /\ call[d].gen = probeGen
    /\ call[c].engine = call[d].engine
    => c = d

\* A refresh begun since the last invalidation is at work on e.
BeingRefreshed(e) ==
  \E c \in Callers : Refreshing(c) /\ call[c].engine = e /\ call[c].gen = probeGen

\* No entry shows a list older than the last invalidation: a probe in flight
\* across it is never stored, by whichever path it finishes.
InvalidationSticks ==
  \A e \in Engines : HasData(e) => AtLeast(probeCache[e].data, floor[e])

\* The pages read the cache without waiting, through peekProbeState and
\* peekProbeData.  A state they show is one that a probe begun since the last
\* invalidation has finished with, and never that of a first probe still under
\* way (engine.go:766-768: its zero values "would read as 'down with no models'
\* rather than 'not yet known'"); the two agree on what is known; and a page is
\* told to start a refresh unless the data is fresh or such a refresh is running.
PeeksAreMeaningful ==
  \A e \in Engines :
    LET shown == peekProbeState(e)
        found == peekProbeData(e)
    IN /\ shown.state = "online" => TRUE \in answered[e]
       /\ shown.state = "offline" => FALSE \in answered[e]
       /\ found.found <=> shown.state # "unknown"
       /\ found.found => (found.data.status <=> shown.state = "online")
       /\ AtLeast(found.data, floor[e])
       /\ shown.stale <=> found.stale
       /\ shown.stale <=> ~Fresh(e) /\ ~BeingRefreshed(e)

\* Every caller that waits on a channel is woken, whether the refresh it waits
\* for succeeds, panics, or was overtaken by an invalidation.
WaitersAreWoken ==
  \A c \in Callers : call[c].pc = "wait" ~> call[c].pc # "wait"

\* ---- The strengthening that makes the invariants above inductive ----

\* The entry of a first probe is marked and empty; no marked entry is fresh.
MarkersAreShaped ==
  \A e \in Engines :
    /\ probeCache[e].expiry = "zero" => Marked(e) /\ probeCache[e].data = Down
    /\ Marked(e) => ~Fresh(e)

\* Versions only grow, and every floor was the current version once.
FloorsArePast ==
  \A e \in Engines, a \in Adapters :
    /\ floor[e][a] <= upstream[e][a]
    /\ \A c \in Callers :
         call[c].pc # "idle" /\ call[c].engine = e => call[c].since[a] <= floor[e][a]

\* A running refresh of the current generation still has its marker in the map.
CurrentRefreshIsMarked ==
  \A c \in Callers : Refreshing(c) =>
    /\ call[c].gen <= probeGen
    /\ call[c].gen = probeGen => probeCache[call[c].engine].inflight = c

\* What a refresh has read is as new as its caller asked for and, if nothing was
\* invalidated since, as new as the invalidation before it demands.
ReadsAreRecent ==
  \A c \in Callers :
    /\ call[c].pc \in {"probed", "stored", "done"} => AtLeast(call[c].data, call[c].since)
    /\ call[c].pc = "probed" /\ call[c].gen = probeGen =>
         AtLeast(call[c].data, floor[call[c].engine])

\* An id that is not in the map has nothing stored under it.
AbsentIsEmpty == \A e \in Engines : Present(e) \/ probeCache[e] = NoEntry

CacheInv ==
  /\ TypeOK
  /\ AbsentIsEmpty
  /\ FloorsArePast
  /\ MarkersAreLive
  /\ CurrentRefreshIsMarked
  /\ ReadsAreRecent
  /\ InvalidationSticks
  /\ MarkersAreShaped

\* A status in the cache, or about to be stored there, was found by a probe of
\* this generation.
StatusesWereFound ==
  /\ \A e \in Engines : HasData(e) => probeCache[e].data.status \in answered[e]
  /\ \A c \in Callers : call[c].pc = "probed" /\ call[c].gen = probeGen =>
       call[c].data.status \in answered[call[c].engine]

\* Adapters only get newer, and nobody holds one older than oldest.
OldestIsHeld ==
  /\ \A e \in Engines : oldest[e] <= adapter[e]
  /\ \A e \in Engines : \A c \in Open(e) :
       oldest[e] <= call[c].via /\ call[c].via <= adapter[e]

\* After an engine was edited and the cache invalidated, no entry shows the
\* server the engine no longer points at (engine.go:695: "Call after engine
\* edits so the admin sees fresh data immediately").
EditsAreSeen ==
  \A e \in Engines : HasData(e) =>
    \A s \in probeCache[e].data.seen : edited[e] <= s.via
=============================================================================
