---------------------------- MODULE ProbeService ----------------------------
(***************************************************************************)
(* What the probe cache of engine.go promises to the goroutines that ask   *)
(* it about an engine.  A goroutine asks, and later gets an answer that    *)
(* some probe read from the engine's server; the answer may be old, but it *)
(* never shows a model list older than the last invalidation that came     *)
(* before the question.  That promise is what makes a freshly pulled model *)
(* visible "immediately": ollamaPullStream changes the server's list and   *)
(* then invalidates, so whoever asks afterwards sees the pull.             *)
(*                                                                         *)
(* An engine id stands for the server its adapter points at.  An edit on   *)
(* the Settings page replaces the adapter, and with it the server, and so  *)
(* does a new engine that is given the id of a removed one.  The promise   *)
(* about servers is weaker than the one about lists: a goroutine fetches   *)
(* its adapter before it consults the cache, so one that was on its way    *)
(* when the cache was invalidated may still fill it from the server it     *)
(* fetched.  oldest is how far back that can reach.                        *)
(***************************************************************************)
EXTENDS Naturals

CONSTANTS Engines,      \* engine ids
          Callers,      \* goroutines that may call probeEngineCached
          Strangers,    \* TRUE if others call it too, of which nothing is known
          MaxAdapter,   \* bound on the adapters of one engine id (0..MaxAdapter)
          MaxVersion    \* bound on the changes of one server's model list

VARIABLES adapter,   \* adapter[e]: the adapter engineCachePtr holds for e
          upstream,  \* upstream[e][a]: version of the list behind adapter a of e
          floor,     \* floor[e]: upstream[e] as of the last invalidation
          oldest,    \* oldest[e]: the oldest adapter answers about e come through
          ask        \* ask[c]: what caller c asked and was told

serviceVars == <<adapter, upstream, floor, oldest, ask>>

Adapters == 0 .. MaxAdapter

Lists == [Adapters -> Nat]

\* A list as some probe saw it: through which adapter, and at which version.
Sightings == [via : Adapters, version : Nat]

\* probeData: seen is {} when the engine is down (status FALSE) or when its
\* Status call worked and ListModels failed (status TRUE).
ProbeData == [status : BOOLEAN, seen : SUBSET Sightings]

Down == [status |-> FALSE, seen |-> {}]
Unlisted == [status |-> TRUE, seen |-> {}]
Listed(a, v) == [status |-> TRUE, seen |-> {[via |-> a, version |-> v]}]

Idle == [state |-> "idle"]
Pending(e, via, since) ==
  [state |-> "pending", engine |-> e, via |-> via, since |-> since]
Told(e, since, data) ==
  [state |-> "told", engine |-> e, since |-> since, data |-> data]

Asks ==
  {Idle}
    \cup [state : {"pending"}, engine : Engines, via : Adapters, since : Lists]
    \cup [state : {"told"}, engine : Engines, since : Lists, data : ProbeData]

\* No list in data is older than the versions of since.
AtLeast(data, since) == \A s \in data.seen : since[s.via] <= s.version

-----------------------------------------------------------------------------

ServiceInit ==
  /\ adapter = [e \in Engines |-> 0]
  /\ upstream = [e \in Engines |-> [a \in Adapters |-> 0]]
  /\ floor = upstream
  /\ oldest = adapter
  /\ ask = [c \in Callers |-> Idle]

\* A pull or a delete changes the list of the server behind one adapter.
ChangeList(e, a) ==
  /\ upstream[e][a] < MaxVersion
  /\ upstream' = [upstream EXCEPT ![e][a] = @ + 1]
  /\ UNCHANGED <<adapter, floor, oldest, ask>>

\* reloadEngineCache after an edit of e, or after its id was given to a new
\* engine: goroutines now fetch another adapter.
ReplaceAdapter(e) ==
  /\ adapter[e] < MaxAdapter
  /\ adapter' = [adapter EXCEPT ![e] = @ + 1]
  /\ UNCHANGED <<upstream, floor, oldest, ask>>

\* The adapters that goroutines asking about e have fetched.
InFlight(e) ==
  {ask[c].via : c \in {c \in Callers : ask[c].state = "pending" /\ ask[c].engine = e}}

\* a is the oldest adapter of e that some goroutine holds or will fetch: strangers
\* may hold any that can still be heard of.
Reaches(e, a) ==
  /\ oldest[e] <= a /\ a <= adapter[e]
  /\ \A b \in InFlight(e) : a <= b
  /\ Strangers \/ a = adapter[e] \/ a \in InFlight(e)

\* invalidateProbeCache: from here on no older list may be handed out, nor one
\* read through an adapter nobody holds any more.
InvalidateProbes ==
  /\ floor' = upstream
  /\ oldest' \in [Engines -> Adapters]
  /\ \A e \in Engines : Reaches(e, oldest'[e])
  /\ UNCHANGED <<adapter, upstream, ask>>

\* The adapter is fetched first, then the cache is consulted.
Ask(c, e) ==
  /\ ask[c] = Idle
  /\ ask' = [ask EXCEPT ![c] = Pending(e, adapter[e], floor[e])]
  /\ UNCHANGED <<adapter, upstream, floor, oldest>>

\* The probe may have failed, or have read any list since the question's floor,
\* through its own adapter or that of whoever filled the cache.
Answers(e, since) ==
  {Down, Unlisted} \cup
    {Listed(s.via, s.version) : s \in
      {s \in [via : oldest[e] .. adapter[e], version : 0 .. MaxVersion] :
         since[s.via] <= s.version /\ s.version <= upstream[e][s.via]}}

Answer(c) ==
  /\ ask[c].state = "pending"
  /\ \E data \in Answers(ask[c].engine, ask[c].since) :
       ask' = [ask EXCEPT ![c] = Told(ask[c].engine, ask[c].since, data)]
  /\ UNCHANGED <<adapter, upstream, floor, oldest>>

\* The caller returns with its answer, or is unwound by a panic of the probe.
Leave(c) ==
  /\ ask[c] # Idle
  /\ ask' = [ask EXCEPT ![c] = Idle]
  /\ UNCHANGED <<adapter, upstream, floor, oldest>>

ServiceNext ==
  \/ \E e \in Engines : ReplaceAdapter(e)
  \/ \E e \in Engines, a \in Adapters : ChangeList(e, a)
  \/ InvalidateProbes
  \/ \E c \in Callers, e \in Engines : Ask(c, e)
  \/ \E c \in Callers : Answer(c) \/ Leave(c)

ServiceSpec == ServiceInit /\ [][ServiceNext]_serviceVars

-----------------------------------------------------------------------------

ServiceTypeOK ==
  /\ adapter \in [Engines -> Adapters]
  /\ upstream \in [Engines -> Lists]
  /\ floor \in [Engines -> Lists]
  /\ oldest \in [Engines -> Adapters]
  /\ ask \in [Callers -> Asks]

\* Whoever asks after an invalidation is never shown a list from before it
\* (engine.go:616-621: storing such a probe "would undo the invalidation").
ToldSinceInvalidation ==
  \A c \in Callers : ask[c].state = "told" => AtLeast(ask[c].data, ask[c].since)
=============================================================================
