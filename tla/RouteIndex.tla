----------------------------- MODULE RouteIndex -----------------------------
(***************************************************************************)
(* Model-aware routing (routing.go): the index built from the probes of    *)
(* every engine, its publication and invalidation, the background refresh, *)
(* and selectEngine, for one model name.  Probes behave as ProbeService    *)
(* promises, which ProbeCache is shown to implement.                       *)
(*                                                                         *)
(* An engine id stands for the server its adapter points at, and an edit,  *)
(* or a new engine with the id of a removed one, puts another server       *)
(* behind it.  A list version says whether that server holds the model,    *)
(* which pulls and deletes change in turn.                                 *)
(*                                                                         *)
(* An index object is named by the build that made it: buildRouteIndex     *)
(* goes on filling that object for as long as its goroutines run, also     *)
(* after it has returned it.                                               *)
(***************************************************************************)
EXTENDS Integers, Sequences, FiniteSets, SequencesExt

CONSTANTS Engines,     \* engine ids, naturals: the lowest was added first
          Held,        \* <<e, a>>: the first list behind adapter a of e holds the model
          Builds,      \* runs of rebuildRouteIndex that may be alive at once
          Requests,    \* completion requests
          Strangers,   \* TRUE if warmProbeCache and forgotten builds probe too
          Admins,      \* admin handlers that change engines or models
          MaxAdapter,  \* bound on the servers of one engine id (0..MaxAdapter)
          MaxVersion,  \* bound on the changes of one server's list
          MaxChanges,  \* bound on the changes admins make
          Nil

ASSUME RouteAssumption ==
  /\ Engines \subseteq Nat /\ Held \subseteq Engines \X Nat
  /\ IsFiniteSet(Engines) /\ IsFiniteSet(Admins)
  /\ Strangers \in BOOLEAN
  /\ MaxAdapter \in Nat /\ MaxVersion \in Nat /\ MaxChanges \in Nat
  /\ Nil \notin Builds

VARIABLES adapter, upstream, floor, oldest, ask,  \* ProbeService
          registered,       \* engines in engineCachePtr
          routeGen,         \* invalidations of the index so far
          routeIndexPtr,    \* the published index, or Nil
          routeRefreshing,  \* the build of the background refresh, or Nil
          build,            \* build[k]: a run of rebuildRouteIndex
          request,          \* request[r]: a run of selectEngine
          admin,            \* admin[a]: a handler between its change and its end
          booting,          \* main has not yet asked for the first build
          changes,          \* changes made so far
          dropped,          \* history: what the last invalidateProbeCache covered
          settled           \* history: what the last invalidateRouteIndex covered

service == <<adapter, upstream, floor, oldest, ask>>
indexVars == <<routeGen, routeIndexPtr>>
adminVars == <<registered, admin, changes, dropped, settled>>
vars == <<service, adminVars, indexVars, routeRefreshing, build, request, booting>>

Probes == INSTANCE ProbeService WITH Callers <- Builds \X Engines

\* The list of e that s is a sighting of holds the model.
Holds(e, s) == (s.version % 2 = 0) = (<<e, s.via>> \in Held)

\* What a probe of e through its current adapter would see of lists.
Current(lists, e) == [via |-> adapter[e], version |-> lists[e][adapter[e]]]

-----------------------------------------------------------------------------
(* Index objects.                                                          *)

\* asked: engines with a goroutine; byModel: ids appended so far; saw: the
\* lists they reported; late: those appended after the build had returned.
NoBuild == [pc |-> "free", gen |-> 0, asked |-> {}, byModel |-> <<>>,
            probed |-> FALSE, saw |-> [e \in Engines |-> {}], late |-> {}]

\* A pointer to the object of k.  The copy invalidateRouteIndex publishes
\* shares the map and keeps its own probed.
Index(k, age) == [build |-> k, built |-> age, copied |-> FALSE, probed |-> FALSE]

Probed(idx) == IF idx.copied THEN idx.probed ELSE build[idx.build].probed

\* time.Since(idx.built) > routeIndexTTL; a zeroed built time is always stale.
Stale(idx) == idx.built # "fresh"

Unfinished(k) == {e \in build[k].asked : ask[<<k, e>>] # Probes!Idle}

\* Nothing but its own goroutines can reach the object of k any more.
Garbage(k) ==
  /\ build[k].pc = "ready"
  /\ routeIndexPtr # Nil => routeIndexPtr.build # k
  /\ routeRefreshing # k
  /\ \A r \in Requests : request[r].idx.build # k

NoRequest == [pc |-> "idle", idx |-> Index(Nil, "fresh"), owed |-> {}, engine |-> Nil]

Init ==
  /\ Probes!ServiceInit
  /\ registered = Engines
  /\ routeGen = 0 /\ routeIndexPtr = Nil /\ routeRefreshing = Nil
  /\ build = [k \in Builds |-> NoBuild]
  /\ request = [r \in Requests |-> NoRequest]
  /\ admin = [a \in Admins |-> "idle"]
  /\ booting = TRUE /\ changes = 0
  /\ dropped = [engines |-> Engines, lists |-> floor, oldest |-> oldest]
  /\ settled = dropped

-----------------------------------------------------------------------------
(* rebuildRouteIndex and buildRouteIndex.                                  *)

Free(k) == build[k].pc = "free"

\* A rebuild starts by recording the generation.
Started(k) == [build EXCEPT ![k] = [NoBuild EXCEPT !.pc = "gen", !.gen = routeGen]]

\* One goroutine per engine with an adapter asks the probe cache.
LaunchProbes(k) ==
  /\ build[k].pc = "gen"
  /\ build' = [build EXCEPT ![k].pc = "probing", ![k].asked = registered]
  /\ ask' = [c \in DOMAIN ask |->
               IF c[1] = k /\ c[2] \in registered
                 THEN Probes!Pending(c[2], adapter[c[2]], floor[c[2]]) ELSE ask[c]]
  /\ UNCHANGED <<adapter, upstream, floor, oldest, adminVars, indexVars,
                 routeRefreshing, request, booting>>

\* A goroutine adds what it is told to the index, even when the build has
\* already returned, and ends.  Being told and adding are one step: what may be
\* told only grows with time, so an answer held for a while before it is added
\* is an answer that can also be given then.
CollectProbe(k, e) ==
  /\ ask[<<k, e>>].state = "pending"
  /\ ask' = [ask EXCEPT ![<<k, e>>] = Probes!Idle]
  /\ \E data \in Probes!Answers(e, ask[<<k, e>>].since) :
       LET holds == \E s \in data.seen : Holds(e, s)
       IN build' = IF ~data.status THEN build ELSE
            [build EXCEPT ![k].probed = TRUE,
                          ![k].saw[e] = data.seen,
                          ![k].byModel = IF holds THEN Append(@, e) ELSE @,
                          ![k].late = IF holds /\ build[k].pc = "ready"
                                        THEN @ \cup {e} ELSE @]
  /\ UNCHANGED <<adapter, upstream, floor, oldest, adminVars, indexVars,
                 routeRefreshing, request, booting>>

\* s lists the elements of ids from the lowest to the highest.
Enumerates(s, ids) ==
  /\ ToSet(s) = ids
  /\ \A i, j \in DOMAIN s : i < j => s[i] < s[j]

\* sort.Ints.  No id is there twice: a build asks an engine once.
Sorted(ids) == CHOOSE s \in [1 .. Cardinality(ids) -> ids] : Enumerates(s, ids)

\* Mutant: the generation is not compared.
storeRouteIndex_Always(k) == routeIndexPtr' = Index(k, "fresh")

\* Published only if nothing was invalidated since the generation was read.
storeRouteIndex(k) ==
  routeIndexPtr' = IF routeGen = build[k].gen THEN Index(k, "fresh") ELSE routeIndexPtr

\* Mutant: the ids stay in the order the probes answered.
SortIndex_Not(k) ==
  build' = [build EXCEPT ![k].pc = "ready", ![k].gen = 0]

\* The ids of each model are sorted; the generation is not needed again.
SortIndex(k) ==
  build' = [build EXCEPT ![k].pc = "ready", ![k].gen = 0,
                         ![k].byModel = Sorted(ToSet(@))]

\* Every goroutine has finished.  Sorting and storing are one step: only the
\* late goroutines of this build could come between, and they may follow.
ReturnIndex(k) ==
  /\ build[k].pc = "probing" /\ Unfinished(k) = {}
  /\ SortIndex(k) /\ storeRouteIndex(k)
  /\ UNCHANGED <<service, adminVars, routeGen, routeRefreshing, request, booting>>

\* The context expired first (2, 5 or 10 seconds): a partial index is sorted
\* and stored while goroutines still hold it.
CutShort(k) ==
  /\ build[k].pc = "probing" /\ Unfinished(k) # {}
  /\ SortIndex(k) /\ storeRouteIndex(k)
  /\ UNCHANGED <<service, adminVars, routeGen, routeRefreshing, request, booting>>

\* Garbage collection, which is what lets a finite set name every build.  The
\* goroutines of a forgotten build run on, but nothing here can see them.
Reclaim(k) ==
  /\ Garbage(k)
  /\ build' = [build EXCEPT ![k] = NoBuild]
  /\ ask' = [c \in DOMAIN ask |-> IF c[1] = k THEN Probes!Idle ELSE ask[c]]
  /\ UNCHANGED <<adapter, upstream, floor, oldest, adminVars, indexVars,
                 routeRefreshing, request, booting>>

\* A minute has passed since the index was built.
ExpireIndex ==
  /\ routeIndexPtr # Nil /\ routeIndexPtr.built = "fresh"
  /\ routeIndexPtr' = [routeIndexPtr EXCEPT !.built = "old"]
  /\ UNCHANGED <<service, adminVars, routeGen, routeRefreshing, build, request, booting>>

-----------------------------------------------------------------------------
(* refreshRouteIndexAsync: at most one background rebuild at a time.       *)

\* The compare-and-swap and, if it wins, the start of the rebuild.
RefreshAsync ==
  IF routeRefreshing # Nil
    THEN UNCHANGED <<routeRefreshing, build>>
    ELSE \E k \in Builds :
           /\ Free(k)
           /\ routeRefreshing' = k
           /\ build' = Started(k)

\* Mutant: the flag is not cleared.
EndRefresh_KeepsFlag ==
  /\ routeRefreshing # Nil /\ build[routeRefreshing].pc = "ready"
  /\ UNCHANGED vars

EndRefresh ==
  /\ routeRefreshing # Nil /\ build[routeRefreshing].pc = "ready"
  /\ routeRefreshing' = Nil
  /\ UNCHANGED <<service, adminVars, indexVars, build, request, booting>>

\* main starts the first build, in a goroutine: requests may come before it.
Boot ==
  /\ booting
  /\ booting' = FALSE
  /\ RefreshAsync
  /\ UNCHANGED <<service, adminVars, indexVars, request>>

-----------------------------------------------------------------------------
(* Admin handlers: a change, then onEnginesChanged.                        *)

BeginChange(a) ==
  /\ admin[a] = "idle" /\ changes < MaxChanges
  /\ changes' = changes + 1
  /\ admin' = [admin EXCEPT ![a] = "changed"]

\* A request in flight can no longer count on an engine that changes under it.
ExcuseEngine(e) ==
  request' = [r \in Requests |-> [request[r] EXCEPT !.owed = @ \ {e}]]

\* A pull or delete on engine e has finished upstream, on the server e pointed at
\* when the handler began: it may have been edited or removed since.
ChangeModel(a, e) ==
  /\ BeginChange(a)
  /\ \E via \in 0 .. adapter[e] : Probes!ChangeList(e, via)
  /\ ExcuseEngine(e)
  /\ UNCHANGED <<registered, dropped, settled, indexVars, routeRefreshing, build, booting>>

\* A pull of a model its engine already holds, or one that failed or was cut off
\* before the list changed: the handler defers onEnginesChanged all the same.
PullNothing(a) ==
  /\ BeginChange(a)
  /\ UNCHANGED <<service, registered, dropped, settled, indexVars, routeRefreshing,
                 build, request, booting>>

\* saveEngines has reloaded a list in which e points at another server ...
EditEngine(a, e) ==
  /\ BeginChange(a)
  /\ e \in registered
  /\ Probes!ReplaceAdapter(e)
  /\ ExcuseEngine(e)
  /\ UNCHANGED <<registered, dropped, settled, indexVars, routeRefreshing, build, booting>>

\* ... or one without e.  The history forgets e: should
\* its id be given out again, the engine that has it then is a new one, whose
\* own change is not settled.
RemoveEngine(a, e) ==
  /\ BeginChange(a)
  /\ e \in registered
  /\ registered' = registered \ {e}
  /\ ExcuseEngine(e)
  /\ dropped' = [dropped EXCEPT !.engines = @ \ {e}]
  /\ settled' = [settled EXCEPT !.engines = @ \ {e}]
  /\ UNCHANGED <<service, indexVars, routeRefreshing, build, booting>>

\* ... or one with a new engine, whose id follows the highest one in the list: it
\* may be that of an engine removed before, but its server is another.
AddEngine(a, e) ==
  /\ BeginChange(a)
  /\ \A other \in registered : other < e
  /\ \A other \in Engines \ registered : other < e => \E top \in registered : other < top
  /\ registered' = registered \cup {e}
  /\ Probes!ReplaceAdapter(e)
  /\ ExcuseEngine(e)
  /\ UNCHANGED <<dropped, settled, indexVars, routeRefreshing, build, booting>>

\* onEnginesChanged: the probe cache first ...
DropProbes(a) ==
  /\ admin[a] = "changed"
  /\ admin' = [admin EXCEPT ![a] = "dropped"]
  /\ Probes!InvalidateProbes
  /\ dropped' = [engines |-> registered, lists |-> floor', oldest |-> oldest']
  /\ UNCHANGED <<registered, changes, settled, indexVars, routeRefreshing,
                 build, request, booting>>

\* Mutant: one change is counted twice.
invalidateRouteIndex_Twice(a) ==
  /\ admin[a] = "dropped"
  /\ admin' = [admin EXCEPT ![a] = "marked"]
  /\ routeGen' = routeGen + 2
  /\ settled' = dropped
  /\ UNCHANGED <<service, registered, changes, dropped, routeIndexPtr,
                 routeRefreshing, build, request, booting>>

\* ... then invalidateRouteIndex: a copy with its age zeroed is published ...
invalidateRouteIndex(a) ==
  /\ admin[a] = "dropped"
  /\ admin' = [admin EXCEPT ![a] = "marked"]
  /\ routeGen' = routeGen + 1
  /\ routeIndexPtr' = IF routeIndexPtr = Nil THEN Nil
       ELSE [routeIndexPtr EXCEPT !.built = "zero", !.copied = TRUE,
                                  !.probed = Probed(routeIndexPtr)]
  /\ settled' = dropped
  /\ UNCHANGED <<service, registered, changes, dropped,
                 routeRefreshing, build, request, booting>>

\* ... and a refill is asked for.
Kick(a) ==
  /\ admin[a] = "marked"
  /\ admin' = [admin EXCEPT ![a] = "idle"]
  /\ RefreshAsync
  /\ UNCHANGED <<service, registered, changes, dropped, settled, indexVars,
                 request, booting>>

-----------------------------------------------------------------------------
(* selectEngine.                                                           *)

\* Engines whose latest change was settled before the request, with nobody left
\* who had fetched an older adapter, and that hold the model: what the request
\* may count on.
Owed ==
  {e \in registered \cap settled.engines :
     /\ settled.oldest[e] = adapter[e]
     /\ Current(upstream, e) = Current(settled.lists, e)
     /\ Holds(e, Current(upstream, e))}

Verdicts == {"routed", "default", "notFound", "noEngines"}

\* A request slot takes the next request once it has returned.
Resting(r) == request[r].pc \in {"idle"} \cup Verdicts

\* The verdict, with which the request forgets the index.
Verdict(r, pc, e) ==
  request' = [request EXCEPT ![r] = [NoRequest EXCEPT !.pc = pc, !.engine = e]]

\* No engine configured.
RejectEmpty(r) ==
  /\ Resting(r) /\ registered = {}
  /\ Verdict(r, "noEngines", Nil)
  /\ UNCHANGED <<service, adminVars, indexVars, routeRefreshing, build, booting>>

\* currentRouteIndex: an index is there.  A stale one is refreshed behind it.
LoadIndex(r) ==
  /\ Resting(r) /\ registered # {}
  /\ routeIndexPtr # Nil
  /\ request' = [request EXCEPT ![r] =
       [pc |-> "look", idx |-> routeIndexPtr, owed |-> Owed, engine |-> Nil]]
  /\ IF Stale(routeIndexPtr) THEN RefreshAsync ELSE UNCHANGED <<routeRefreshing, build>>
  /\ UNCHANGED <<service, adminVars, indexVars, booting>>

\* currentRouteIndex: nothing to serve yet, so rebuild and wait.
BuildFirst(r) ==
  /\ Resting(r) /\ registered # {}
  /\ routeIndexPtr = Nil
  /\ \E k \in Builds :
       /\ Free(k)
       /\ build' = Started(k)
       /\ request' = [request EXCEPT ![r] =
            [pc |-> "building", idx |-> Index(k, "fresh"), owed |-> Owed, engine |-> Nil]]
  /\ UNCHANGED <<service, adminVars, indexVars, routeRefreshing, booting>>

\* rebuildRouteIndex returned: its index is used whether or not it was stored.
UseBuild(r) ==
  /\ request[r].pc = "building" /\ build[request[r].idx.build].pc = "ready"
  /\ request' = [request EXCEPT ![r].pc = "look"]
  /\ UNCHANGED <<service, adminVars, indexVars, routeRefreshing, build, booting>>

\* Where the index names an engine that still has an adapter.
Candidates(idx) ==
  {i \in DOMAIN build[idx.build].byModel : build[idx.build].byModel[i] \in registered}

\* A hit, also on a stale index: the first candidate serves the request.
RouteHit(r) ==
  /\ request[r].pc = "look"
  /\ \E i \in Candidates(request[r].idx) :
       /\ \A j \in Candidates(request[r].idx) : i <= j
       /\ Verdict(r, "routed", build[request[r].idx.build].byModel[i])
  /\ UNCHANGED <<service, adminVars, indexVars, routeRefreshing, build, booting>>

\* A miss on a stale index is re-checked against a fresh build.
RecheckMiss(r) ==
  /\ request[r].pc = "look" /\ Candidates(request[r].idx) = {}
  /\ Stale(request[r].idx)
  /\ \E k \in Builds :
       /\ Free(k)
       /\ build' = Started(k)
       /\ request' = [request EXCEPT ![r].pc = "building", ![r].idx = Index(k, "fresh")]
  /\ UNCHANGED <<service, adminVars, indexVars, routeRefreshing, booting>>

\* Mutant: a miss on a stale index is final.
RouteMiss_Unchecked(r) ==
  /\ request[r].pc = "look" /\ Candidates(request[r].idx) = {}
  /\ Verdict(r, IF Probed(request[r].idx) THEN "notFound"
                ELSE IF registered = {} THEN "noEngines" ELSE "default", Nil)
  /\ UNCHANGED <<service, adminVars, indexVars, routeRefreshing, build, booting>>

\* A miss on a fresh one is final: 404 if any engine answered, otherwise the
\* default engine, whose failure will surface as a 502.
RouteMiss(r) ==
  /\ request[r].pc = "look" /\ Candidates(request[r].idx) = {}
  /\ ~Stale(request[r].idx)
  /\ Verdict(r, IF Probed(request[r].idx) THEN "notFound"
                ELSE IF registered = {} THEN "noEngines" ELSE "default", Nil)
  /\ UNCHANGED <<service, adminVars, indexVars, routeRefreshing, build, booting>>

-----------------------------------------------------------------------------

selectEngine(r) ==
  \/ UseBuild(r) \/ RouteHit(r) \/ RecheckMiss(r) \/ RouteMiss(r)

BuildStep(k) ==
  LaunchProbes(k) \/ ReturnIndex(k) \/ CutShort(k)

AdminStep(a) == DropProbes(a) \/ invalidateRouteIndex(a) \/ Kick(a)

Act ==
  \/ \E k \in Builds : BuildStep(k)
  \/ \E k \in Builds, e \in Engines : CollectProbe(k, e)
  \/ ExpireIndex \/ EndRefresh \/ Boot
  \/ \E a \in Admins : AdminStep(a) \/ PullNothing(a)
  \/ \E a \in Admins, e \in Engines :
       \/ ChangeModel(a, e) \/ EditEngine(a, e)
       \/ RemoveEngine(a, e) \/ AddEngine(a, e)
  \/ \E r \in Requests :
       RejectEmpty(r) \/ LoadIndex(r) \/ BuildFirst(r) \/ selectEngine(r)

\* Garbage is collected at once: nothing in the program can tell.
Next ==
  \/ \E k \in Builds : Reclaim(k)
  \/ (\A k \in Builds : ~Garbage(k)) /\ Act

Spec == Init /\ [][Next]_vars

\* Goroutines are scheduled, a build returns at the latest when its context
\* expires, and a handler that has changed something runs to its end.  Nobody
\* has to send a request, change anything or let an index expire, and no probe
\* has to answer.
FairSpec ==
  /\ Spec
  /\ WF_vars(EndRefresh) /\ WF_vars(Boot) /\ WF_vars(\E k \in Builds : Reclaim(k))
  /\ \A k \in Builds : WF_vars(BuildStep(k))
  /\ \A a \in Admins : WF_vars(AdminStep(a))
  /\ \A r \in Requests : WF_vars(selectEngine(r))

\* Requests for the model keep coming.
TrafficSpec == FairSpec /\ \A r \in Requests : WF_vars(LoadIndex(r) \/ BuildFirst(r))

-----------------------------------------------------------------------------

Indexes == [build : Builds \cup {Nil}, built : {"fresh", "old", "zero"},
            copied : BOOLEAN, probed : BOOLEAN]

BuildRuns == [pc : {"free", "gen", "probing", "ready"}, gen : 0 .. MaxChanges,
              asked : SUBSET Engines, byModel : Seq(Engines), probed : BOOLEAN,
              saw : [Engines -> SUBSET Probes!Sightings], late : SUBSET Engines]

RequestRuns == [pc : {"idle", "look", "building"} \cup Verdicts,
                idx : Indexes, owed : SUBSET Engines, engine : Engines \cup {Nil}]

Covered == [engines : SUBSET Engines, lists : [Engines -> Probes!Lists],
            oldest : [Engines -> Probes!Adapters]]

TypeOK ==
  /\ Probes!ServiceTypeOK
  /\ registered \subseteq Engines
  /\ routeGen \in 0 .. MaxChanges
  /\ routeIndexPtr \in Indexes \cup {Nil}
  /\ routeRefreshing \in Builds \cup {Nil}
  /\ build \in [Builds -> BuildRuns]
  /\ request \in [Requests -> RequestRuns]
  /\ admin \in [Admins -> {"idle", "changed", "dropped", "marked"}]
  /\ booting \in BOOLEAN /\ changes \in 0 .. MaxChanges
  /\ dropped \in Covered /\ settled \in Covered

\* An index served as fresh was assembled after the last completed change: it
\* asked every engine configured then, shows no list from before the change, and
\* shows no server an engine was moved away from by then, unless some goroutine
\* had fetched the old adapter and was still to be answered when the change was
\* settled: EditsAreSeen of ProbeCache is about that case.
FreshIndexIsCurrent ==
  routeIndexPtr # Nil /\ ~Stale(routeIndexPtr) =>
    LET b == build[routeIndexPtr.build] IN
      \A e \in registered \cap settled.engines :
        /\ e \in b.asked
        /\ \A s \in b.saw[e] :
             settled.oldest[e] <= s.via /\ settled.lists[e][s.via] <= s.version

\* A 404 is a verdict on the model.  If an engine held it before the request
\* arrived, with the pull, edit or new engine settled, nobody left who had
\* fetched an older adapter then, and nothing changed there since, the request
\* is refused only if that engine was asked and gave the index no list: its
\* probe failed or came after the build's deadline (routing.go:26-30).
NotFoundIsDeserved ==
  [][\A r \in Requests :
       request[r].pc = "look" /\ request'[r].pc = "notFound" =>
         LET b == build[request[r].idx.build] IN
           \A e \in request[r].owed : e \in b.asked /\ b.saw[e] = {}]_vars

\* e's probe reported the model to build b.
Reported(b, e) == \E s \in b.saw[e] : Holds(e, s)

\* Of the engines that reported the model before the build returned, the one
\* added first serves it or gives way to one added earlier still, whatever order
\* the probes answered in, whether the build was cut short or not, and whatever
\* is appended to the index while it is in use.  routing.go:22-24 promises more,
\* "the lowest engine ID wins": but the engines of late are appended after the
\* sort, in the order of their answers, so a lower id may follow a higher one.
FirstAddedWins ==
  [][\A r \in Requests :
       request[r].pc = "look" /\ request'[r].pc = "routed" =>
         LET b == build[request[r].idx.build] IN
           \A e \in (b.asked \cap registered) \ b.late :
             Reported(b, e) => request'[r].engine <= e]_vars

\* While requests keep coming, an index marked stale gives way to a fresh one,
\* although a refresh that is under way keeps the next from starting and may
\* itself be rejected (routing.go:160: "so the next lookup revalidates it").
\* With no engine left nothing looks the index up any more.
StaleIsRefreshed ==
  routeIndexPtr # Nil /\ Stale(routeIndexPtr) ~>
    (routeIndexPtr # Nil /\ ~Stale(routeIndexPtr)) \/ registered = {}

\* A published index no longer changes (routing.go:165-166: "readers hold the
\* old pointer and must not see a struct mutate underneath them").
PublishedIndexIsFrozen ==
  [][routeIndexPtr # Nil /\ routeIndexPtr' = routeIndexPtr =>
       LET k == routeIndexPtr.build IN build'[k].byModel = build[k].byModel]_vars
=============================================================================
