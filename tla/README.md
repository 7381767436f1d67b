# Gateway42: a TLA+ verification project

Gateway42 is an API gateway in Go: clients speak the OpenAI or the Anthropic
protocol to it, and it relays their completions to one of several engines
(Ollama or OpenAI-compatible servers). One process holds everything: an HTTP
server, a SQLite database, caches in memory, and a handful of background
goroutines. This project models the parts of it whose correctness depends on
the order in which goroutines, upstream servers and admins act, checks them
with TLC on small instances, and proves the main invariants with TLAPS for
every size.

File and line references are to the repository's source files.

## 1. Inventory

| Part | State | Operations | Interacts with | What makes it correct |
|---|---|---|---|---|
| Engine configuration (`engine.go` 186-240, 519-576; `handlers.go` 425-695) | settings row `engines`; `engineCachePtr` (list and adapters); one concurrency limiter per adapter | add, edit, remove, reload, acquire and release a slot | ends every change with `onEnginesChanged`; read by routing, probes and pages | the cache equals the saved list; no change is lost; an engine never runs more than its limit |
| Probe cache (`engine.go` 588-874) | `probeCache`, `probeGen`, one channel per running refresh | `probeEngineCached`, `refreshProbe`, `invalidateProbeCache`, `warmProbeCache`, the peeks | probes engines through adapters; feeds routing, `/v1/models` and the pages | one probe at a time per engine; nothing older than an invalidation is served; waiters are woken |
| Routing (`routing.go`) | `routeIndexPtr`, `routeGen`, `routeRefreshing` | build, store, invalidate, refresh, `selectEngine` | asks the probe cache; invalidated by every engine or model change | no stale index passes as fresh; a 404 is deserved; the first-added engine wins; stale indexes are replaced |
| Log writers (`logwriter.go`; shutdown `main.go` 1079-1140) | two channels, two batches, timers, drop counters | enqueue, receive, tick, flush, drain | fed by handlers and middleware; write the database; stopped by `main` | nothing vanishes unaccounted; order; bounded memory and delay; clean exit loses nothing |
| User cache and authentication (`db.go` 457-666, `main.go` 717-742) | LRU of users by key hash and by id, five-minute expiry | lookup, fill, invalidate; create, disable, reset key, delete | every API request; admin pages; rate limiter | a disabled or reset key stops working |
| Rate limiter (`ratelimit.go`) | token bucket per user | `isAllowed`, drop, reset, sweep | uses the limit of the cached user | no more than the limit per minute |
| Login guard (`auth.go` 65-151) | failures, lockout, blocked-until | `allow`, `failed`, `succeeded` | around the password hash of `handleAdminLogin` | lockouts begin, double, end |
| Streaming (`engine.go` 98-160, 390-483; `api_handlers.go` 140-390, 566-676) | one upstream stream, two timers, a concurrency slot, an audit record per request | receive, relay, touch, expire, close, release | acquires an engine from routing; ends in a log entry | every stream ends, releases its slot once, and is recorded with the reason that ended it |
| Anthropic translation (`anthropic.go`) | open block, indices, usage of one stream | start, chunk, end | fed by the relaying handler | the events form a legal message |
| OpenAI and Ollama translation (`openai.go`, `types.go`) | none | conversions | called by handlers and adapters | field by field |
| Request pipeline (`main.go` 603-994, `metrics.go`, `csrf.go`, `request_detail.go`) | a recorder and a detail record per request | recovery, logging, metrics, CSRF, auth | wraps all handlers; enqueues log entries | one audit row and one metric per request, with the status the client saw |
| Database, retention (`db.go` 94-455, 648-984) | SQLite tables and FTS indexes | migrate, delete user, reset, prune, query | log writers, pages | tables and indexes agree; nothing of a deleted user comes back |
| Admin pages and sessions (`handlers.go`, `main.go` 414-476) | signed cookie | login, logout, flash, export, forms | all of the above | logout ends the session; forms change what they say |
| Usage panel (`usage.go`), templates, scripts | none | formatting | | |

What is hard here. All requests share the caches, and none of the critical
sections spans an upstream call, so every cache fill is a read in one lock and
a store in another with seconds between them. Invalidations arrive in between.
Goroutines outlive the call that started them (`buildRouteIndex` and
`warmProbeCache` return at a deadline and leave theirs running). Refreshes
exclude one another through a flag or a channel, so a refresh that fails must
still let the next one in. Log entries are settled by a goroutine that shutdown
stops, and shutdown may give up on requests that go on logging. `PROJECT.json`
lists each of these at its line under `hazards`.

## 2. Modules

| Module | Models | Composes |
|---|---|---|
| `ProbeService` | what the probe cache promises its callers | |
| `ProbeCache` | the probe cache, one action per critical section | implements `ProbeService` |
| `RouteIndex` | routing for one model name, and the admin changes | uses `ProbeService` as the probe cache |
| `LogWriter` | one log writer, its producers, shutdown | |
| `UserCache` | the users table, the cache in front of it, API authentication, the admin's edits, the token buckets | |
| `EngineStore` | the stored engine list, the reload of the adapters, the concurrency slots | |
| `AnthropicStream` | the translation of replies into Anthropic events, and the client that parses them | |
| `Completion` | one API request: middleware, handlers, deadline, engine, client, records | extends `AnthropicStream` |
| `AdminAccess` | login guard, session cookie, CSRF token, export and delete | |
| `ProbeCacheProofs`, `RouteIndexProofs`, `LogWriterProofs`, `UserCacheProofs`, `EngineStoreProofs`, `CompletionProofs`, `AdminAccessProofs` | theorems | extend their module |
| `RecursionFacts` | induction over naturals with sets, and recursive functions | |
| `MC*` | instances for TLC | extend their module |

### ProbeService and ProbeCache

A server's model list is a version number that pulls and deletes increase. An
engine id has an adapter, and an edit moves it to the next adapter and so to
another server; so does a new engine that is given the id of a removed one.
What a probe yields (`probeData`) is a status and at most one
*sighting*: the adapter probed and the version seen. Names, sizes and raw
payloads are left out; nothing branches on them.

`ProbeService` says: a goroutine asks about an engine, and is later told that
the engine is down, that it is up with no list, or a list that one of its
servers had at some time since the last invalidation before the question
(`floor`). Of the servers it promises less than of the lists: a goroutine fetches
its adapter before it consults the cache, so one that was on its way when the
cache was invalidated may fill it from the server it fetched, and answers then
come from as far back as `oldest`, the oldest adapter held at the last
invalidation. `Strangers` says whether there are goroutines the module does not
know of, which may hold any adapter that can still be heard of.

`ProbeCache` has the map and its entries (`expiry` is zero, fresh or expired;
`inflight` names the goroutine that owns the channel), the generation, and a
stack frame per goroutine. Actions and code:

| Action | Code |
|---|---|
| `StartCall`, `EndCall` | the goroutines of `warmProbeCache` and `buildRouteIndex`, which fetch the adapter before they call |
| `WaitForRefresh`, `ServeCached`, `ClaimRefresh` | the three ways through the critical section of `probeEngineCached` |
| `ProbeUpstream` | `probeEngineFull`: `Status` fails, `ListModels` fails, or a list |
| `StoreProbe`, `ProbePanics`, `CloseDone` | `refreshProbe`, its deferred clean-up, and `close(done)` |
| `invalidateProbeCache`, `Expire` | the invalidation, and ten seconds passing |
| `ChangeList`, `ReplaceAdapter` | a pull or delete upstream; `reloadEngineCache` after an edit or with a re-used id |

The peeks (`peekProbeState`, `peekProbeData`) are one critical section each and
change nothing, so they are operators of the state: what a page would be shown
of an engine now, and whether it would be told to start a refresh.
`PeeksAreMeaningful` compares that with `answered`, the statuses that probes of
the current generation have found, and with the refreshes that are running. The
callers of the peeks are left out: they only display, and the warm that
`navEngines` starts is one more caller of the cache.

A channel is only ever waited on and closed once, so `CloseDone` moves its
waiters directly. A panic in one of these goroutines ends a Go process unless
something recovers it; the code cleans up all the same, and the model takes the
clean-up at its word. The call of `invalidateRouteIndex` at the end of
`invalidateProbeCache` touches no variable of this module; `RouteIndex` has it.

### RouteIndex

Routing for one model name, which is all that `selectEngine` looks at: an
server *holds* the model in every second version of its list, starting with the
servers of `Held`. An index object is named by the build that made it, because
the goroutines of the build go on filling it after it was returned; a build
records which engines it asked, the ids appended, the lists seen, and which ids
were appended after it had returned (`late`).

`dropped` and `settled` are history: the engines, lists and oldest adapters that
the last invalidation of the probe cache and of the index covered. Removing an engine
takes it out of both, since its id may be given out again before the removal is
settled, to an engine whose own change is not settled yet; two admins are
enough for that.

| Action | Code |
|---|---|
| `LaunchProbes`, `CollectProbe` | `buildRouteIndex` and its goroutines |
| `ReturnIndex`, `CutShort` | the two ways out of its select, the sort, and `storeRouteIndex` |
| `LoadIndex`, `BuildFirst`, `UseBuild` | `currentRouteIndex` and the return of a synchronous rebuild |
| `RouteHit`, `RecheckMiss`, `RouteMiss`, `RejectEmpty` | `selectEngine` |
| `RefreshAsync`, `EndRefresh`, `Boot` | `refreshRouteIndexAsync`, and its first call in `main` |
| `ChangeModel`, `PullNothing` | what a pull or delete did, which may be nothing; its server may no longer be the engine's |
| `EditEngine`, `AddEngine`, `RemoveEngine` | `saveEngines` in the handlers of the Settings page; a new engine takes the id after the highest, on a server of its own |
| `DropProbes`, `invalidateRouteIndex`, `Kick` | `onEnginesChanged`, step by step |
| `ExpireIndex`, `Reclaim` | a minute passing; garbage collection |

Probes behave as `ProbeService` says, with one caller per build and engine. The
warm that `onEnginesChanged` also starts, and the goroutines of builds that are
forgotten, are further callers of the cache. They may hold old adapters too,
which `Strangers = TRUE` allows for; `ProbeCache`, which has every caller in
sight, is checked against the service without them. Four
reductions keep the state space small, each argued where it is made: being told
and adding to the index is one step, sorting and storing is one step, a build
nothing refers to is forgotten at once, and the generation of a finished build
is reset. The emptiness check of `selectEngine` and the load of the index after
it are one step. Requests that name no model go to `defaultEngine` and are not
modelled. A save whose reload fails, which ends without `onEnginesChanged`, is
in `EngineStore` and not here. `Reclaim` is the only definition without a counterpart in the source.

### LogWriter

The interaction writer and the request writer are the same code over two
channels and tables and share no state, so one stands for both. An entry is the
number of its enqueue call. The model has the channel, the batch, the timer and
the writer's own flag for it, what was refused, stored and lost, the handlers,
and `main`'s phases from serving to closed. `flush` is the closure together
with the transaction: any subset of the batch may end up stored, since a failed
`Begin`, `Prepare` or `Commit` loses all of it and a failed `Exec` one row.
`time.Timer.Stop` leaves no stale tick behind, which holds from Go 1.23 on
(`go.mod` asks for 1.25) and by the drain in the code before that. A server
error that makes `main` call `os.Exit` skips the whole sequence and is left
out, as is the periodic log of the drop counters.

### UserCache

A row has its columns and the number of edits made to it; an API key is named
by the edit that issued it. The cache is the LRU list, most recent first, with
the key it is filed under, the row, and its age in ticks. A tick is a minute or
more, so that every bucket is full after one; `Refill` is what happens within a
minute.

| Action | Code |
|---|---|
| `BeginRequest`, `ReadRow`, `userCacheSet` | `getUserByAPIKey`: hit, query, store, in separate critical sections |
| `FetchLimiter`, `Allow` | `apiAuthMiddleware`, then `isAllowed`: the registry under its lock, the bucket after the unlock |
| `BeginEdit`, `UpdateRow`, `invalidateUserCache`, `dropUserLimiter` | the admin handlers for toggle, key, limit and delete |
| `createUser`, `resetAllLimiters` | registration, system reset |
| `sweepIdleLimiters`, `Refill`, `Tick` | the sweeper; time |

`settled`, `raced` and `ideal` are history: how far the invalidations have got,
whether a lookup was overtaken by one, and what a single bucket would have left.
The bucket of `golang.org/x/time/rate` is a counter. `ideal` is given up while a
limit change is under way or cached, after a reset, and for a request that
pauses a minute between finding its bucket and using it; the code promises
nothing there. The deletion's effect on the row is here; the export it requires
is in `AdminAccess`.

### EngineStore

The list is a function from ids to type, key and port. An adapter is named by
the reload that made it and its engine, so an old limiter and the new one of the
same engine are different objects, as in the code.

| Action | Code |
|---|---|
| `EditEngines` | `handleEngineSettings`, `handleRemoveEngine`: read the list, change the copy |
| `setSetting`, `ReloadReads`, `ReloadFails`, `Publish` | `saveEngines` and `reloadEngineCache` |
| `Route`, `TryAcquire`, `GiveUp`, `Release` | `acquireEngine` and the deferred release |

Two saves at once are let through as the code lets them: the later one undoes
the earlier. `overtaken` and `failed` say why the cache may differ from the
stored list, and `CacheIsStored` that nothing else makes it differ. The call of
`onEnginesChanged` that follows is in `RouteIndex`.

### AnthropicStream and Completion

Content is counted in *pieces*, numbered as the engine sends them: a text, a
tool call with name or arguments or both. `AnthropicStream` has the translator
(`newAnthropicStream`, `chunk`, `end`, `closeBlock`), the translation of a whole
reply, and a strict parser of either protocol, which stands for the client.

`Completion` follows one request at a time on any route, streamed or not, over
either engine type, with four actors: the handler, the timer goroutine of
`streamDeadline`, the engine and the client.

| Action | Code |
|---|---|
| `Arrive`, `Unauthorized`, `Authorized` | `metricsMiddleware`, `recoveryMiddleware`, `apiAuthMiddleware`, the request log |
| `Refuse`, `handleCountTokens`, `acquireEngine` | the checks of both completion handlers, and the token count |
| `ChatAnswers`, `TranslateFails`, `EngineFails` | replies that do not stream, and an engine that fails |
| `StreamChat`, `SendStart`, `RecvOllama`, `RecvCompat`, `RecvEOF`, `RecvFails` | the stream, and the two adapters' `Recv` |
| `Relay`, `Interrupted`, `Finish` | the relay loop of both handlers |
| `Tick`, `fired`, `HangUp` | the timer, and the client leaving |
| `Panic`, `Unwind` | a panic anywhere; the deferred calls and the middleware on the way out |
| `NextRequest` | the next request starts from a clean slate; it has no counterpart |

`conn.sent` is the status on the wire and `conn.status` the recorder's, so that
their agreement is a property. A client that leaves stops reading; a write to it
may still succeed, as it does with buffered sockets. `fired` is taken to run
before the timer would expire again. The ceiling is always positive
(`engine.go` 77), so a deadline without one is not modelled.

### AdminAccess

The whole session is in the cookie. A request carries the cookie of the moment
it was sent, and its response replaces whatever cookie the browser holds when it
arrives: two tabs are enough for responses to overtake one another.

| Action | Code |
|---|---|
| `newBaseData`, `csrfMiddleware`, `NotAdmin` | every page, and the checks in front of every form |
| `Throttled`, `BeginLogin`, `NoHash`, `WrongPassword`, `RightPassword` | `handleAdminLogin` around the key derivation, with `allow`, `failed`, `succeeded` |
| `handleLogout`, `handleChangePassword`, `handleExport`, `handleDelete` | the handlers |
| `Deliver`, `Expire`, `Tick` | the browser; the age of the cookie; time |

A save that fails is a choice of every handler that saves. A save after the
first byte of the body sets no cookie, which is how `net/http` behaves; the
branch of `handleDelete` behind the export flag is therefore never reached, in
the model as in the program (see findings).

## 3. Runs

| Run | Instance | States | Shows |
|---|---|---|---|
| `ProbeCache` | 2 goroutines, 1 engine, 1 edit, 1 list change per server, 2 invalidations | 1.0 M | the cache implements `ProbeService`; the five invariants; waiters are woken |
| `ProbeEdits` | the same | violation | see findings |
| `RouteIndex` | 3 builds, 1 engine with 2 servers of which the second holds the model at first, 1 list change per server, 2 admin changes, 1 request slot, strangers | 3.7 M (symmetry) | fresh indexes are current, 404s are deserved |
| `RouteOrder` | 3 builds, 2 engines that both hold the model, strangers | 0.1 M (symmetry) | the first-added engine wins |
| `RouteRefresh` | 3 builds, 1 engine that holds the model, 1 admin change | 0.5 M | stale indexes are replaced |
| `RouteFrozen` | 1 engine that holds the model, no changes | violation | see findings |
| `LogWriter` | 2 handlers, queue and batch of 2, 5 entries | 21 k | accounting, order, deadlines, bounds, clean exit, termination |
| `UserCache` | 1 user, 2 requests, 1 admin, limits 1 and 2, 2 cache entries that live 2 ticks, 1 edit | 0.4 M | only a raced lookup leaves an old row; edits take hold in the end; bursts stay within the bucket |
| `EngineStore` | 2 admins, 3 requests, 2 slots, 2 engine ids, 3 saves | 0.7 M (symmetry) | slots are accounted for over reloads; the cache is the stored list but for the two named cases; no leftover fields |
| `Completion` | idle limit of 2 ticks, ceiling of 3, 3 pieces, audit of 3 units | 0.8 M | status, stream, stop reason, audit and error of a request agree; every request ends |
| `AdminAccess` | 2 tabs, 2 failures, lockouts of 1 to 2 ticks, 2 tokens | 0.9 M | wrong passwords are bounded; logged out means out; lockouts end |
| `ExportDelete` | the same | violation | see findings |

Why these bounds are enough to reach the interesting cases:

* `ProbeCache`: the entries of different engines do not interact, so one engine
  is enough; two goroutines give a refresh of an old generation beside one of
  the new, with a waiter on either; two invalidations let a probe be overtaken
  twice; one edit and one list change per server separate old from new.
* `RouteIndex`: one request can hold one build while the background refresh
  holds another and the published index a third, so three builds never run out
  within one request. Two changes overtake a build twice; they are a removal and
  a new engine with the same id, an edit and a pull, or any other two. That
  only the second server holds the model at first makes an edit, or a re-used
  id, what brings it within reach, with the old server's answers a wrong 404;
  a pull on the first server brings it there. The order of ids needs two
  engines, which a run of its own has, and that run needs no change: it is about
  the sort, the deadline and the appends after it. Request slots are used again
  and again. `RouteRefresh` needs
  no change of a list: a pull that changed nothing marks the index stale and
  rejects the builds in flight just as well, and failing probes make the misses.
* `LogWriter`: five entries overflow the channel, fill a batch, and leave one
  that only the timer or the drain flushes. The theorems lift the bounds.
* `UserCache`: the rows and buckets of different users meet only in the
  eviction of the LRU list, which the keys of one user (old key, new key, id)
  exceed with a capacity of two. Two requests let one hold the old row while the
  other fills the cache or replaces the bucket; one edit separates old from new,
  and requests are used again and again.
* `EngineStore`: two admins lose updates and overtake each other's reload; three
  requests and two slots give a full limiter with one waiting, and slots held on
  two generations of adapters; three saves replace an adapter twice.
* `Completion`: three pieces make text between two calls, two calls in one line
  and a return to an earlier call. The audit is full before the longest reply
  ends. With limits of 2 and 3 either bound can be the sooner one, and progress
  can extend the first but not the second.
* `AdminAccess`: two failures begin a lockout with another attempt under way;
  1 to 2 ticks double it once and then cap it; two tokens give a form older than
  the session's token.

Fairness. Goroutines that can run are run by the Go scheduler. In `ProbeCache`
an upstream probe ends because `controlClient` has a five-second timeout. In
`RouteIndex` a build returns because its context expires, so no probe has to
answer; an admin handler that has made its change runs to its end; and garbage
is collected (a stand-in: a build name becomes free). Nothing is assumed of who
sends requests, changes engines or lets entries expire, except in
`TrafficSpec`, where requests for the model keep coming: without them a stale
index is legitimately left as it is. In `LogWriter` nothing is assumed of
handlers, since a stream may run for hours.
In `UserCache` handlers that began run on, and the clock goes on; nothing is
assumed of requests, edits or the sweeper. In `Completion` the handler, the
timer goroutine and time go on, and a read whose context is cancelled returns;
`Chat` is bounded by `upstreamChatTimeout` and `StreamChat` by the deadline's
context. Nothing is assumed of what an engine sends. A write to the client is
taken to end: the server sets no `WriteTimeout` (`main.go` 1092), so a client
that neither reads nor leaves is outside `EveryRequestEnds`. In `AdminAccess`
only time passes. `EngineStore` states no liveness and no fairness.

`CHECK_DEADLOCK FALSE` is set for `LogWriter`, where the process ends, and for
`EngineStore`, where the saves run out.

### Findings

* `ProbeEdits` (`engine.go` 655, 720): a goroutine that fetched the adapter
  before an edit may reach the cache after the edit's invalidation. It then
  owns a refresh of the *new* generation and stores what the *old* server
  reported, for ten seconds, although "the admin sees fresh data immediately"
  (`engine.go` 695). The generation guards against probes begun before the
  invalidation, not against adapters fetched before it. Routing inherits this:
  a build begun after the edit is given the old server's list, is of the current
  generation, and is published as fresh for up to 60 seconds, so `selectEngine`
  may answer 404 for a model the engine has (`routing.go` 159-161 claims that
  "in-flight builds assembled from pre-change probes are rejected"). This is why
  `FreshIndexIsCurrent` and `NotFoundIsDeserved` count an edit, or a re-used id,
  only if nobody held an older adapter of the engine when it settled (`oldest`).
* `RouteFrozen` (`routing.go` 97, 107): a build whose context expired publishes
  its index while its goroutines still append to the map, which `selectEngine`
  reads without the mutex. `routing.go` 165 states that readers "must not see a
  struct mutate underneath them". The late ids also come after the sort, in
  the order of the answers, so a higher id may serve the model until the next
  build, while `routing.go` 22-24 promises that "the lowest engine ID wins".
  `FirstAddedWins` is what does hold: an engine that answered before the build
  returned never gives way to a higher id.
* `ExportDelete` (`handlers.go` 1067, 1074, 1153): the export flushes the CSV
  before it saves the session, so the cookie with its flag never leaves the
  server and the deletion is refused with "Export required before delete"
  however often the log was exported. `README.md` 684-685 of the repository
  says that the deletion is possible once the export is done.

Seen while modelling, and built into the models as the code has it:

* The idle timer runs while a slow client is written to (`api_handlers.go`
  652-654), so a stream whose engine is prompt can end as idle, although the
  comment there says that a slow reader "must not get its own completion killed".
* `StreamChat` failing through the deadline is recorded as an engine error, and
  a client that leaves while the handler is in `Recv` as an interrupted stream.
* A panic on a `/v1/messages` stream is answered with the frames of a chat
  stream, and a panicking stream's audit row has no mark. Hence the exceptions
  in `ClientIsTold`, `StreamIsWellFormed` and `AuditIsWhatClientGot`.
* A body that the engine ends early but cleanly reads as the end of the reply.
* The last line of an Ollama stream loses its text unless it is the first too.
* A tool call that an engine returns to after another opens a nameless block.
* A lookup that raced with an edit keeps the old row for up to five minutes,
  while `OPENAI_COMPATIBILITY.md` 171 and `README.md` 588 and 683 say
  "immediately". `StaleRowsRaced` and `EditsTakeHold` are what does hold.
* A reload that cannot read the list publishes an empty one, while `engine.go`
  558-560 takes the set in memory to be unchanged then.
* Every reload brings new limiters, so an engine can for a while be given more
  requests than the configured limit (`README.md` 790).
* The later of two concurrent saves of the engine list undoes the earlier.
* A response that was overtaken by a logout brings the session cookie back:
  the "raced" case of `OutMeansOut`.

## 4. Theorems

The proof modules follow one plan: type correctness, an inductive invariant
that TLC has checked on a run's instance, one step lemma with a case per
action, and each property as a corollary through PTL. Nothing is assumed beyond
the named assumptions on the constants: that the sets of users, requests,
admins and tabs are finite where something is counted, that limits and bounds
are naturals, and that `Nil` is none of the values it stands beside.

`ProbeCacheProofs`, for all sets of engines and goroutines and all bounds:
`TypeCorrect`, `MarkersLive`, `OneRefreshAtATime`, `NoStaleStore`,
`PeeksMeaningful`. `InvalidationSticks` is not inductive: it says nothing of a
result that was read and not yet stored. `CacheInv` adds that a running refresh
of the current generation still has its marker in the map
(`CurrentRefreshIsMarked`), that what it read is as new as the last
invalidation (`ReadsAreRecent`), that floors are past versions
(`FloorsArePast`) and that absent entries are empty. `PeeksMeaningful` needs two
parts more: a status in the cache, or on its way there, was found by a probe of
this generation (`StatusesWereFound`), and the refreshes of this generation are
exactly the markers in the map. `SingleFlight` then
follows without being part of it: two refreshes of one generation would both
have to own the single marker.

`RouteIndexProofs`, for all finite sets of engines and admins, any builds and
requests and all bounds: `TypeCorrect`, `FreshIsCurrent` (`FreshIndexIsCurrent`),
`RefusalIsDeserved` (`NotFoundIsDeserved`) and `FirstAddedServes`
(`FirstAddedWins`). The generation keeps its bound because every handler that
will still raise it is counted in `changes` (`TypeInv`). `BuildInv` says that
the ids in an index are those of the engines whose answers named the model,
that once the build is ready an id that was there for the sort follows lower
ones only (`Ordered`; late ids lie anywhere behind), and that what somebody
refers to is not collected. `FreshInv` carries the promise of a fresh index
back to the build that may become it: while its generation is current, what it
has read is as new as what is settled, by list and by server, and the questions
it still has open have a floor no older (`UpToDate`); what was settled lies in
the past of the probe cache, by its floor and by its oldest adapter (`Past`),
so whatever answer is still to come is in order too. `OwedInv` carries
it forward to a request that still holds an index the next change has already
superseded: as long as nothing changes on the engine, its floor and its oldest
adapter are the present ones (`Settled`), so every answer about it is its list
(`Answerable`). `PointerMoves`, `BuildMoves` and `RequestMoves` say once what a step
can do to the published pointer, a build and a request, so that each invariant
is proved by those few cases. `SortedFacts` rests on `EnumerationExists`: every
finite set of naturals has an increasing enumeration.

`LogWriterProofs`, for all queue sizes, thresholds and numbers of entries:
`TypeCorrect`, `NothingVanishes`, `RowsInOrder`, `NoEntryWaitsForever`,
`LogMemoryBounded`, `CleanExit`. Accounting and order are proved together,
after the order of positions is restated as an order of sets (`OrderOfSets`);
the clean exit needs `ShutdownShape`, which follows the writer and `main`
through shutdown, and the timer needs `TimerIsKnown`.

`CacheImplementsService` proves `Spec => Service!ServiceSpec`: every step of the
cache is a step of `ProbeService` or a stutter under the mapping of
`ProbeCache`. The step that answers needs to know that the list in the entry
was the server's at some time since the floor of the question, which is
`AllWasRead`: every sighting, in an entry or on its way to one, was read from a
server that exists and at a version it has had, and that adapters in the hands
of goroutines lie between `oldest` and the present one (`OldestIsHeld`). The
liveness of the service
(`WaitersAreWoken`) is not part of it.

`UserCacheProofs`, for all finite sets of users, requests and admins, all
limits, cache sizes and numbers of edits: `TypeCorrect`, `InvalidationReachesAll`
(`StaleRowsRaced`) and `OneBucketsWorth` (`BurstBounded`).

* `TypeOK` bounds the edits of a row, so `TypeInv` counts the edits under way
  beside those made, and needs that `getLimiter` always finds a free bucket for
  a user without one: at most one bucket is in the registry for each user and
  one in the hands of each request, and there is one more (`FreeBucket`, by
  counting).
* A cached row is at least as new as the last invalidation unless its lookup
  was raced. `StaleInv` says so of the rows that lookups have read and not yet
  stored, since one of them is what the cache holds next. What a fill keeps of
  the LRU list is a recursive function (`KeptUpTo`); `KeptFacts` states what it
  returns, by the induction of `RecursionFacts`.
* `BurstInv` says of every user whose limit is settled that the registered
  bucket holds at most what the ideal one would, that it is absent only if the
  ideal one is full, and that every request holding a bucket holds the
  registered one (`Sound`). That is why a sweep or a deletion loses nothing.

`EngineStoreProofs`, for any admins, requests and engine ids: `TypeCorrect`,
`NoSlotLeaks`, `CacheFollowsStore`, `EditsLeaveNothing`. `StoreInv` relates what
each handler has read to what is stored: a reload between its read and its
publication holds the stored list or has been overtaken, and every copy of the
list, in a handler's hands too, is free of left-over fields.

`AdminAccessProofs`, for any finite set of tabs and all limits: `TypeCorrect`,
`GuardBoundsWork` (`WorkBounded`) and `LogoutHolds` (`OutMeansOut`). `AccessInv`
counts the attempts under way (`AttemptsCounted`): the work of a lockout period
is the failures counted so far plus the attempts that passed `allow` before the
lockout began.

`CompletionProofs`, for all lengths and limits: `TypeCorrect`, `OneStatus`
(`StatusAgrees`), `CauseIsRight` (`InterruptionIsExplained`), `ClientLearns`
(`ClientIsTold`), `StreamIsRead` (`StreamIsWellFormed`), `ReasonIsRight`
(`StopReasonIsRight`) and `AuditIsRight` (`AuditIsWhatClientGot`), from three
invariants.

* `StatusInv` follows the status from the handler to the wire and the records.
* `CauseInv`: the first cause sticks to the context, and a handler that saw the
  stream break has recorded the cause that broke it, also while it unwinds.
* `StreamInv` keeps four parties in step while a stream is relayed. The
  properties speak of the end of a request; none of them is inductive, and each
  needs a part of what holds between two chunks:
  * `Told`, `Synced`: a client that is still there is in the block that the
    translator has open, under the same index (on `/v1/chat/completions`, in an
    open stream), until it has read the end or an error;
  * `Audited`: the audit is what that client got, cut at the limit. Writing in
    pieces and cutting once give the same (`TruncGrows`), and a client that left
    has a prefix (`PrefixGrows`);
  * `Translating`: the calls the engine has numbered are those the translator
    knows, the piece sent last is the block it has open, and a chunk that is
    about to be written either names a new call or, in its first piece, goes on
    with an old one. Hence no named call ends up in a block of another
    (`Fresh`), and a nameless block means that the engine went back;
  * `Called`, `Stopped`: the client has seen a call exactly if the engine has
    made one, and a reason is said once, when the engine is through.

  The translator, the parser and the audit text are functions by recursion over
  the pieces of a chunk and the events of a write. `TranslationRuns`,
  `ParseRuns` and `TextRuns` unfold them with the facts of `RecursionFacts`, and
  `ChunkRelayed` is the induction: a client in step with the translator is in
  step after every piece, and has got what the audit gets. `LineContinues`,
  `CompatContinues` and `RepliesContinue` say that what either engine sends is
  what `Translating` expects of a chunk.

Only model-checked:

* the liveness properties `WaitersAreWoken`, `StaleIsRefreshed`,
  `AcceptedIsSettled`, `ShutdownEnds`, `EditsTakeHold`, `EveryRequestEnds` and
  `LockoutEnds`: fairness and ENABLED are outside the prover's reach.

Every invariant of the passing runs is stated by a theorem.

## 5. Plan

The system's core is modelled, and its invariants are proved. What could be
added is the translation of requests as pure operators, and pruning and
deletion beside the log writers.

### Not modelled

* The translation of requests (`openAIToOllama`, `anthropicToOpenAI`,
  `sanitizeMessages`, the request builders of `engine.go`): stateless, field by
  field, and within reach of unit tests.
* Migrations, `pruneLogs` and the log queries: they run once, delete by age, or
  only read.
* The pages' contents, model listings, engine tests and the usage panel; CORS
  headers and `Hijack`; the timings and token counts that are recorded.
* Templates, static files and deployment scripts.

Of these only the log tables are shared by several actors: the writers insert,
pruning and deletions remove, the pages read, each in a transaction of SQLite.
An entry still queued when its user is deleted is written afterwards; that
hazard has no property.
