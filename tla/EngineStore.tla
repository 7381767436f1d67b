----------------------------- MODULE EngineStore -----------------------------
(***************************************************************************)
(* The engine list: the settings row that stores it, the admin handlers    *)
(* that read, change and write it back whole (handlers.go), the cache of   *)
(* adapters reloaded after a save, and the concurrency slots that requests *)
(* take on an adapter (engine.go, api_handlers.go).                        *)
(*                                                                         *)
(* A list maps engine ids to configurations; it is kept in the order of    *)
(* the ids.  A reload makes every adapter, and so every limiter, anew: an  *)
(* adapter is named by the reload that made it and its engine.             *)
(***************************************************************************)
EXTENDS Integers, FiniteSets, FiniteSetsExt, Functions

CONSTANTS Admins, Requests,
          Slots,     \* cfg.UpstreamConcurrency
          MaxId,     \* bound on engine ids
          MaxSaves,  \* bound on the lists written
          NoAdapter

ASSUME StoreAssumption ==
  /\ Slots \in Nat \ {0} /\ MaxId \in Nat \ {0} /\ MaxSaves \in Nat
  /\ IsFiniteSet(Admins) /\ IsFiniteSet(Requests)

VARIABLES settings,  \* the stored list, and how many were stored before it
          cache,     \* engineCachePtr: the list, its reload, and history
          admin,     \* admin[a]: a handler
          request,   \* request[r]: a completion request and its adapter
          sem        \* sem[x]: tokens in the channel of the limiter of x

vars == <<settings, cache, admin, request, sem>>

Ids == 1..MaxId
Reloads == 0..MaxSaves
Adapters == Reloads \X Ids
NoKey == ""   \* the form leaves a key blank, or an engine needs none
Keys == {NoKey, "key"}
Configs == [type : {"ollama", "openai_compat"}, key : Keys, port : {0, 11434}]
Lists == UNION {[ids -> Configs] : ids \in SUBSET Ids}
NoEngines == [e \in {} |-> 0]
With(list, e, config) == [x \in DOMAIN list \cup {e} |-> IF x = e THEN config ELSE list[x]]

-----------------------------------------------------------------------------

Idle == [pc |-> "idle", list |-> NoEngines, base |-> 0]

\* What was stored when the process started is reloaded before it serves.
Init ==
  /\ settings \in {[list |-> l, n |-> 0] :
       l \in {NoEngines, With(NoEngines, 1, [type |-> "openai_compat", key |-> "key", port |-> 0])}}
  /\ cache = [list |-> settings.list, reload |-> 0, overtaken |-> FALSE, failed |-> FALSE]
  /\ admin = [a \in Admins |-> Idle]
  /\ request = [r \in Requests |-> [pc |-> "idle", adapter |-> NoAdapter]]
  /\ sem = [x \in Adapters |-> 0]

-----------------------------------------------------------------------------
(* Admin handlers.                                                         *)

\* Mutant: the key of the other engine type is left in place.
applyEngineEdit_KeepsKey(config, type, key) ==
  [type |-> type,
   key |-> IF key # NoKey THEN key ELSE config.key,
   port |-> IF type = "ollama" THEN 11434 ELSE 0]

\* A blank key keeps the stored one, and what belongs to the other type is
\* cleared.
applyEngineEdit(config, type, key) ==
  [type |-> type,
   key |-> IF type = "ollama" THEN NoKey ELSE IF key # NoKey THEN key ELSE config.key,
   port |-> IF type = "ollama" THEN 11434 ELSE 0]

newID(list) == Max(DOMAIN list \cup {0}) + 1
Blank == [type |-> "ollama", key |-> NoKey, port |-> 0]

\* The list after a create, an edit or a removal of what the form names.  An
\* id that is not in the list is an error and changes nothing.
Created(list) ==
  {With(list, newID(list), applyEngineEdit(Blank, type, key)) :
     type \in {"ollama", "openai_compat"}, key \in Keys}
Updated(list) ==
  {[list EXCEPT ![e] = applyEngineEdit(list[e], type, key)] :
     e \in DOMAIN list, type \in {"ollama", "openai_compat"}, key \in Keys}
Removed(list) == {Restrict(list, DOMAIN list \ {e}) : e \in DOMAIN list}

Saving == {a \in Admins : admin[a].pc # "idle"}

\* handleEngineSettings or handleRemoveEngine reads the list and changes its
\* copy.  If the read fails, nothing else happens.
EditEngines(a) ==
  /\ admin[a].pc = "idle" /\ settings.n + Cardinality(Saving) < MaxSaves
  /\ \E list \in Updated(settings.list) \cup Removed(settings.list)
                 \cup {l \in Created(settings.list) : DOMAIN l \subseteq Ids} :
       admin' = [admin EXCEPT ![a] = [pc |-> "set", list |-> list, base |-> settings.n]]
  /\ UNCHANGED <<settings, cache, request, sem>>

\* Mutant: the list is read for the reload before it is written.
setSetting_ReloadFirst(a) ==
  /\ admin[a].pc = "set"
  /\ \/ /\ settings' = [list |-> admin[a].list, n |-> settings.n + 1]
        /\ admin' = [admin EXCEPT ![a] = [pc |-> "publish", list |-> settings.list,
                                          base |-> settings.n + 1]]
     \/ admin' = [admin EXCEPT ![a] = Idle] /\ UNCHANGED settings
  /\ UNCHANGED <<cache, request, sem>>

\* saveEngines writes the whole list, over whatever is stored by now, or fails.
setSetting(a) ==
  /\ admin[a].pc = "set"
  /\ \/ /\ settings' = [list |-> admin[a].list, n |-> settings.n + 1]
        /\ admin' = [admin EXCEPT ![a] = [Idle EXCEPT !.pc = "reload"]]
     \/ admin' = [admin EXCEPT ![a] = Idle] /\ UNCHANGED settings
  /\ UNCHANGED <<cache, request, sem>>

\* reloadEngineCache reads the list back ...
ReloadReads(a) ==
  /\ admin[a].pc = "reload"
  /\ admin' = [admin EXCEPT ![a] = [pc |-> "publish", list |-> settings.list,
                                    base |-> settings.n]]
  /\ UNCHANGED <<settings, cache, request, sem>>

\* ... or cannot, and publishes an empty list: the save reports a failure.
ReloadFails(a) ==
  /\ admin[a].pc = "reload"
  /\ cache' = [cache EXCEPT !.list = NoEngines, !.overtaken = FALSE, !.failed = TRUE]
  /\ admin' = [admin EXCEPT ![a] = Idle]
  /\ UNCHANGED <<settings, request, sem>>

\* A new adapter with an empty limiter for every engine in the list.
Publish(a) ==
  /\ admin[a].pc = "publish"
  /\ cache' = [list |-> admin[a].list, reload |-> cache.reload + 1,
               overtaken |-> admin[a].base # settings.n, failed |-> FALSE]
  /\ admin' = [admin EXCEPT ![a] = Idle]
  /\ UNCHANGED <<settings, request, sem>>

-----------------------------------------------------------------------------
(* acquireEngine.                                                          *)

\* The request is routed to an adapter of the cached list and waits.
Route(r, e) ==
  /\ request[r].pc = "idle" /\ e \in DOMAIN cache.list
  /\ request' = [request EXCEPT ![r] = [pc |-> "waiting", adapter |-> <<cache.reload, e>>]]
  /\ UNCHANGED <<settings, cache, admin, sem>>

\* Mutant: the channel has no capacity limit.
TryAcquire_Unbounded(r) ==
  /\ request[r].pc = "waiting"
  /\ sem' = [sem EXCEPT ![request[r].adapter] = @ + 1]
  /\ request' = [request EXCEPT ![r].pc = "holding"]
  /\ UNCHANGED <<settings, cache, admin>>

\* TryAcquire sends into the limiter's channel, if it has room ...
TryAcquire(r) ==
  LET x == request[r].adapter
  IN /\ request[r].pc = "waiting" /\ sem[x] < Slots
     /\ sem' = [sem EXCEPT ![x] = @ + 1]
     /\ request' = [request EXCEPT ![r].pc = "holding"]
     /\ UNCHANGED <<settings, cache, admin>>

Done(r) == request' = [request EXCEPT ![r] = [pc |-> "idle", adapter |-> NoAdapter]]

\* ... and gives up after 250 ms, or when the client has left.
GiveUp(r) ==
  /\ request[r].pc = "waiting"
  /\ Done(r)
  /\ UNCHANGED <<settings, cache, admin, sem>>

Drained(x) == [sem EXCEPT ![x] = IF @ > 0 THEN @ - 1 ELSE 0]

\* Mutant: the slot is returned to the engine's present adapter.
Release_Current(r) ==
  /\ request[r].pc = "holding"
  /\ sem' = Drained(<<cache.reload, request[r].adapter[2]>>)
  /\ Done(r)
  /\ UNCHANGED <<settings, cache, admin>>

\* The deferred release returns the slot to the adapter it was taken from.
Release(r) ==
  /\ request[r].pc = "holding"
  /\ sem' = Drained(request[r].adapter)
  /\ Done(r)
  /\ UNCHANGED <<settings, cache, admin>>

Next ==
  \/ \E a \in Admins :
       EditEngines(a) \/ setSetting(a) \/ ReloadReads(a) \/ ReloadFails(a) \/ Publish(a)
  \/ \E r \in Requests, e \in Ids : Route(r, e)
  \/ \E r \in Requests : TryAcquire(r) \/ GiveUp(r) \/ Release(r)

Spec == Init /\ [][Next]_vars

-----------------------------------------------------------------------------
(* Properties.                                                             *)

\* The stored list, the cache, the handlers, the requests and the limiters have
\* their types.
TypeOK ==
  /\ settings \in [list : Lists, n : 0..MaxSaves]
  /\ cache \in [list : Lists, reload : Reloads, overtaken : BOOLEAN, failed : BOOLEAN]
  /\ admin \in [Admins -> [pc : {"idle", "set", "reload", "publish"}, list : Lists,
                            base : 0..MaxSaves]]
  /\ request \in [Requests -> [pc : {"idle", "waiting", "holding"},
                                adapter : Adapters \cup {NoAdapter}]]
  /\ sem \in [Adapters -> 0..Slots]

\* Every limiter holds exactly the slots of the requests that are using it,
\* whatever was reloaded under them: none leaks with a replaced adapter, and
\* the non-blocking Release never drains a slot another request holds.
SlotsAccounted ==
  \A x \in Adapters :
    sem[x] = Cardinality({r \in Requests : request[r].pc = "holding" /\ request[r].adapter = x})

\* Once no handler is between its write and its reload, requests are routed
\* over the stored list, unless the last reload failed to read it or was
\* overtaken by another save between its read and its publication.
CacheIsStored ==
  (\A a \in Admins : admin[a].pc \notin {"reload", "publish"})
    => cache.list = settings.list \/ cache.failed \/ cache.overtaken

\* No sequence of edits, interleaved as it may be, stores or serves an engine
\* with a field of the other type: an Ollama engine with a key, or an
\* OpenAI-compatible one with a port.
NoLeftoverFields ==
  \A list \in {settings.list, cache.list} : \A e \in DOMAIN list :
    IF list[e].type = "ollama" THEN list[e].key = NoKey ELSE list[e].port = 0
=============================================================================
